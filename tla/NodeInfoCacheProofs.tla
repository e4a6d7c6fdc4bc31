------------------------- MODULE NodeInfoCacheProofs -------------------------
(***************************************************************************)
(* The theorems of the guest's node cache, for every set of nodes.         *)
(***************************************************************************)
EXTENDS NodeInfoCache, FiniteSetTheorems, TLAPS

(* While the cycle lasts its snapshot stays; entries without a name come   *)
(* from List only, after which nothing is appended.                        *)
CacheInv ==
  /\ CacheTypeOK
  /\ OneSnapshot
  /\ OneEntryPerName
  /\ phase = "scheduling" => snapshot = asOf
  /\ \A i \in DOMAIN currentNodeInfoList :
       currentNodeInfoList[i].name = "" => isFullNodeInfoList

LEMMA ZeroVersion == 0 \in 0..MaxVersion
BY MaxVersionAssumption

LEMMA NoNameIsNoNode == "" \notin Node
BY NodeAssumption

LEMMA OfField ==
  ASSUME NEW data, NEW n, NEW v, data = [of |-> n, version |-> v]
  PROVE  data.of = n
OBVIOUS

LEMMA FetchedType ==
  ASSUME CacheTypeOK, NEW n \in Node \cup {""}
  PROVE  Fetched(n) \in Data
<1>1. CASE n \in Node
  <2>1. snapshot[n] \in 0..MaxVersion
    BY <1>1 DEF CacheTypeOK
  <2>. QED
    BY <1>1, <2>1 DEF Fetched, Data
<1>2. CASE n \notin Node
  <2>1. Fetched(n) = [of |-> n, version |-> 0]
    BY <1>2 DEF Fetched
  <2>2. [of |-> n, version |-> 0]
          \in [of : Node \cup {""}, version : 0..MaxVersion]
    BY ZeroVersion
  <2>. QED
    BY <2>1, <2>2 DEF Data
<1>. QED
  BY <1>1, <1>2

LEMMA UnfetchedType == Unfetched \in Data
BY MaxVersionAssumption DEF Unfetched, Data

(* Fetching a field of an entry keeps the list well-typed and the rest of  *)
(* it as it was.                                                           *)
LEMMA FetchNode ==
  ASSUME NEW list \in Seq(NodeInfo), NEW i \in DOMAIN list, NEW d \in Data,
         NEW new, new = [list EXCEPT ![i].node = d]
  PROVE  /\ new \in Seq(NodeInfo)
         /\ DOMAIN new = DOMAIN list
         /\ \A j \in DOMAIN list : j # i => new[j] = list[j]
         /\ \A j \in DOMAIN list : new[j].name = list[j].name
         /\ new[i].node = d /\ new[i].imageStates = list[i].imageStates
<1>1. list[i] \in NodeInfo
  OBVIOUS
<1>. DEFINE fetched == [list[i] EXCEPT !.node = d]
<1>2. /\ fetched \in NodeInfo
      /\ fetched.name = list[i].name
      /\ fetched.node = d
      /\ fetched.imageStates = list[i].imageStates
  BY <1>1 DEF NodeInfo
<1>3. new = [list EXCEPT ![i] = fetched]
  OBVIOUS
<1>. HIDE DEF fetched
<1>4. new \in Seq(NodeInfo) /\ DOMAIN new = DOMAIN list /\ new[i] = fetched
      /\ \A j \in DOMAIN list : j # i => new[j] = list[j]
  BY <1>2, <1>3
<1>. QED
  BY <1>2, <1>4

LEMMA FetchImages ==
  ASSUME NEW list \in Seq(NodeInfo), NEW i \in DOMAIN list, NEW d \in Data,
         NEW new, new = [list EXCEPT ![i].imageStates = d]
  PROVE  /\ new \in Seq(NodeInfo)
         /\ DOMAIN new = DOMAIN list
         /\ \A j \in DOMAIN list : j # i => new[j] = list[j]
         /\ \A j \in DOMAIN list : new[j].name = list[j].name
         /\ new[i].imageStates = d /\ new[i].node = list[i].node
<1>1. list[i] \in NodeInfo
  OBVIOUS
<1>. DEFINE fetched == [list[i] EXCEPT !.imageStates = d]
<1>2. /\ fetched \in NodeInfo
      /\ fetched.name = list[i].name
      /\ fetched.imageStates = d
      /\ fetched.node = list[i].node
  BY <1>1 DEF NodeInfo
<1>3. new = [list EXCEPT ![i] = fetched]
  OBVIOUS
<1>. HIDE DEF fetched
<1>4. new \in Seq(NodeInfo) /\ DOMAIN new = DOMAIN list /\ new[i] = fetched
      /\ \A j \in DOMAIN list : j # i => new[j] = list[j]
  BY <1>2, <1>3
<1>. QED
  BY <1>2, <1>4

LEMMA CacheInvInit == CacheInit => CacheInv
<1>. SUFFICES ASSUME CacheInit PROVE CacheInv
  OBVIOUS
<1>1. snapshot \in [Node -> 0..MaxVersion] /\ asOf = snapshot
  BY MaxVersionAssumption DEF CacheInit
<1>2. got \in [name : Node \cup {""}, found : BOOLEAN]
  BY DEF CacheInit, NoGet
<1>3. <<>> \in Seq(NodeInfo) /\ DOMAIN <<>> = {}
  OBVIOUS
<1>4. CacheTypeOK
  BY <1>1, <1>2, <1>3 DEF CacheInit, CacheTypeOK
<1>. QED
  BY <1>3, <1>4 DEF CacheInit, CacheInv, OneSnapshot, OneEntryPerName

(* The steps that leave the list alone.                                    *)
LEMMA ListUntouched ==
  ASSUME CacheInv, CacheTypeOK',
         UNCHANGED <<currentNodeInfoList, isFullNodeInfoList, asOf>>,
         phase' = "scheduling" => phase = "scheduling" /\ UNCHANGED snapshot
  PROVE  CacheInv'
BY DEF CacheInv, OneSnapshot, OfThisCycle, OneEntryPerName, IsOf

LEMMA CacheInvNext == CacheInv /\ [CacheNext]_cacheVars => CacheInv'
<1>. SUFFICES ASSUME CacheInv, [CacheNext]_cacheVars PROVE CacheInv'
  OBVIOUS
<1>0. NoGet \in [name : Node \cup {""}, found : BOOLEAN]
  BY DEF NoGet
<1>1. CASE Prefilter
  <2>1. snapshot' \in [Node -> 0..MaxVersion]
    BY <1>1 DEF Prefilter, SnapshotChanges, CacheInv, CacheTypeOK
  <2>2. <<>> \in Seq(NodeInfo) /\ DOMAIN <<>> = {}
    OBVIOUS
  <2>3. CacheTypeOK'
    BY <1>0, <1>1, <2>1, <2>2 DEF Prefilter, CacheTypeOK, NodeInfo, Data
  <2>. QED
    BY <1>1, <2>2, <2>3 DEF Prefilter, CacheInv, OneSnapshot, OneEntryPerName
<1>2. ASSUME NEW n \in Node, Get(n) PROVE CacheInv'
  <2>1. got' \in [name : Node \cup {""}, found : BOOLEAN]
    BY <1>2 DEF Get, Cached, CacheInv, CacheTypeOK
  <2>2. CASE UNCHANGED currentNodeInfoList
    <3>1. CacheTypeOK'
      BY <1>2, <2>1, <2>2 DEF Get, CacheInv, CacheTypeOK
    <3>. QED
      BY <1>2, <2>2, <3>1, ListUntouched DEF Get
  <2>3. CASE ~(Cached(n) \/ isFullNodeInfoList)
    <3>. DEFINE list == currentNodeInfoList
    <3>1. list' = Append(list, newNodeInfo(n))
      BY <1>2, <2>3 DEF Get
    <3>2. newNodeInfo(n) \in NodeInfo
      BY UnfetchedType DEF newNodeInfo, NodeInfo
    <3>3. list \in Seq(NodeInfo)
      BY DEF CacheInv, CacheTypeOK
    <3>4. /\ list' \in Seq(NodeInfo) /\ Len(list') = Len(list) + 1
          /\ list'[Len(list) + 1] = newNodeInfo(n)
          /\ \A i \in 1..Len(list) : list'[i] = list[i]
      BY <3>1, <3>2, <3>3
    <3>5. CacheTypeOK'
      BY <1>2, <2>1, <3>4 DEF Get, CacheInv, CacheTypeOK
    <3>6. \A i \in DOMAIN list' :
            \/ i \in DOMAIN list /\ list'[i] = list[i]
            \/ i = Len(list) + 1 /\ list'[i] = newNodeInfo(n)
      BY <3>3, <3>4
    <3>7. \A i \in DOMAIN list : list[i].name # n
      BY <2>3 DEF Cached
    <3>8. newNodeInfo(n).name = n /\ newNodeInfo(n).node = Unfetched
          /\ newNodeInfo(n).imageStates = Unfetched /\ n # ""
      BY NodeAssumption DEF newNodeInfo
    <3>. HIDE DEF list
    <3>9. OneEntryPerName'
      BY <3>6, <3>7, <3>8 DEF CacheInv, OneEntryPerName, list
    <3>10. OneSnapshot'
      BY <1>2, <3>6, <3>8
         DEF Get, CacheInv, OneSnapshot, OfThisCycle, IsOf, list
    <3>. QED
      BY <1>2, <3>5, <3>6, <3>8, <3>9, <3>10 DEF Get, CacheInv, list
  <2>. QED
    BY <1>2, <2>2, <2>3 DEF Get
<1>3. CASE List
  <2>1. CASE UNCHANGED <<currentNodeInfoList, isFullNodeInfoList>>
    <3>1. CacheTypeOK'
      BY <1>0, <1>3, <2>1 DEF List, CacheInv, CacheTypeOK
    <3>. QED
      BY <1>3, <2>1, <3>1, ListUntouched DEF List
  <2>2. CASE ~isFullNodeInfoList /\ Present # {} /\ isFullNodeInfoList'
    <3>1. PICK order \in [1..Cardinality(Present) -> Present] :
            currentNodeInfoList' =
              [i \in DOMAIN order |-> ListedNodeInfo(order[i])]
      BY <1>3, <2>2 DEF List
    <3>2. Cardinality(Present) \in Nat
      BY NodeAssumption, FS_Subset, FS_CardinalityType DEF Present
    <3>3. \A n \in Node : ListedNodeInfo(n) \in NodeInfo
      BY FetchedType, UnfetchedType DEF CacheInv, ListedNodeInfo, NodeInfo
    <3>4. currentNodeInfoList' \in Seq(NodeInfo)
      BY <3>1, <3>2, <3>3 DEF Present
    <3>5. CacheTypeOK'
      BY <1>0, <1>3, <2>2, <3>4 DEF List, CacheInv, CacheTypeOK
    <3>6. \A i \in DOMAIN currentNodeInfoList' :
            \E n \in Node : currentNodeInfoList'[i] = ListedNodeInfo(n)
      BY <3>1 DEF Present
    <3>7. \A n \in Node :
            /\ ListedNodeInfo(n).name = ""
            /\ ListedNodeInfo(n).node = [of |-> n, version |-> snapshot[n]]
      BY DEF ListedNodeInfo, Fetched
    <3>8. OneSnapshot'
      <4>. SUFFICES ASSUME phase' = "scheduling",
                           NEW i \in DOMAIN currentNodeInfoList'
                    PROVE  OfThisCycle(currentNodeInfoList[i])'
        BY DEF OneSnapshot
      <4>1. PICK n \in Node : currentNodeInfoList'[i] = ListedNodeInfo(n)
        BY <3>6
      <4>2. asOf' = snapshot
        BY <1>3 DEF List, CacheInv
      <4>3. /\ currentNodeInfoList'[i].name = ""
            /\ currentNodeInfoList'[i].node
                 = [of |-> n, version |-> asOf'[n]]
        BY <3>7, <4>1, <4>2
      <4>4. currentNodeInfoList'[i].name \notin Node
        BY <4>3, NoNameIsNoNode
      <4>5. currentNodeInfoList'[i].node.of = n
        BY <4>3, OfField
      <4>6. IsOf(currentNodeInfoList[i].node, currentNodeInfoList[i].node.of)'
        BY <4>3, <4>5 DEF IsOf
      <4>. QED
        BY <4>4, <4>5, <4>6 DEF OfThisCycle
    <3>9. OneEntryPerName'
      BY <3>6, <3>7 DEF OneEntryPerName
    <3>. QED
      BY <1>3, <2>2, <3>5, <3>8, <3>9 DEF List, CacheInv
  <2>. QED
    BY <1>3, <2>1, <2>2 DEF List
<1>4. ASSUME NEW i \in DOMAIN currentNodeInfoList, LazyNode(i) PROVE CacheInv'
  <2>. DEFINE list == currentNodeInfoList
              d == Fetched(list[i].name)
  <2>1. list \in Seq(NodeInfo)
    BY DEF CacheInv, CacheTypeOK
  <2>2. list[i] \in NodeInfo
    BY <1>4, <2>1
  <2>3. list[i].name \in Node \cup {""}
    BY <2>2 DEF NodeInfo
  <2>4. d \in Data
    BY <2>3, FetchedType DEF CacheInv
  <2>5. list' = [list EXCEPT ![i].node = d]
    BY <1>4 DEF LazyNode
  <2>5a. list[i].node = Unfetched
    BY <1>4 DEF LazyNode
  <2>. HIDE DEF list, d
  <2>6. /\ list' \in Seq(NodeInfo)
        /\ DOMAIN list' = DOMAIN list
        /\ \A j \in DOMAIN list : j # i => list'[j] = list[j]
        /\ \A j \in DOMAIN list : list'[j].name = list[j].name
        /\ list'[i].node = d /\ list'[i].imageStates = list[i].imageStates
    BY <1>4, <2>1, <2>4, <2>5, FetchNode DEF list
  <2>7. UNCHANGED <<snapshot, phase, asOf, isFullNodeInfoList>>
    BY <1>4 DEF LazyNode
  <2>8. CacheTypeOK'
    BY <1>0, <1>4, <2>6 DEF LazyNode, CacheInv, CacheTypeOK, list
  <2>9. OneSnapshot'
    <3>. SUFFICES ASSUME phase' = "scheduling", NEW j \in DOMAIN list'
                  PROVE  OfThisCycle(list[j])'
      BY DEF OneSnapshot, list
    <3>1. OfThisCycle(list[j]) /\ OfThisCycle(list[i]) /\ snapshot = asOf
      BY <1>4, <2>6, <2>7 DEF CacheInv, OneSnapshot, list
    <3>2. CASE j # i
      BY <2>6, <2>7, <3>1, <3>2 DEF OfThisCycle, IsOf
    <3>3. CASE j = i
      <4>1. list[i].name \in Node
        <5>1. list[i].name = "" => list[i].node.of \in Node
          BY <3>1 DEF OfThisCycle
        <5>2. list[i].node.of = ""
          BY <2>5a, OfField DEF Unfetched
        <5>. QED
          BY <2>3, <5>1, <5>2, NoNameIsNoNode
      <4>2. d = [of |-> list[i].name, version |-> asOf[list[i].name]]
        BY <3>1, <4>1 DEF d, Fetched
      <4>. QED
        BY <1>4, <2>6, <2>7, <3>1, <3>3, <4>1, <4>2, NodeAssumption
           DEF OfThisCycle, IsOf, list
    <3>. QED
      BY <3>2, <3>3
  <2>10. OneEntryPerName'
    BY <2>6 DEF CacheInv, OneEntryPerName, list
  <2>. QED
    BY <2>6, <2>7, <2>8, <2>9, <2>10 DEF CacheInv, list
<1>5. ASSUME NEW i \in DOMAIN currentNodeInfoList, ImageStates(i)
      PROVE  CacheInv'
  <2>. DEFINE list == currentNodeInfoList
              d == IF Fetched(list[i].name).version = 0 THEN Unfetched
                   ELSE Fetched(list[i].name)
  <2>1. list \in Seq(NodeInfo)
    BY DEF CacheInv, CacheTypeOK
  <2>2. list[i] \in NodeInfo
    BY <1>5, <2>1
  <2>3. list[i].name \in Node \cup {""}
    BY <2>2 DEF NodeInfo
  <2>4. d \in Data
    BY <2>3, FetchedType, UnfetchedType DEF CacheInv
  <2>5. list' = [list EXCEPT ![i].imageStates = d]
    BY <1>5 DEF ImageStates
  <2>. HIDE DEF list, d
  <2>6. /\ list' \in Seq(NodeInfo)
        /\ DOMAIN list' = DOMAIN list
        /\ \A j \in DOMAIN list : j # i => list'[j] = list[j]
        /\ \A j \in DOMAIN list : list'[j].name = list[j].name
        /\ list'[i].imageStates = d /\ list'[i].node = list[i].node
    BY <1>5, <2>1, <2>4, <2>5, FetchImages DEF list
  <2>7. UNCHANGED <<snapshot, phase, asOf, isFullNodeInfoList>>
    BY <1>5 DEF ImageStates
  <2>8. CacheTypeOK'
    BY <1>0, <1>5, <2>6 DEF ImageStates, CacheInv, CacheTypeOK, list
  <2>9. OneSnapshot'
    <3>. SUFFICES ASSUME phase' = "scheduling", NEW j \in DOMAIN list'
                  PROVE  OfThisCycle(list[j])'
      BY DEF OneSnapshot, list
    <3>1. OfThisCycle(list[j]) /\ OfThisCycle(list[i]) /\ snapshot = asOf
      BY <1>5, <2>6, <2>7 DEF CacheInv, OneSnapshot, list
    <3>2. CASE j # i
      BY <2>6, <2>7, <3>1, <3>2 DEF OfThisCycle, IsOf
    <3>3. CASE j = i
      <4>1. list[i].name \in Node => IsOf(d, list[i].name)
        BY <3>1 DEF d, Fetched, IsOf
      <4>. QED
        BY <1>5, <2>6, <2>7, <3>1, <3>3, <4>1 DEF OfThisCycle, IsOf, list
    <3>. QED
      BY <3>2, <3>3
  <2>10. OneEntryPerName'
    BY <2>6 DEF CacheInv, OneEntryPerName, list
  <2>. QED
    BY <2>6, <2>7, <2>8, <2>9, <2>10 DEF CacheInv, list
<1>6. CASE CycleEnds
  <2>1. CacheTypeOK'
    BY <1>0, <1>6 DEF CycleEnds, CacheInv, CacheTypeOK
  <2>. QED
    BY <1>6, <2>1, ListUntouched DEF CycleEnds
<1>7. CASE NextCycle
  <2>1. snapshot' \in [Node -> 0..MaxVersion]
    BY <1>7 DEF NextCycle, SnapshotChanges, CacheInv, CacheTypeOK
  <2>2. CacheTypeOK'
    BY <1>7, <2>1 DEF NextCycle, CacheInv, CacheTypeOK
  <2>. QED
    BY <1>7, <2>2, ListUntouched DEF NextCycle
<1>8. CASE UNCHANGED cacheVars
  BY <1>8, ListUntouched DEF cacheVars, CacheInv, CacheTypeOK
<1>. QED
  BY <1>1, <1>2, <1>3, <1>4, <1>5, <1>6, <1>7, <1>8 DEF CacheNext

LEMMA CacheInvariant == CacheSpec => []CacheInv
BY CacheInvInit, CacheInvNext, PTL DEF CacheSpec

(* The variables keep their types, for any nodes and versions.             *)
THEOREM CacheTypes == CacheSpec => []CacheTypeOK
<1>1. CacheInv => CacheTypeOK
  BY DEF CacheInv
<1>. QED
  BY <1>1, CacheInvariant, PTL

(* What a plugin reads of nodes in a scheduling cycle is of one snapshot.  *)
THEOREM ReadsOneSnapshot == CacheSpec => []OneSnapshot
<1>1. CacheInv => OneSnapshot
  BY DEF CacheInv
<1>. QED
  BY <1>1, CacheInvariant, PTL

(* No node has two entries of its name.                                    *)
THEOREM EntriesAreUnique == CacheSpec => []OneEntryPerName
<1>1. CacheInv => OneEntryPerName
  BY DEF CacheInv
<1>. QED
  BY <1>1, CacheInvariant, PTL
=============================================================================
