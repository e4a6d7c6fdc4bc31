--------------------------- MODULE GuestReadsProofs ---------------------------
(***************************************************************************)
(* The guest's fetches, made of two calls each, implement the one-step     *)
(* fetches of NodeInfoCache, for all nodes, sizes and buffers.             *)
(***************************************************************************)
EXTENDS GuestReads, NodeInfoCacheProofs, MemTransferProofs

(* A call is made again for the fetch that is under way, whose entry stays *)
(* and whose value does, too, while the scheduling cycle lasts.            *)
RequestOK ==
  /\ request = NoRequest <=> pending = Idle
  /\ request # NoRequest =>
       /\ request \in FieldRequests \cup {ListRequest}
       /\ Missing(request)
       /\ phase # "idle"
       /\ phase = "scheduling" => asked = HostAnswer(request)

ReadsInv == CacheInv /\ MemInv /\ RequestOK

LEMMA RequestKinds ==
  /\ NoRequest.kind = "none"
  /\ \A r \in FieldRequests \cup {ListRequest} :
       /\ r # NoRequest
       /\ \/ r.kind = "nodes" /\ r = ListRequest
          \/ r.kind \in {"node", "images"} /\ r.entry \in DOMAIN currentNodeInfoList
<1>1. NoRequest.kind = "none" /\ ListRequest.kind = "nodes"
  BY DEF NoRequest, ListRequest
<1>2. ASSUME NEW r \in FieldRequests
      PROVE  r.kind \in {"node", "images"} /\ r.entry \in DOMAIN currentNodeInfoList
  BY DEF FieldRequests
<1>3. ASSUME NEW r \in FieldRequests PROVE r # NoRequest
  <2>1. r.kind # "none"
    BY <1>2
  <2>. QED
    BY <1>1, <2>1
<1>4. ListRequest # NoRequest
  BY <1>1
<1>. SUFFICES \A r \in FieldRequests \cup {ListRequest} :
       /\ r # NoRequest
       /\ \/ r.kind = "nodes" /\ r = ListRequest
          \/ r.kind \in {"node", "images"} /\ r.entry \in DOMAIN currentNodeInfoList
  BY <1>1
<1>5. TAKE r \in FieldRequests \cup {ListRequest}
<1>6. CASE r \in FieldRequests
  BY <1>2, <1>3, <1>6
<1>7. CASE r = ListRequest
  BY <1>1, <1>4, <1>7
<1>. QED
  BY <1>6, <1>7

LEMMA NamesOfEntries ==
  ASSUME CacheTypeOK, NEW i \in DOMAIN currentNodeInfoList
  PROVE  currentNodeInfoList[i].name \in Node \cup {""}
<1>1. currentNodeInfoList[i] \in NodeInfo
  <2>1. currentNodeInfoList \in Seq(NodeInfo)
    BY DEF CacheTypeOK
  <2>. QED
    BY <2>1
<1>. QED
  BY <1>1 DEF NodeInfo

LEMMA FetchedFields ==
  ASSUME CacheTypeOK, NEW n \in Node \cup {""}
  PROVE  /\ Fetched(n).version \in 0..MaxVersion
         /\ Fetched(n) = [of |-> n, version |-> Fetched(n).version]
<1>1. Fetched(n) \in Data
  BY FetchedType
<1>2. Fetched(n).version \in 0..MaxVersion
  BY <1>1 DEF Data
<1>3. Fetched(n) = [of |-> n, version |-> Fetched(n).version]
  BY DEF Fetched
<1>. QED
  BY <1>2, <1>3

LEMMA NodeAnswers ==
  ASSUME NEW n \in Node \cup {""}, NEW v \in 0..MaxVersion
  PROVE  /\ <<"node", n, v>> \in Value /\ <<"images", n, v>> \in Value
         /\ Size[<<"node", n, v>>] = 0 <=> v = 0
         /\ Size[<<"images", n, v>>] # 0
BY AnswerAssumption

LEMMA ListAnswers ==
  ASSUME NEW s \in [Node -> 0..MaxVersion]
  PROVE  <<"nodes", s>> \in Value /\ Size[<<"nodes", s>>] # 0
BY AnswerAssumption

LEMMA HostAnswers ==
  ASSUME CacheTypeOK, NEW r \in FieldRequests \cup {ListRequest}
  PROVE  HostAnswer(r) \in Value
<1>1. CASE r.kind = "nodes"
  <2>1. snapshot \in [Node -> 0..MaxVersion]
    BY DEF CacheTypeOK
  <2>. QED
    BY <1>1, <2>1, ListAnswers DEF HostAnswer
<1>2. CASE r.kind \in {"node", "images"} /\ r.entry \in DOMAIN currentNodeInfoList
  <2>. DEFINE name == currentNodeInfoList[r.entry].name
  <2>1. name \in Node \cup {""} /\ Fetched(name).version \in 0..MaxVersion
    BY <1>2, NamesOfEntries, FetchedFields
  <2>. DEFINE version == Fetched(name).version
  <2>2. HostAnswer(r) = <<r.kind, name, version>>
    BY <1>2 DEF HostAnswer
  <2>. HIDE DEF name, version
  <2>3. <<"node", name, version>> \in Value /\ <<"images", name, version>> \in Value
    BY <2>1, NodeAnswers DEF version
  <2>. QED
    BY <1>2, <2>2, <2>3
<1>. QED
  BY <1>1, <1>2, RequestKinds

(* The bytes of one value decode to it.                                    *)
LEMMA DecodeBytes ==
  ASSUME NEW v \in Value, NEW b, b = Bytes(v, Size[v])
  PROVE  /\ ~Broken(b)
         /\ Size[v] = 0 => b = <<>>
         /\ Size[v] # 0 => b # <<>> /\ b[Len(b)] = v
<1>1. Size[v] \in Nat /\ v # Zero
  BY SizeAssumption, ValueAssumption
<1>2. b = [i \in 1..Size[v] |-> v]
  BY DEF Bytes
<1>3. ~Broken(b)
  BY <1>1, <1>2 DEF Broken
<1>4. ASSUME Size[v] # 0 PROVE b # <<>> /\ b[Len(b)] = v
  <2>1. Len(b) = Size[v] /\ Len(b) \in 1..Size[v]
    BY <1>1, <1>2, <1>4
  <2>2. b[Len(b)] = v
    BY <1>2, <2>1
  <2>3. b # <<>>
    BY <1>4, <2>1
  <2>. QED
    BY <2>2, <2>3
<1>5. ASSUME Size[v] = 0 PROVE b = <<>>
  BY <1>2, <1>5
<1>. QED
  BY <1>3, <1>4, <1>5

LEMMA DecodedField ==
  ASSUME CacheTypeOK, NEW name \in Node \cup {""}, NEW kind \in {"node", "images"},
         NEW v, v = <<kind, name, Fetched(name).version>>,
         NEW b, b = Bytes(v, Size[v])
  PROVE  DecodedData(name, b) = Fetched(name)
<1>. DEFINE n == Fetched(name).version
<1>1. n \in 0..MaxVersion /\ Fetched(name) = [of |-> name, version |-> n]
  BY FetchedFields
<1>. HIDE DEF n
<1>2. v = <<kind, name, n>> /\ v[2] = name /\ v[3] = n
  BY DEF n
<1>3. v \in Value /\ (Size[v] = 0 => n = 0)
  <2>1. /\ <<"node", name, n>> \in Value /\ <<"images", name, n>> \in Value
        /\ Size[<<"node", name, n>>] = 0 => n = 0
        /\ Size[<<"images", name, n>>] # 0
    BY <1>1, NodeAnswers
  <2>. QED
    BY <1>2, <2>1
<1>4. CASE Size[v] = 0
  BY <1>1, <1>3, <1>4, DecodeBytes DEF DecodedData
<1>5. CASE Size[v] # 0
  BY <1>1, <1>2, <1>3, <1>5, DecodeBytes DEF DecodedData
<1>. QED
  BY <1>4, <1>5

(* What one whole answer puts in the cache is what one step of the cache   *)
(* fetches.                                                                *)
LEMMA StoreIsFetch ==
  ASSUME CacheTypeOK, phase # "idle",
         NEW r \in FieldRequests \cup {ListRequest}, Missing(r),
         NEW b, b = Bytes(HostAnswer(r), Size[HostAnswer(r)]),
         Store(r, b)
  PROVE  CacheNext
<1>1. CASE r.kind = "nodes"
  <2>1. snapshot \in [Node -> 0..MaxVersion]
    BY DEF CacheTypeOK
  <2>. DEFINE v == <<"nodes", snapshot>>
  <2>2. v \in Value /\ Size[v] # 0 /\ v[2] = snapshot
    BY <2>1, ListAnswers
  <2>3. b = Bytes(v, Size[v])
    BY <1>1 DEF HostAnswer
  <2>. HIDE DEF v
  <2>4. DecodedNodes(b) = snapshot
    BY <2>2, <2>3, DecodeBytes DEF DecodedNodes
  <2>5. StoreNodes(b) /\ ~isFullNodeInfoList
    BY <1>1, RequestKinds DEF Store, Missing
  <2>6. \A n \in Node :
          ListedNodeInfo(n) = [name |-> "",
                               node |-> [of |-> n, version |-> snapshot[n]],
                               imageStates |-> Unfetched]
    BY DEF ListedNodeInfo, Fetched
  <2>7. CASE Present = {} /\ UNCHANGED <<currentNodeInfoList, isFullNodeInfoList>>
    BY <2>7 DEF Store, List, CacheNext
  <2>8. CASE Present # {} /\ isFullNodeInfoList' = TRUE
    <3>0. {n \in Node : DecodedNodes(b)[n] # 0} = Present
      BY <2>4 DEF Present
    <3>1. PICK order \in [1..Cardinality(Present) -> Present] :
            /\ \A n \in Present : \E i \in DOMAIN order : order[i] = n
            /\ currentNodeInfoList' =
                 [i \in DOMAIN order |->
                    [name |-> "",
                     node |-> [of |-> order[i], version |-> snapshot[order[i]]],
                     imageStates |-> Unfetched]]
      BY <2>4, <2>5, <2>8, <3>0 DEF StoreNodes
    <3>2. \A i \in DOMAIN order : order[i] \in Node
      BY DEF Present
    <3>3. currentNodeInfoList' = [i \in DOMAIN order |-> ListedNodeInfo(order[i])]
      BY <2>6, <3>1, <3>2
    <3>4. List
      BY <2>5, <2>8, <3>1, <3>3 DEF Store, List
    <3>. QED
      BY <3>4 DEF CacheNext
  <2>. QED
    BY <2>4, <2>5, <2>7, <2>8 DEF StoreNodes, Present
<1>2. CASE r.kind \in {"node", "images"} /\ r.entry \in DOMAIN currentNodeInfoList
  <2>. DEFINE i == r.entry
              name == currentNodeInfoList[i].name
  <2>1. i \in DOMAIN currentNodeInfoList /\ name \in Node \cup {""}
    BY <1>2, NamesOfEntries
  <2>2. HostAnswer(r) = <<r.kind, name, Fetched(name).version>>
    BY <1>2 DEF HostAnswer
  <2>3. DecodedData(name, b) = Fetched(name)
    BY <1>2, <2>1, <2>2, DecodedField
  <2>4. StoreField(r, b)
    BY <1>2 DEF Store
  <2>5. CASE r.kind = "node"
    <3>1. /\ currentNodeInfoList[i].node = Unfetched
          /\ currentNodeInfoList' =
               [currentNodeInfoList EXCEPT ![i].node = Fetched(name)]
      BY <2>3, <2>4, <2>5 DEF StoreField, Missing
    <3>2. LazyNode(i)
      BY <2>4, <3>1 DEF Store, StoreField, LazyNode
    <3>. QED
      BY <2>1, <3>2 DEF CacheNext
  <2>6. CASE r.kind = "images"
    <3>1. currentNodeInfoList[i].imageStates = Unfetched
      BY <2>6 DEF Missing
    <3>2. currentNodeInfoList' =
            [currentNodeInfoList EXCEPT ![i].imageStates =
               IF Fetched(name).version = 0 THEN Unfetched ELSE Fetched(name)]
      BY <2>3, <2>4, <2>6 DEF StoreField
    <3>3. ImageStates(i)
      BY <2>4, <3>1, <3>2 DEF Store, StoreField, ImageStates
    <3>. QED
      BY <2>1, <3>3 DEF CacheNext
  <2>. QED
    BY <1>2, <2>5, <2>6
<1>. QED
  BY <1>1, <1>2, RequestKinds

(* A step of the guest is one of the transfer, and one of the cache or     *)
(* none: the first of two calls, and a call whose answer is broken, leave  *)
(* the cache as it is.                                                     *)
LEMMA ReadsStep ==
  ASSUME ReadsInv, ReadsNext, MemInv'
  PROVE  [CacheNext]_cacheVars
<1>. USE DEF ReadsInv, CacheInv, RequestOK
<1>1. ASSUME NEW r \in FieldRequests \cup {ListRequest}, ReadAtOnce(r)
      PROVE  CacheNext
  <2>1. HostAnswer(r) \in Value /\ HostAnswer(r) # Zero
    BY HostAnswers, ValueAssumption
  <2>2. pending' = Idle /\ asked' = HostAnswer(r) /\ answered' = HostAnswer(r)
    BY <1>1 DEF ReadAtOnce, Fits
  <2>3. result' = Bytes(HostAnswer(r), Size[HostAnswer(r)])
    BY <2>1, <2>2 DEF MemInv, ExactValue
  <2>. QED
    BY <1>1, <2>3, StoreIsFetch DEF ReadAtOnce
<1>2. ASSUME NEW r \in FieldRequests \cup {ListRequest}, ReadTooLarge(r)
      PROVE  UNCHANGED cacheVars
  BY <1>2 DEF ReadTooLarge
<1>3. CASE ReadAgain
  <2>. DEFINE v == HostAnswer(request)
  <2>1. request \in FieldRequests \cup {ListRequest} /\ Missing(request)
        /\ phase # "idle"
    BY <1>3 DEF ReadAgain
  <2>2. v \in Value
    BY <2>1, HostAnswers
  <2>3. asked \in Value /\ asked # Zero
    BY <1>3, ValueAssumption DEF ReadAgain, MemInv
  <2>4. pending' = Idle /\ asked' = asked /\ answered' = v
    BY <1>3 DEF ReadAgain, SecondCall, UpdateAgain, GetStringAgain
  <2>5. ~Broken(result)'
    BY <1>3 DEF ReadAgain, Broken
  <2>6. result' = Bytes(v, Size[v])
    BY <2>3, <2>4, <2>5 DEF MemInv, ExactValue
  <2>. QED
    BY <1>3, <2>1, <2>6, StoreIsFetch DEF ReadAgain
<1>4. CASE ReadTraps
  BY <1>4 DEF ReadTraps
<1>5. CASE ReadsLocally
  BY <1>5 DEF ReadsLocally, CacheNext
<1>6. CASE WaitingPods
  BY <1>6 DEF WaitingPods
<1>7. CASE SnapshotTaken
  BY <1>7 DEF SnapshotTaken, CacheNext
<1>. QED
  BY <1>1, <1>2, <1>3, <1>4, <1>5, <1>6, <1>7 DEF ReadsNext

LEMMA ReadsTransfer ==
  ASSUME ReadsInv, ReadsNext
  PROVE  [MemNext]_memVars
<1>. USE DEF ReadsInv, CacheInv, RequestOK
<1>1. ASSUME NEW r \in FieldRequests \cup {ListRequest},
             ReadAtOnce(r) \/ ReadTooLarge(r)
      PROVE  MemNext
  <2>1. HostAnswer(r) \in Value
    BY HostAnswers
  <2>. QED
    BY <1>1, <2>1 DEF ReadAtOnce, ReadTooLarge, MemNext
<1>2. CASE ReadAgain \/ ReadTraps
  <2>1. request \in FieldRequests \cup {ListRequest}
    BY <1>2 DEF ReadAgain, ReadTraps
  <2>2. HostAnswer(request) \in Value
    BY <2>1, HostAnswers
  <2>. QED
    BY <1>2, <2>2 DEF ReadAgain, ReadTraps, SecondCall, MemNext
<1>3. CASE ReadsLocally
  BY <1>3 DEF ReadsLocally
<1>4. CASE WaitingPods
  <2>1. <<"pod">> \in Value
    BY AnswerAssumption
  <2>2. \A w \in Word : w \in Value
    BY WordAssumption
  <2>. QED
    BY <1>4, <2>1, <2>2 DEF WaitingPods, MemNext
<1>5. CASE SnapshotTaken
  BY <1>5 DEF SnapshotTaken
<1>. QED
  BY <1>1, <1>2, <1>3, <1>4, <1>5 DEF ReadsNext

LEMMA RequestOKInit == ReadsInit => RequestOK
BY DEF ReadsInit, MemInit, RequestOK

LEMMA RequestOKNext == ReadsInv /\ [ReadsNext]_readsVars => RequestOK'
<1>. SUFFICES ASSUME ReadsInv, [ReadsNext]_readsVars PROVE RequestOK'
  OBVIOUS
<1>. USE DEF ReadsInv, RequestOK
<1>1. ASSUME NEW r \in FieldRequests \cup {ListRequest}, ReadAtOnce(r)
      PROVE  RequestOK'
  BY <1>1 DEF ReadAtOnce, Fits
<1>2. ASSUME NEW r \in FieldRequests \cup {ListRequest}, ReadTooLarge(r)
      PROVE  RequestOK'
  <2>1. r # NoRequest
    BY RequestKinds
  <2>2. request' = r /\ pending' # Idle /\ phase' # "idle"
        /\ UNCHANGED <<currentNodeInfoList, isFullNodeInfoList>>
    BY <1>2 DEF ReadTooLarge, UpdateGrows, GetStringAllocates, cacheVars, Idle
  <2>3. (r \in FieldRequests \cup {ListRequest} /\ Missing(r))'
    BY <1>2, <2>2 DEF ReadTooLarge, FieldRequests, Missing
  <2>4. asked' = HostAnswer(r) /\ UNCHANGED snapshot
    BY <1>2 DEF ReadTooLarge, UpdateGrows, GetStringAllocates, cacheVars
  <2>5. asked' = HostAnswer(r)'
    BY <2>2, <2>4 DEF HostAnswer, Fetched
  <2>. QED
    BY <2>1, <2>2, <2>3, <2>5
<1>3. CASE ReadAgain \/ ReadTraps
  BY <1>3 DEF ReadAgain, ReadTraps, SecondCall, UpdateAgain, GetStringAgain
<1>4. CASE ReadsLocally \/ WaitingPods
  BY <1>4 DEF ReadsLocally, WaitingPods, SendAndGetUint64, GetWaitingPod, memVars
<1>5. CASE SnapshotTaken
  <2>1. UNCHANGED <<request, pending, phase, currentNodeInfoList, isFullNodeInfoList>>
    BY <1>5 DEF SnapshotTaken, NextCycle, memVars
  <2>2. phase # "scheduling"
    BY <1>5 DEF SnapshotTaken, NextCycle
  <2>. QED
    BY <2>1, <2>2 DEF FieldRequests, Missing
<1>6. CASE UNCHANGED readsVars
  <2>1. UNCHANGED <<request, pending, phase, currentNodeInfoList, isFullNodeInfoList>>
    BY <1>6 DEF readsVars, memVars, cacheVars
  <2>2. UNCHANGED <<asked, snapshot>>
    BY <1>6 DEF readsVars, memVars, cacheVars
  <2>3. UNCHANGED HostAnswer(request)
    BY <2>1, <2>2 DEF HostAnswer, Fetched
  <2>. QED
    BY <2>1, <2>2, <2>3 DEF FieldRequests, Missing
<1>. QED
  BY <1>1, <1>2, <1>3, <1>4, <1>5, <1>6 DEF ReadsNext

LEMMA ReadsSteps ==
  ASSUME ReadsInv, [ReadsNext]_readsVars
  PROVE  ReadsInv' /\ [CacheNext]_cacheVars /\ [MemNext]_memVars
<1>1. [MemNext]_memVars
  BY ReadsTransfer DEF readsVars, memVars
<1>2. MemInv'
  BY <1>1, MemInvNext DEF ReadsInv
<1>3. [CacheNext]_cacheVars
  BY <1>2, ReadsStep DEF readsVars, cacheVars
<1>4. CacheInv'
  BY <1>3, CacheInvNext DEF ReadsInv
<1>5. RequestOK'
  BY RequestOKNext
<1>. QED
  BY <1>1, <1>2, <1>3, <1>4, <1>5 DEF ReadsInv

LEMMA ReadsInvInit == ReadsInit => ReadsInv
BY CacheInvInit, MemInvInit, RequestOKInit DEF ReadsInit, ReadsInv

(* However the snapshot changes between the two calls of a fetch, and      *)
(* whatever the sizes, every fetch is one step that reads the present      *)
(* version of a node or list as a whole, or does nothing: the guest's      *)
(* cache behaves as NodeInfoCache.                                         *)
THEOREM ReadsImplementCache == ReadsSpec => CacheSpec
<1>1. ReadsInit => CacheInit
  BY DEF ReadsInit
<1>2. ReadsInv /\ [ReadsNext]_readsVars => ReadsInv' /\ [CacheNext]_cacheVars
  BY ReadsSteps
<1>. QED
  BY <1>1, <1>2, ReadsInvInit, PTL DEF ReadsSpec, CacheSpec

(* The fetches and the waiting pods' functions use the shared buffer as    *)
(* MemTransfer allows, so its theorems hold of them.                       *)
THEOREM ReadsUseTransfers == ReadsSpec => MemSpec
<1>1. ReadsInit => MemInit
  BY DEF ReadsInit
<1>2. ReadsInv /\ [ReadsNext]_readsVars => ReadsInv' /\ [MemNext]_memVars
  BY ReadsSteps
<1>. QED
  BY <1>1, <1>2, ReadsInvInit, PTL DEF ReadsSpec, MemSpec

(* While the snapshot stays, the second call gets what the first one asked *)
(* for, and it decodes.                                                    *)
THEOREM SchedulingReadsSucceed == ReadsSpec => FetchesSucceed
<1>. DEFINE Succeeds == phase = "scheduling" /\ request # NoRequest
                          /\ request' = NoRequest => ~Broken(result')
<1>1. ASSUME ReadsInv, [ReadsNext]_readsVars PROVE [Succeeds]_readsVars
  <2>. SUFFICES ASSUME ReadsNext, phase = "scheduling", request # NoRequest,
                       request' = NoRequest
                PROVE  ~Broken(result')
    BY <1>1
  <2>. DEFINE v == HostAnswer(request)
  <2>1. /\ request \in FieldRequests \cup {ListRequest}
        /\ asked = v
    BY <1>1 DEF ReadsInv, RequestOK
  <2>2. v \in Value /\ v # Zero
    BY <1>1, <2>1, HostAnswers, ValueAssumption DEF ReadsInv, CacheInv
  <2>3. ReadAgain \/ ReadTraps
    BY DEF ReadsNext, ReadAtOnce, ReadTooLarge, ReadsLocally, WaitingPods,
           SnapshotTaken
  <2>4. pending' = Idle /\ asked' = asked /\ answered' = v
    BY <2>3 DEF ReadAgain, ReadTraps, SecondCall, UpdateAgain, GetStringAgain
  <2>5. MemInv'
    BY <1>1, ReadsSteps DEF ReadsInv
  <2>6. result' = Bytes(v, Size[v])
    BY <2>1, <2>2, <2>4, <2>5 DEF MemInv, ExactValue
  <2>. QED
    BY <2>2, <2>6, DecodeBytes
<1>2. ReadsInv /\ [ReadsNext]_readsVars => ReadsInv'
  BY ReadsSteps
<1>. QED
  BY <1>1, <1>2, ReadsInvInit, PTL DEF ReadsSpec, FetchesSucceed
=============================================================================
