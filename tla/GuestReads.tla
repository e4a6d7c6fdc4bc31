------------------------------ MODULE GuestReads ------------------------------
(***************************************************************************)
(* The guest's node cache filled through the two-call transfer of a value  *)
(* (types.go over imports/host.go over mem.go, with the functions of       *)
(* host.go that answer).  Each call reads the host's snapshot anew, and    *)
(* the snapshot of a guest in its binding cycle may change between them,   *)
(* so that the second answer may not fit the buffer the first one sized.   *)
(* NodeInfoCache, where a fetch is one step, is what this implements.      *)
(***************************************************************************)
EXTENDS NodeInfoCache, MemTransfer

VARIABLE request   \* the fetch that is between its two calls, or NoRequest

readsVars == <<cacheVars, memVars, request>>

NoRequest == [kind |-> "none", entry |-> 0]

ListRequest == [kind |-> "nodes", entry |-> 0]

FieldRequests ==
  [kind : {"node", "images"}, entry : DOMAIN currentNodeInfoList]

(* What the cache does not have yet.                                       *)
Missing(r) ==
  \/ r.kind = "nodes" /\ ~isFullNodeInfoList
  \/ r.kind = "node" /\ currentNodeInfoList[r.entry].node = Unfetched
  \/ r.kind = "images" /\ currentNodeInfoList[r.entry].imageStates = Unfetched

(* The value the host encodes for a request, from its present snapshot.    *)
HostAnswer(r) ==
  IF r.kind = "nodes" THEN <<"nodes", snapshot>>
  ELSE LET name == currentNodeInfoList[r.entry].name
       IN  <<r.kind, name, Fetched(name).version>>

(* The values of all requests: a node the snapshot does not have is of no  *)
(* bytes, its images are null, and a list has its own fields.  The pod is  *)
(* one that waits on permit.                                               *)
ASSUME AnswerAssumption ==
  /\ \A n \in Node \cup {""}, v \in 0..MaxVersion :
       /\ <<"node", n, v>> \in Value /\ <<"images", n, v>> \in Value
       /\ Size[<<"node", n, v>>] = 0 <=> v = 0
       /\ Size[<<"images", n, v>>] # 0
  /\ \A s \in [Node -> 0..MaxVersion] :
       <<"nodes", s>> \in Value /\ Size[<<"nodes", s>>] # 0
  /\ <<"pod">> \in Value

(* What the bytes decode to.  A message starts out empty, and an error     *)
(* leaves it so.                                                           *)
DecodedData(name, bytes) ==
  IF bytes = <<>> \/ Broken(bytes) THEN [of |-> name, version |-> 0]
  ELSE [of |-> bytes[Len(bytes)][2], version |-> bytes[Len(bytes)][3]]

DecodedNodes(bytes) ==
  IF Broken(bytes) THEN [n \in Node |-> 0] ELSE bytes[Len(bytes)][2]

(* Bug: the bytes are stored and not what they decode to.                  *)
StoreFieldBytes(r, bytes) ==
  /\ currentNodeInfoList' =
       [currentNodeInfoList EXCEPT ![r.entry].node = bytes]
  /\ UNCHANGED isFullNodeInfoList

(* lazyNode and ImageStates set the field of the entry...                  *)
StoreField(r, bytes) ==
  LET data == DecodedData(currentNodeInfoList[r.entry].name, bytes)
  IN  /\ currentNodeInfoList' =
           IF r.kind = "node"
             THEN [currentNodeInfoList EXCEPT ![r.entry].node = data]
             ELSE [currentNodeInfoList EXCEPT ![r.entry].imageStates =
                     IF data.version = 0 THEN Unfetched ELSE data]
      /\ UNCHANGED isFullNodeInfoList

(* ...and List all entries, unless there are none.                         *)
StoreNodes(bytes) ==
  LET listed == DecodedNodes(bytes)
      present == {n \in Node : listed[n] # 0}
  IN  \/ present = {} /\ UNCHANGED <<currentNodeInfoList, isFullNodeInfoList>>
      \/ /\ present # {}
         /\ isFullNodeInfoList' = TRUE
         /\ \E order \in [1..Cardinality(present) -> present] :
              /\ \A n \in present : \E i \in DOMAIN order : order[i] = n
              /\ currentNodeInfoList' =
                   [i \in DOMAIN order |->
                      [name |-> "",
                       node |-> [of |-> order[i], version |-> listed[order[i]]],
                       imageStates |-> Unfetched]]

Store(r, bytes) ==
  /\ \/ r.kind = "nodes" /\ StoreNodes(bytes)
     \/ r.kind # "nodes" /\ StoreField(r, bytes)
  /\ got' = NoGet
  /\ UNCHANGED <<snapshot, phase, asOf>>

ReadsInit == CacheInit /\ MemInit /\ request = NoRequest

(* The first call suffices...                                              *)
ReadAtOnce(r) ==
  /\ phase # "idle" /\ request = NoRequest
  /\ Missing(r)
  /\ Fits(HostAnswer(r))
  /\ Store(r, result')
  /\ UNCHANGED request

(* ...or it does not.  Image states come as a string, nodes as a message.  *)
ReadTooLarge(r) ==
  /\ phase # "idle" /\ request = NoRequest
  /\ Missing(r)
  /\ IF r.kind = "images" THEN GetStringAllocates(HostAnswer(r))
     ELSE UpdateGrows(HostAnswer(r))
  /\ request' = r
  /\ UNCHANGED cacheVars

SecondCall == UpdateAgain(HostAnswer(request)) \/ GetStringAgain(HostAnswer(request))

(* Bug: the decoder's error is ignored, as GetWaitingPod does.             *)
ReadAgainUnchecked ==
  /\ request # NoRequest
  /\ SecondCall
  /\ Store(request, result')
  /\ request' = NoRequest

ReadAgain ==
  /\ request # NoRequest
  /\ SecondCall
  /\ ~Broken(result')
  /\ Store(request, result')
  /\ request' = NoRequest

(* The decoder fails and the guest panics; the plugin's call returns an    *)
(* error and nothing is cached.                                            *)
ReadTraps ==
  /\ request # NoRequest
  /\ SecondCall
  /\ Broken(result')
  /\ request' = NoRequest
  /\ UNCHANGED cacheVars

(* The steps of the cache that need no host function.  The guest takes     *)
(* them between its fetches: it has one thread.                            *)
ReadsLocally ==
  /\ request = NoRequest
  /\ \/ Prefilter \/ CycleEnds
     \/ \E n \in Node : Get(n)
     \/ isFullNodeInfoList /\ List
  /\ UNCHANGED <<memVars, request>>

(* The handle's functions, in between.                                     *)
WaitingPods ==
  /\ phase # "idle" /\ request = NoRequest
  /\ \/ \E w \in Word : SendAndGetUint64(w) \/ GetWaitingPod(w)
     \/ GetWaitingPod(<<"pod">>)
  /\ UNCHANGED <<cacheVars, request>>

(* The host's other scheduling cycle goes on during the guest's fetches.   *)
SnapshotTaken == NextCycle /\ UNCHANGED <<memVars, request>>

ReadsNext ==
  \/ \E r \in FieldRequests \cup {ListRequest} : ReadAtOnce(r) \/ ReadTooLarge(r)
  \/ ReadAgain \/ ReadTraps
  \/ ReadsLocally \/ WaitingPods \/ SnapshotTaken

ReadsSpec == ReadsInit /\ [][ReadsNext]_readsVars

-----------------------------------------------------------------------------
(* In a scheduling cycle no fetch fails to decode, whatever the sizes: only *)
(* the binding cycle, whose snapshot changes meanwhile, can make a guest   *)
(* panic between the two calls of mem.go.                                  *)
FetchesSucceed ==
  [][phase = "scheduling" /\ request # NoRequest /\ request' = NoRequest
       => ~Broken(result')]_readsVars
=============================================================================
