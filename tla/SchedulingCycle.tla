--------------------------- MODULE SchedulingCycle ---------------------------
(***************************************************************************)
(* kube-scheduler driving the plugin: one scheduling cycle at a time, made *)
(* by the scheduling goroutine and, for Filter, Score and the dry runs of  *)
(* preemption, by one worker goroutine per node; and one binding goroutine *)
(* per pod, which runs while other pods are scheduled.  The framework is   *)
(* external code, modelled as plugin.go and pool.go rely on it: other      *)
(* plugins may fail at any point or bind the pod themselves, a pod whose   *)
(* cycle failed is queued and tried again.                                 *)
(***************************************************************************)
EXTENDS WasmPlugin

CONSTANTS
  Node,        \* the nodes, each with its worker
  Scheduler,   \* the scheduling goroutine
  MaxAttempts  \* bounds the attempts to schedule a pod

ASSUME CallerIsThread == Caller = {Scheduler} \cup Node \cup Pod
ASSUME ThreadsDistinct ==
  Scheduler \notin Node \cup Pod /\ Node \cap Pod = {}
ASSUME MaxAttemptsAssumption == MaxAttempts \in Nat \ {0}

VARIABLES
  registered,  \* EventsToRegister was called
  stage,       \* where each pod is
  attempt,     \* how often each pod was tried
  todo         \* the calls each worker may still make in a parallel stage

cycleVars == <<registered, stage, attempt, todo>>
vars == <<pluginVars, cycleVars>>

(* "rejected": another plugin's PreFilter has returned                     *)
(* UnschedulableAndUnresolvable before the plugin's own was called, and    *)
(* the framework goes on to PostFilter.                                    *)
Sequential  == {"prefilter", "postfilter", "rejected", "prescore",
                "normalizescore", "reserve", "permit", "unreserve"}
Parallel    == {"filter", "preempt", "score"}
SchedStages == Sequential \cup Parallel
                 \cup {"permitted", "unreserved", "mismatched"}
BindCalls   == {"prebind", "bind", "postbind"}
BindStages  == BindCalls \cup {"waiting", "postbound", "rollback",
                               "rolledback"}
Stage       == {"queued", "bound"} \cup SchedStages \cup BindStages

Object(p) == [uid |-> p, attempt |-> attempt[p]]

(* The function of the plugin that is called in stage s.                   *)
CalledIn(s) == IF s = "rejected" THEN "postfilter" ELSE s

(* The calls a worker makes for its node in stage s, in their order.       *)
IfReached(op) == IF Runs(op) THEN <<op>> ELSE <<>>

WorkerCalls(s) ==
  CASE s = "filter"  -> IfReached("addpod") \o IfReached("filter")
    [] s = "preempt" -> IfReached("removepod") \o IfReached("addpod")
                          \o IfReached("filter")
    [] s = "score"   -> IfReached("score")
    [] OTHER         -> <<>>

Init ==
  /\ PluginInit
  /\ registered = FALSE
  /\ stage = [p \in Pod |-> "queued"]
  /\ attempt = [p \in Pod |-> 0]
  /\ todo = [n \in Node |-> <<>>]

(* The scheduling goroutine, or the binding goroutine of p, moves p on.    *)
Schedule(p, s) ==
  /\ stage' = [stage EXCEPT ![p] = s]
  /\ todo' = [n \in Node |-> WorkerCalls(s)]
  /\ UNCHANGED registered

Proceed(p, s) ==
  /\ stage' = [stage EXCEPT ![p] = s]
  /\ UNCHANGED <<registered, attempt, todo>>

-----------------------------------------------------------------------------
(* Start-up.                                                               *)
Register ==
  \/ /\ ~registered
     /\ EventsToRegister(Scheduler)
     /\ UNCHANGED cycleVars
  \/ /\ ~registered
     /\ EventsToRegisterReturns(Scheduler)
     /\ registered' = TRUE
     /\ UNCHANGED <<stage, attempt, todo>>
  \/ /\ ~registered
     /\ EventsToRegisterPanics(Scheduler)
     /\ UNCHANGED cycleVars
  \/ /\ ~registered /\ ~Runs("enqueue")
     /\ registered' = TRUE
     /\ UNCHANGED <<pluginVars, stage, attempt, todo>>

(* The scheduling goroutine takes the next pod.                            *)
StartCycle(p) ==
  /\ registered /\ ~panicked
  /\ \A q \in Pod : stage[q] \notin SchedStages
  /\ stage[p] = "queued" /\ attempt[p] < MaxAttempts
  /\ attempt' = [attempt EXCEPT ![p] = @ + 1]
  /\ Schedule(p, "prefilter")
  /\ UNCHANGED pluginVars

(* It calls the plugin at a sequential extension point.                    *)
SchedulerCalls(p) ==
  /\ \/ stage[p] = "prefilter"      /\ PreFilter(Scheduler, Object(p))
     \/ /\ stage[p] \in {"postfilter", "rejected"}
        /\ PostFilter(Scheduler, Object(p))
     \/ stage[p] = "prescore"       /\ PreScore(Scheduler, Object(p))
     \/ stage[p] = "normalizescore" /\ NormalizeScore(Scheduler, Object(p))
     \/ stage[p] = "reserve"        /\ Reserve(Scheduler, Object(p))
     \/ stage[p] = "permit"         /\ Permit(Scheduler, Object(p))
     \/ stage[p] = "unreserve"      /\ Unreserve(Scheduler, Object(p))
  /\ UNCHANGED cycleVars

(* Where the pod goes on success, and on a status that is not success.     *)
OnSuccess(s) ==
  CASE s = "prefilter"      -> "filter"
    [] s \in {"postfilter", "rejected"} -> "queued"
    [] s = "prescore"       -> "score"
    [] s = "normalizescore" -> "reserve"
    [] s = "reserve"        -> "permit"
    [] s = "permit"         -> "permitted"
    [] s = "unreserve"      -> "unreserved"

OnError(s) ==
  CASE s \in {"prefilter", "postfilter", "rejected", "prescore"} -> "queued"
    [] s = "normalizescore" -> "mismatched"
    [] s = "reserve"        -> "unreserve"
    [] s = "permit"         -> "permitted"
    [] s = "unreserve"      -> "unreserved"

(* An unschedulable PreFilter goes on to preemption; a status of the guest *)
(* fails NormalizeScore, a trap makes it panic.                            *)
AfterCall(s) ==
  {OnSuccess(s)}
    \cup CASE s = "prefilter" -> {"queued", "preempt"}
           [] s = "normalizescore" ->
                {"queued"} \cup IF "trap" \in Faults THEN {"mismatched"} ELSE {}
           [] OTHER -> {OnError(s)}

(* A guest of a closed runtime can only have returned an error.            *)
Answers(s) == IF runtimeClosed THEN {OnError(s)} ELSE AfterCall(s)

SchedulerReturns(p) ==
  /\ stage[p] \in Sequential
  /\ SchedulingCallReturns(Scheduler)
  /\ \E s \in Answers(stage[p]) : Schedule(p, s)
  /\ UNCHANGED attempt

SchedulerFails(p) ==
  /\ stage[p] \in Sequential
  /\ SchedulingCallFails(Scheduler, CalledIn(stage[p]), Object(p))
  /\ Schedule(p, OnError(stage[p]))
  /\ UNCHANGED attempt

(* The plugin has nothing to do at this point, or another plugin failed or *)
(* rejected the pod before it was called.                                  *)
SchedulerPasses(p) ==
  /\ ~panicked /\ stage[p] \in Sequential /\ running[Scheduler] = NoGuest
  /\ \/ /\ ~Runs(CalledIn(stage[p]))
        /\ Schedule(p, CASE stage[p] = "permit"    -> "waiting"
                         [] stage[p] = "unreserve" -> "queued"
                         [] OTHER                  -> OnSuccess(stage[p]))
     \/ /\ stage[p] \in {"prefilter", "prescore", "normalizescore"}
        /\ Schedule(p, "queued")
     \/ stage[p] = "prefilter" /\ Schedule(p, "rejected")
     \/ /\ stage[p] \in {"reserve", "permit"}
        /\ Schedule(p, "unreserve")
  /\ UNCHANGED <<pluginVars, attempt>>

(* The workers of a parallel stage; they may stop before all nodes are     *)
(* evaluated.                                                              *)
WorkerCallsPlugin(p, n) ==
  /\ stage[p] \in Parallel /\ todo[n] # <<>>
  /\ \/ Head(todo[n]) = "addpod"    /\ AddPod(n, Object(p))
     \/ Head(todo[n]) = "removepod" /\ RemovePod(n, Object(p))
     \/ Head(todo[n]) = "filter"    /\ Filter(n, Object(p))
     \/ Head(todo[n]) = "score"     /\ Score(n, Object(p))
  /\ UNCHANGED cycleVars

WorkerReturns(n) ==
  /\ todo[n] # <<>>
  /\ SchedulingCallReturns(n)
  /\ todo' = [todo EXCEPT ![n] = Tail(@)]
  /\ UNCHANGED <<registered, stage, attempt>>

WorkerFails(p, n) ==
  /\ stage[p] \in Parallel /\ todo[n] # <<>>
  /\ SchedulingCallFails(n, Head(todo[n]), Object(p))
  /\ todo' = [todo EXCEPT ![n] = Tail(@)]
  /\ UNCHANGED <<registered, stage, attempt>>

WorkersDone(p) ==
  /\ ~panicked /\ \A n \in Node : running[n] = NoGuest
  /\ \/ /\ stage[p] = "filter"
        /\ \E s \in {"prescore", "reserve", "preempt", "queued"} :
             Schedule(p, s)
     \/ /\ stage[p] = "preempt"
        /\ \E s \in {"postfilter", "queued"} : Schedule(p, s)
     \/ /\ stage[p] = "score"
        /\ \E s \in {"normalizescore", "queued"} : Schedule(p, s)
  /\ UNCHANGED <<pluginVars, attempt>>

(* The second critical section of Permit; then another plugin's Permit may *)
(* have rejected the pod as well.                                          *)
PermitEnds(p) ==
  /\ stage[p] = "permitted"
  /\ \/ /\ PermitAssociates(Scheduler, Object(p))
        /\ \E s \in {"waiting", "unreserve"} : Schedule(p, s)
     \/ /\ NoGuestForBinding(Scheduler, Object(p))
        /\ UNCHANGED <<registered, stage, todo>>
  /\ UNCHANGED attempt

UnreserveEnds(p) ==
  /\ stage[p] = "unreserved"
  /\ ReleaseGuest(Scheduler, Object(p))
  /\ Schedule(p, "queued")
  /\ UNCHANGED attempt

NormalizeScorePanics(p) ==
  /\ stage[p] = "mismatched"
  /\ SizeMismatch
  /\ UNCHANGED cycleVars

-----------------------------------------------------------------------------
(* The binding goroutine of p.  WaitOnPermit lets the pod go or rejects it *)
(* (another plugin's verdict, a timeout, a preemption).                    *)
PermitVerdict(p) ==
  /\ ~panicked /\ stage[p] = "waiting"
  /\ \E s \in {"prebind", "rollback"} : Proceed(p, s)
  /\ UNCHANGED pluginVars

BinderCalls(p) ==
  /\ \/ stage[p] = "prebind"  /\ PreBind(p, Object(p))
     \/ stage[p] = "bind"     /\ Bind(p, Object(p))
     \/ stage[p] = "postbind" /\ PostBind(p, Object(p))
     \/ stage[p] = "rollback" /\ Unreserve(p, Object(p))
  /\ UNCHANGED cycleVars

NextBind(s) == CASE s = "prebind"  -> "bind"
                 [] s = "bind"     -> "postbind"
                 [] s = "postbind" -> "postbound"

BinderReturns(p) ==
  \/ /\ stage[p] \in BindCalls
     /\ BindingReturns(p)
     /\ \E s \in {NextBind(stage[p])}
                   \cup (IF stage[p] = "postbind" THEN {} ELSE {"rollback"}) :
          Proceed(p, s)
  \/ /\ stage[p] = "rollback"
     /\ SchedulingCallReturns(p)
     /\ Proceed(p, "rolledback")

BinderFails(p) ==
  \/ /\ stage[p] \in BindCalls /\ Runs(stage[p])
     /\ NoGuestForBinding(p, Object(p))
     /\ UNCHANGED cycleVars
  \/ /\ stage[p] = "rollback"
     /\ SchedulingCallFails(p, "unreserve", Object(p))
     /\ Proceed(p, "rolledback")

(* The plugin has nothing to do, another plugin binds, or another fails.   *)
BinderPasses(p) ==
  /\ ~panicked /\ running[p] = NoGuest
  /\ \/ /\ stage[p] \in {"prebind", "bind"}
        /\ ~Runs(stage[p]) \/ stage[p] = "bind"
        /\ Proceed(p, NextBind(stage[p]))
     \/ /\ stage[p] \in {"prebind", "bind"}
        /\ Proceed(p, "rollback")
     \/ /\ stage[p] = "postbind" /\ ~Runs("postbind")
        /\ Proceed(p, "bound")
     \/ /\ stage[p] = "rollback" /\ ~Runs("unreserve")
        /\ Proceed(p, "queued")
  /\ UNCHANGED pluginVars

BinderEnds(p) ==
  /\ ReleaseGuest(p, Object(p))
  /\ \/ stage[p] = "postbound"  /\ Proceed(p, "bound")
     \/ stage[p] = "rolledback" /\ Proceed(p, "queued")

-----------------------------------------------------------------------------
SchedulerStep ==
  \/ Register
  \/ \E p \in Pod :
       \/ StartCycle(p) \/ SchedulerCalls(p) \/ SchedulerReturns(p)
       \/ SchedulerFails(p) \/ SchedulerPasses(p) \/ WorkersDone(p)
       \/ PermitEnds(p) \/ UnreserveEnds(p) \/ NormalizeScorePanics(p)

WorkerStep(n) ==
  \/ WorkerReturns(n)
  \/ \E p \in Pod : WorkerCallsPlugin(p, n) \/ WorkerFails(p, n)

BinderStep(p) ==
  \/ PermitVerdict(p) \/ BinderCalls(p) \/ BinderReturns(p)
  \/ BinderFails(p) \/ BinderPasses(p) \/ BinderEnds(p)

Next ==
  \/ SchedulerStep
  \/ \E n \in Node : WorkerStep(n)
  \/ \E p \in Pod : BinderStep(p)

Spec == Init /\ [][Next]_vars

(* Every call returns, a goroutine that wants mux gets it in the end       *)
(* (sync.RWMutex hands itself to a starving waiter), the scheduling        *)
(* goroutine goes on while there are pods to try.                          *)
Fairness ==
  /\ WF_vars(SchedulerStep)
  /\ \A n \in Node : WF_vars(WorkerReturns(n))
  /\ \A p \in Pod : SF_vars(BinderStep(p))

FairSpec == Spec /\ Fairness

-----------------------------------------------------------------------------
(* The types of this module's variables; the pool's are in TypeOK.         *)
CycleTypeOK ==
  /\ registered \in BOOLEAN
  /\ stage \in [Pod -> Stage]
  /\ attempt \in [Pod -> 0..MaxAttempts]
  /\ todo \in [Node -> Seq(AllOps)]
  /\ Len(memory) = instanceCounter
  /\ \A g \in Guest :
       /\ memory[g].cycle.uid \in Pod \cup {NoPod}
       /\ memory[g].pod.uid \in Pod \cup {NoPod}

(* No two goroutines execute the same guest.  A wasm module has one stack  *)
(* and one memory; the handlers of the binding cycle run it without        *)
(* guestPool.mux, while the scheduling cycle of other pods and their       *)
(* workers run guests under it.                                            *)
ExclusiveGuest ==
  \A c, d \in Caller :
    running[c] # NoGuest /\ running[c] = running[d] => c = d

(* The guest a handler runs for p: under the lock in the scheduling cycle  *)
(* of p, outside it in its binding cycle.  Two handlers are called without *)
(* a PreFilter of their own before them on the same guest: Unreserve, and  *)
(* PostFilter when another plugin's PreFilter rejected the pod first.      *)
Serves(g, p) ==
  /\ ~runtimeClosed
  /\ \/ /\ stage[p] \in SchedStages \ {"unreserve", "rejected"}
        /\ \E c \in {Scheduler} \cup Node : running[c] = g
     \/ stage[p] \in BindCalls /\ running[p] = g

(* Every handler but Unreserve, and but PostFilter in an attempt in which  *)
(* PreFilter was not called, runs on the guest whose cycle state was reset *)
(* by PreFilter for this very attempt of this pod, though guests are       *)
(* passed on between pods and a failed pod is tried again (cyclestate.go:  *)
(* "scoped to ... the beginning of the scheduling cycle until the end of   *)
(* the binding cycle").                                                    *)
CycleCoherent ==
  \A p \in Pod, g \in Guest : Serves(g, p) => memory[g].cycle = Object(p)

(* The pod a guest keeps between its calls (types.go currentPod) was read  *)
(* since PreFilter of this attempt, and is the pod and the attempt the     *)
(* guest runs for, or it was read by the Unreserve of another pod's        *)
(* binding cycle, which runs under doWithSchedulingGuest.  It is never one *)
(* that an earlier occupant or attempt, or anybody's Unreserve before this *)
(* cycle, has left.                                                        *)
PodCoherent ==
  \A p \in Pod, g \in Guest :
    Serves(g, p) /\ memory[g].pod # NoObject =>
      /\ memory[g].reader.cycle = Object(p)
      /\ \/ memory[g].pod = Object(p)
         \/ memory[g].reader.unreserve /\ memory[g].pod.uid # p

(* Unreserve finds the cycle state of the pod it is called for, as the     *)
(* cycle state test's Unreserve insists.                                   *)
UnreserveCoherent ==
  \A p \in Pod :
    /\ stage[p] = "unreserve" /\ running[Scheduler] # NoGuest
         => memory[running[Scheduler]].cycle = Object(p)
    /\ stage[p] = "rollback" /\ running[p] # NoGuest
         => memory[running[p]].cycle = Object(p)

(* A pod keeps a guest only while its binding cycle, or the Unreserve that *)
(* ends it, is under way: "freeFromBinding should be called when a binding *)
(* cycle ends for any reason" (pool.go:162).                               *)
NoLeak ==
  \A p \in Pod :
    binding[p] # NoGuest => stage[p] \in BindStages \cup {"unreserve", "unreserved"}

(* Once the plugin is registered getForBinding always finds a guest ("the  *)
(* binding cycle must happen after a scheduling one", pool.go:157): the    *)
(* only panic left is that of NormalizeScore.                              *)
NeverUnexpectedPod ==
  panicked /\ registered => \E p \in Pod : stage[p] = "mismatched"

(* The guest of a binding cycle is not replaced or given up before the     *)
(* cycle is over, whatever the scheduling cycles of other pods do          *)
(* meanwhile.                                                              *)
BindingGuestPinned ==
  [][\A p \in Pod : binding[p] # NoGuest /\ binding'[p] # binding[p]
       => stage'[p] \in {"queued", "bound"}]_vars

(* Every scheduling cycle and every binding cycle comes to an end: no      *)
(* goroutine waits for mux, or holds it, for ever.                         *)
CyclesEnd ==
  \A p \in Pod :
    stage[p] \in SchedStages \cup BindStages ~> stage[p] \in {"queued", "bound"}

(* A guest lent to a binding cycle comes back to the pool.                 *)
GuestsComeBack ==
  \A p \in Pod : binding[p] # NoGuest ~> binding[p] = NoGuest
=============================================================================
