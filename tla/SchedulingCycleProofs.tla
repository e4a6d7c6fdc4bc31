------------------------ MODULE SchedulingCycleProofs ------------------------
(***************************************************************************)
(* Proofs about kube-scheduler driving the plugin, for any pods, nodes and *)
(* exports of the guest and any faults.                                    *)
(***************************************************************************)
EXTENDS SchedulingCycle, GuestPoolProofs

(* A step of the system is a step of the pool, or a panic outside it, or   *)
(* leaves the pool alone.                                                  *)
Panic ==
  /\ panicked' = TRUE
  /\ UNCHANGED <<mux, scheduledPodUID, scheduled, binding, free, taken,
                 running, instanceCounter, runtimeClosed>>

LEMMA ThreadsAreCallers ==
  /\ Scheduler \in Caller
  /\ \A n \in Node : n \in Caller /\ n # Scheduler
  /\ \A p \in Pod : p \in Caller /\ p # Scheduler /\ p \notin Node
  /\ \A c \in Caller : c = Scheduler \/ c \in Node \/ c \in Pod
BY CallerIsThread, ThreadsDistinct

LEMMA ObjectUID == \A p \in Pod : Object(p).uid = p
BY DEF Object

(* The actions of WasmPlugin are those of the pool.                        *)
LEMMA HandlersUsePool ==
  ASSUME NEW c \in Caller, NEW p \in Pod
  PROVE  /\ PreFilter(c, Object(p)) \/ AddPod(c, Object(p))
              \/ RemovePod(c, Object(p)) \/ Filter(c, Object(p))
              \/ PostFilter(c, Object(p)) \/ PreScore(c, Object(p))
              \/ Score(c, Object(p)) \/ NormalizeScore(c, Object(p))
              \/ Reserve(c, Object(p)) \/ Unreserve(c, Object(p))
              \/ Permit(c, Object(p))
              => DoWithSchedulingGuest(c, p)
         /\ PreBind(c, Object(p)) \/ Bind(c, Object(p))
              \/ PostBind(c, Object(p))
              => RunForBinding(c, p)
         /\ PermitAssociates(c, Object(p)) => AssociateForBinding(c, p)
         /\ ReleaseGuest(c, Object(p)) => FreeFromBinding(c, p)
         /\ NoGuestForBinding(c, Object(p)) => GetForBindingPanics(c, p)
         /\ \A op : SchedulingCallFails(c, op, Object(p))
                      => DoWithSchedulingGuestFails(c, p)
BY ObjectUID
   DEF PreFilter, AddPod, RemovePod, Filter, PostFilter, PreScore, Score,
       NormalizeScore, Reserve, Unreserve, Permit, PreBind, Bind, PostBind,
       SchedulingCall, BindingCall, PermitAssociates, ReleaseGuest,
       NoGuestForBinding, SchedulingCallFails

LEMMA StepsUsePool ==
  ASSUME [Next]_vars
  PROVE  [PoolNext]_poolVars \/ Panic
<1>. USE DEF PoolNext
<1>1. CASE UNCHANGED vars
  BY <1>1 DEF vars, pluginVars
<1>2. CASE Register
  <2>1. DoWithGuest(Scheduler) \/ DoWithGuestReturns(Scheduler) \/ Panic
          \/ UNCHANGED poolVars
    BY <1>2 DEF Register, EventsToRegister, EventsToRegisterReturns,
                EventsToRegisterPanics, Panic, pluginVars
  <2>. QED
    BY <2>1, ThreadsAreCallers DEF PoolStep
<1>3. ASSUME NEW p \in Pod,
             \/ StartCycle(p) \/ SchedulerCalls(p) \/ SchedulerReturns(p)
             \/ SchedulerFails(p) \/ SchedulerPasses(p) \/ WorkersDone(p)
             \/ PermitEnds(p) \/ UnreserveEnds(p) \/ NormalizeScorePanics(p)
      PROVE  [PoolNext]_poolVars \/ Panic
  <2>1. CASE StartCycle(p) \/ SchedulerPasses(p) \/ WorkersDone(p)
    BY <2>1 DEF StartCycle, SchedulerPasses, WorkersDone, pluginVars
  <2>2. CASE SchedulerCalls(p)
    <3>1. DoWithSchedulingGuest(Scheduler, p)
      BY <2>2, ThreadsAreCallers, HandlersUsePool DEF SchedulerCalls
    <3>. QED
      BY <3>1, ThreadsAreCallers DEF PoolStep
  <2>3. CASE SchedulerReturns(p)
    BY <2>3, ThreadsAreCallers
       DEF SchedulerReturns, SchedulingCallReturns, PoolStep
  <2>4. CASE SchedulerFails(p)
    <3>1. DoWithSchedulingGuestFails(Scheduler, p)
      BY <2>4, ThreadsAreCallers, HandlersUsePool DEF SchedulerFails
    <3>. QED
      BY <3>1, ThreadsAreCallers DEF PoolStep
  <2>5. CASE PermitEnds(p)
    <3>1. AssociateForBinding(Scheduler, p) \/ GetForBindingPanics(Scheduler, p)
      BY <2>5, ThreadsAreCallers, HandlersUsePool DEF PermitEnds
    <3>. QED
      BY <3>1, ThreadsAreCallers DEF PoolStep
  <2>6. CASE UnreserveEnds(p)
    <3>1. FreeFromBinding(Scheduler, p)
      BY <2>6, ThreadsAreCallers, HandlersUsePool DEF UnreserveEnds
    <3>. QED
      BY <3>1, ThreadsAreCallers DEF PoolStep
  <2>7. CASE NormalizeScorePanics(p)
    BY <2>7 DEF NormalizeScorePanics, SizeMismatch, Panic
  <2>. QED
    BY <1>3, <2>1, <2>2, <2>3, <2>4, <2>5, <2>6, <2>7
<1>4. ASSUME NEW n \in Node, WorkerStep(n)
      PROVE  [PoolNext]_poolVars \/ Panic
  <2>1. n \in Caller
    BY ThreadsAreCallers
  <2>2. CASE WorkerReturns(n)
    BY <2>1, <2>2 DEF WorkerReturns, SchedulingCallReturns, PoolStep
  <2>3. ASSUME NEW p \in Pod, WorkerCallsPlugin(p, n) \/ WorkerFails(p, n)
        PROVE  DoWithSchedulingGuest(n, p) \/ DoWithSchedulingGuestFails(n, p)
    BY <2>1, <2>3, HandlersUsePool DEF WorkerCallsPlugin, WorkerFails
  <2>. QED
    BY <1>4, <2>1, <2>2, <2>3 DEF WorkerStep, PoolStep
<1>5. ASSUME NEW p \in Pod, BinderStep(p)
      PROVE  [PoolNext]_poolVars \/ Panic
  <2>1. p \in Caller
    BY ThreadsAreCallers
  <2>2. CASE PermitVerdict(p) \/ BinderPasses(p)
    BY <2>2 DEF PermitVerdict, BinderPasses, pluginVars
  <2>3. CASE BinderCalls(p)
    <3>1. RunForBinding(p, p) \/ DoWithSchedulingGuest(p, p)
      BY <2>1, <2>3, HandlersUsePool DEF BinderCalls
    <3>. QED
      BY <2>1, <3>1 DEF PoolStep
  <2>4. CASE BinderReturns(p)
    BY <2>1, <2>4
       DEF BinderReturns, BindingReturns, SchedulingCallReturns, PoolStep
  <2>5. CASE BinderFails(p)
    <3>1. GetForBindingPanics(p, p) \/ DoWithSchedulingGuestFails(p, p)
      BY <2>1, <2>5, HandlersUsePool DEF BinderFails
    <3>. QED
      BY <2>1, <3>1 DEF PoolStep
  <2>6. CASE BinderEnds(p)
    <3>1. FreeFromBinding(p, p)
      BY <2>1, <2>6, HandlersUsePool DEF BinderEnds
    <3>. QED
      BY <2>1, <3>1 DEF PoolStep
  <2>. QED
    BY <1>5, <2>2, <2>3, <2>4, <2>5, <2>6 DEF BinderStep
<1>. QED
  BY <1>1, <1>2, <1>3, <1>4, <1>5 DEF Next, SchedulerStep

-----------------------------------------------------------------------------
(* Whatever the stages of a pod in which its own goroutine runs a guest.   *)
Executing == BindCalls \cup {"rollback"}

(* Who executes what: the scheduling goroutine and its workers only under  *)
(* mux, the goroutine of a pod under mux in the rollback, else outside it  *)
(* and on the guest bound to its pod.                                      *)
Threads ==
  /\ \A c \in {Scheduler} \cup Node : running[c] # NoGuest => mux = c
  /\ \A p \in Pod : running[p] # NoGuest =>
       \/ mux = p /\ stage[p] = "rollback"
       \/ mux # p /\ stage[p] \in BindCalls /\ running[p] = binding[p]

CycleInv == PoolInv /\ stage \in [Pod -> Stage] /\ Threads

(* The three ways a critical section treats mux and the caller's guest.    *)
Section(c) ==
  \/ UNCHANGED <<mux, running>>
  \/ /\ mux = NoCaller /\ mux' = c
     /\ \E g \in Guest' : running' = [running EXCEPT ![c] = g]
  \/ /\ mux = c /\ mux' = NoCaller
     /\ running' = [running EXCEPT ![c] = NoGuest]

(* A pod whose goroutine may be running a guest keeps its place.           *)
Undisturbed(p) ==
  stage[p] \in Executing => UNCHANGED <<stage[p], binding[p]>>

LEMMA Sections ==
  ASSUME PoolInv, PoolInv', NEW c \in Caller
  PROVE  /\ DoWithGuest(c) \/ DoWithGuestReturns(c)
              \/ DoWithSchedulingGuestReturns(c) \/ Panic
              => Section(c) /\ UNCHANGED binding
         /\ \A p \in Pod :
              /\ DoWithSchedulingGuest(c, p) \/ DoWithSchedulingGuestFails(c, p)
                   \/ GetForBindingPanics(c, p)
                   => Section(c) /\ UNCHANGED binding
              /\ AssociateForBinding(c, p) \/ FreeFromBinding(c, p)
                   => /\ Section(c)
                      /\ \A q \in Pod \ {p} : UNCHANGED binding[q]
<1>1. mux' = c => running'[c] \in Guest'
  BY CallerAssumption DEF PoolInv, TypeOK, LockHolderRuns, NoGuest
<1>2. running \in [Caller -> Guest \cup {NoGuest}] /\ c # NoCaller
  BY CallerAssumption DEF PoolInv, TypeOK
<1>3. ASSUME NEW g, mux = NoCaller, RunLocked(c, g)
      PROVE  Section(c)
  BY <1>1, <1>2, <1>3 DEF RunLocked, Section
<1>4. DoWithGuest(c) => Section(c) /\ UNCHANGED binding
  BY <1>3 DEF DoWithGuest, Lock
<1>5. DoWithGuestReturns(c) \/ DoWithSchedulingGuestReturns(c)
        => Section(c) /\ UNCHANGED binding
  BY DEF DoWithGuestReturns, DoWithSchedulingGuestReturns, Section
<1>6. ASSUME NEW p \in Pod, DoWithSchedulingGuest(c, p)
      PROVE  Section(c) /\ UNCHANGED binding
  BY <1>3, <1>6 DEF DoWithSchedulingGuest, Lock
<1>7. ASSUME NEW p \in Pod,
             \/ DoWithSchedulingGuestFails(c, p) \/ GetForBindingPanics(c, p)
             \/ Panic
      PROVE  Section(c) /\ UNCHANGED binding
  BY <1>7
     DEF DoWithSchedulingGuestFails, GetForBindingPanics, Panic, Section
<1>8. ASSUME NEW p \in Pod, AssociateForBinding(c, p) \/ FreeFromBinding(c, p)
      PROVE  Section(c) /\ \A q \in Pod \ {p} : UNCHANGED binding[q]
  <2>1. \A x : \A q \in Pod \ {p} : [binding EXCEPT ![p] = x][q] = binding[q]
    BY DEF PoolInv, TypeOK
  <2>2. UNCHANGED <<mux, running>>
    BY <1>8 DEF AssociateForBinding, GetForBinding, FreeFromBinding
  <2>3. \/ UNCHANGED binding
        \/ \E x : binding' = [binding EXCEPT ![p] = x]
    BY <1>8 DEF AssociateForBinding, GetForBinding, FreeFromBinding
  <2>. QED
    BY <2>1, <2>2, <2>3 DEF Section
<1>9. Panic => Section(c) /\ UNCHANGED binding
  BY DEF Panic, Section
<1>. QED
  BY <1>4, <1>5, <1>6, <1>7, <1>8, <1>9

(* A critical section of the scheduling goroutine or a worker.             *)
LEMMA SchedulingThreads ==
  ASSUME CycleInv, NEW c \in {Scheduler} \cup Node, Section(c),
         \A p \in Pod : Undisturbed(p)
  PROVE  Threads'
<1>1. /\ c \in Caller /\ c \notin Pod /\ c # NoCaller
      /\ \A d \in {Scheduler} \cup Node \cup Pod : d \in Caller
      /\ running \in [Caller -> Guest \cup {NoGuest}]
      /\ NoCaller \notin Caller
  BY CallerIsThread, ThreadsDistinct, CallerAssumption
     DEF CycleInv, PoolInv, TypeOK
<1>2. \A d \in Caller \ {c} : running'[d] = running[d]
  BY <1>1 DEF Section
<1>3. \A p \in Pod : mux' = p <=> mux = p
  BY <1>1 DEF Section
<1>4. \A d \in {Scheduler} \cup Node : running'[d] # NoGuest => mux' = d
  BY <1>1, <1>2 DEF Section, CycleInv, Threads
<1>5. \A p \in Pod : running'[p] # NoGuest =>
        \/ mux' = p /\ stage'[p] = "rollback"
        \/ mux' # p /\ stage'[p] \in BindCalls /\ running'[p] = binding'[p]
  BY <1>1, <1>2, <1>3 DEF CycleInv, Threads, Undisturbed, Executing
<1>. QED
  BY <1>4, <1>5 DEF Threads

(* A call or the end of one by the goroutine of a pod: in the rollback     *)
(* under mux, else on the pod's guest.                                     *)
LEMMA BinderThread ==
  ASSUME CycleInv, NEW p \in Pod,
         \A q \in Pod \ {p} : UNCHANGED <<stage[q], binding[q]>>,
         \/ /\ Section(p)
            /\ mux' = p => stage'[p] = "rollback"
            /\ mux' # p => running'[p] = NoGuest
         \/ /\ UNCHANGED mux /\ mux # p
            /\ \E g : running' = [running EXCEPT ![p] = g]
            /\ running'[p] # NoGuest =>
                 stage'[p] \in BindCalls /\ running'[p] = binding'[p]
  PROVE  Threads'
<1>1. /\ p \in Caller /\ p # Scheduler /\ p \notin Node /\ p # NoCaller
      /\ \A d \in {Scheduler} \cup Node \cup Pod : d \in Caller
      /\ running \in [Caller -> Guest \cup {NoGuest}]
      /\ NoCaller \notin Caller
  BY CallerIsThread, ThreadsDistinct, CallerAssumption
     DEF CycleInv, PoolInv, TypeOK
<1>2. \A d \in Caller \ {p} : running'[d] = running[d]
  BY <1>1 DEF Section
<1>3. \A d \in Caller \ {p} : mux' = d <=> mux = d
  BY <1>1 DEF Section
<1>4. \A d \in {Scheduler} \cup Node : running'[d] # NoGuest => mux' = d
  BY <1>1, <1>2, <1>3 DEF CycleInv, Threads
<1>5. \A q \in Pod \ {p} : running'[q] # NoGuest =>
        \/ mux' = q /\ stage'[q] = "rollback"
        \/ mux' # q /\ stage'[q] \in BindCalls /\ running'[q] = binding'[q]
  BY <1>1, <1>2, <1>3 DEF CycleInv, Threads
<1>6. running'[p] # NoGuest =>
        \/ mux' = p /\ stage'[p] = "rollback"
        \/ mux' # p /\ stage'[p] \in BindCalls /\ running'[p] = binding'[p]
  BY <1>1
<1>. QED
  BY <1>4, <1>5, <1>6 DEF Threads

-----------------------------------------------------------------------------
LEMMA StageMoves ==
  ASSUME CycleInv, NEW p \in Pod, NEW s, Schedule(p, s) \/ Proceed(p, s)
  PROVE  stage'[p] = s /\ \A q \in Pod \ {p} : stage'[q] = stage[q]
BY DEF CycleInv, Schedule, Proceed

LEMMA SchedulerKeepsThreads ==
  ASSUME CycleInv, PoolInv', SchedulerStep
  PROVE  Threads'
<1>. USE ThreadsAreCallers
<1>1. CASE Register
  <2>1. /\ DoWithGuest(Scheduler) \/ DoWithGuestReturns(Scheduler) \/ Panic
             \/ UNCHANGED poolVars
        /\ UNCHANGED stage
    BY <1>1 DEF Register, EventsToRegister, EventsToRegisterReturns,
                EventsToRegisterPanics, Panic, cycleVars, pluginVars
  <2>2. Section(Scheduler) /\ UNCHANGED binding
    BY <2>1, Sections DEF CycleInv, Section, poolVars
  <2>. QED
    BY <2>1, <2>2, SchedulingThreads DEF Undisturbed
<1>2. ASSUME NEW p \in Pod,
             \/ StartCycle(p) \/ SchedulerCalls(p) \/ SchedulerReturns(p)
             \/ SchedulerFails(p) \/ SchedulerPasses(p) \/ WorkersDone(p)
             \/ PermitEnds(p) \/ UnreserveEnds(p) \/ NormalizeScorePanics(p)
      PROVE  Threads'
  <2>1. CASE StartCycle(p) \/ SchedulerPasses(p) \/ WorkersDone(p)
    <3>1. /\ UNCHANGED poolVars /\ stage[p] \notin Executing
          /\ \E s : Schedule(p, s)
      BY <2>1 DEF StartCycle, SchedulerPasses, WorkersDone, pluginVars,
                  Executing, BindCalls, Sequential
    <3>2. Section(Scheduler) /\ UNCHANGED binding
      BY <3>1 DEF Section, poolVars
    <3>. QED
      BY <3>1, <3>2, StageMoves, SchedulingThreads DEF Undisturbed
  <2>2. CASE SchedulerCalls(p)
    <3>1. DoWithSchedulingGuest(Scheduler, p) /\ UNCHANGED stage
      BY <2>2, HandlersUsePool DEF SchedulerCalls, cycleVars
    <3>2. Section(Scheduler) /\ UNCHANGED binding
      BY <3>1, Sections DEF CycleInv
    <3>. QED
      BY <3>1, <3>2, SchedulingThreads DEF Undisturbed
  <2>3. CASE SchedulerReturns(p) \/ SchedulerFails(p)
    <3>1. /\ \/ DoWithSchedulingGuestReturns(Scheduler)
             \/ DoWithSchedulingGuestFails(Scheduler, p)
          /\ \E s : Schedule(p, s)
          /\ stage[p] \notin Executing
      BY <2>3, HandlersUsePool
         DEF SchedulerReturns, SchedulerFails, SchedulingCallReturns,
             Executing, BindCalls, Sequential
    <3>2. Section(Scheduler) /\ UNCHANGED binding
      BY <3>1, Sections DEF CycleInv
    <3>. QED
      BY <3>1, <3>2, StageMoves, SchedulingThreads DEF Undisturbed
  <2>4. CASE PermitEnds(p) \/ UnreserveEnds(p)
    <3>1. stage[p] \notin Executing
      BY <2>4 DEF PermitEnds, UnreserveEnds, Executing, BindCalls
    <3>2. \/ /\ \/ AssociateForBinding(Scheduler, p)
                \/ FreeFromBinding(Scheduler, p)
             /\ \E s : Schedule(p, s)
          \/ GetForBindingPanics(Scheduler, p) /\ UNCHANGED stage
      BY <2>4, HandlersUsePool DEF PermitEnds, UnreserveEnds
    <3>3. /\ Section(Scheduler)
          /\ \A q \in Pod \ {p} : UNCHANGED <<stage[q], binding[q]>>
      BY <3>2, Sections, StageMoves DEF CycleInv
    <3>. QED
      BY <3>1, <3>3, SchedulingThreads DEF Undisturbed
  <2>5. CASE NormalizeScorePanics(p)
    <3>1. Panic /\ UNCHANGED stage
      BY <2>5 DEF NormalizeScorePanics, SizeMismatch, Panic, cycleVars
    <3>2. Section(Scheduler) /\ UNCHANGED binding
      BY <3>1, Sections DEF CycleInv
    <3>. QED
      BY <3>1, <3>2, SchedulingThreads DEF Undisturbed
  <2>. QED
    BY <1>2, <2>1, <2>2, <2>3, <2>4, <2>5
<1>. QED
  BY <1>1, <1>2 DEF SchedulerStep

LEMMA WorkersKeepThreads ==
  ASSUME CycleInv, PoolInv', NEW n \in Node, WorkerStep(n)
  PROVE  Threads'
<1>1. /\ UNCHANGED stage
      /\ \/ DoWithSchedulingGuestReturns(n)
         \/ \E p \in Pod : DoWithSchedulingGuest(n, p)
                             \/ DoWithSchedulingGuestFails(n, p)
  BY ThreadsAreCallers, HandlersUsePool
     DEF WorkerStep, WorkerReturns, WorkerCallsPlugin, WorkerFails,
         SchedulingCallReturns, cycleVars
<1>2. Section(n) /\ UNCHANGED binding
  BY <1>1, ThreadsAreCallers, Sections DEF CycleInv
<1>. QED
  BY <1>1, <1>2, SchedulingThreads DEF Undisturbed

LEMMA BindersKeepThreads ==
  ASSUME CycleInv, PoolInv', NEW p \in Pod, BinderStep(p)
  PROVE  Threads'
<1>0. /\ p \in Caller /\ p # NoCaller
      /\ running \in [Caller -> Guest \cup {NoGuest}]
      /\ binding \in [Pod -> Guest \cup {NoGuest}]
  BY ThreadsAreCallers, CallerAssumption DEF CycleInv, PoolInv, TypeOK
<1>1. CASE PermitVerdict(p) \/ BinderPasses(p)
  <2>1. UNCHANGED poolVars /\ \E s : Proceed(p, s)
    BY <1>1 DEF PermitVerdict, BinderPasses, pluginVars
  <2>2. running[p] = NoGuest
    BY <1>1 DEF PermitVerdict, BinderPasses, CycleInv, Threads, BindCalls
  <2>3. mux # p
    BY <2>2, <1>0 DEF CycleInv, PoolInv, LockHolderRuns
  <2>. QED
    BY <2>1, <2>2, <2>3, StageMoves, BinderThread DEF Section, poolVars
<1>2. CASE BinderCalls(p)
  <2>1. UNCHANGED stage
    BY <1>2 DEF BinderCalls, cycleVars
  <2>2. CASE stage[p] = "rollback"
    <3>1. DoWithSchedulingGuest(p, p)
      BY <1>0, <1>2, <2>2, HandlersUsePool DEF BinderCalls
    <3>2. Section(p) /\ UNCHANGED binding /\ mux' = p
      BY <1>0, <3>1, Sections DEF CycleInv, DoWithSchedulingGuest, RunLocked
    <3>. QED
      BY <2>1, <2>2, <3>2, BinderThread
  <2>3. CASE stage[p] # "rollback"
    <3>1. RunForBinding(p, p) /\ stage[p] \in BindCalls
      BY <1>0, <1>2, <2>3, HandlersUsePool DEF BinderCalls, BindCalls
    <3>2. /\ mux = NoCaller /\ UNCHANGED mux
          /\ running' = [running EXCEPT ![p] = binding'[p]]
          /\ \A q \in Pod \ {p} : UNCHANGED binding[q]
      BY <1>0, <3>1 DEF RunForBinding, GetForBinding, Lock
    <3>3. running'[p] = binding'[p]
      BY <1>0, <3>2
    <3>. QED
      BY <1>0, <2>1, <3>1, <3>2, <3>3, BinderThread
  <2>. QED
    BY <2>2, <2>3
<1>3. CASE BinderReturns(p)
  <2>1. \E s : Proceed(p, s)
    BY <1>3 DEF BinderReturns
  <2>2. CASE BindingCallReturns(p)
    <3>1. /\ UNCHANGED <<mux, binding>> /\ mux # p
          /\ running' = [running EXCEPT ![p] = NoGuest]
      BY <2>2 DEF BindingCallReturns
    <3>2. running'[p] = NoGuest
      BY <1>0, <3>1
    <3>. QED
      BY <2>1, <3>1, <3>2, StageMoves, BinderThread
  <2>3. CASE DoWithSchedulingGuestReturns(p)
    <3>1. Section(p) /\ UNCHANGED binding
      BY <1>0, <2>3, Sections DEF CycleInv
    <3>2. mux' # p /\ running'[p] = NoGuest
      BY <1>0, <2>3 DEF DoWithSchedulingGuestReturns
    <3>. QED
      BY <2>1, <3>1, <3>2, StageMoves, BinderThread
  <2>. QED
    BY <1>3, <2>2, <2>3 DEF BinderReturns, BindingReturns, SchedulingCallReturns
<1>4. CASE BinderFails(p)
  <2>1. /\ GetForBindingPanics(p, p) \/ DoWithSchedulingGuestFails(p, p)
        /\ UNCHANGED stage \/ \E s : Proceed(p, s)
    BY <1>0, <1>4, HandlersUsePool DEF BinderFails, cycleVars
  <2>2. Section(p) /\ UNCHANGED binding
    BY <1>0, <2>1, Sections DEF CycleInv
  <2>3. mux' # p /\ running'[p] = NoGuest
    BY <1>0, <2>1 DEF GetForBindingPanics, DoWithSchedulingGuestFails, Lock
  <2>. QED
    BY <2>1, <2>2, <2>3, StageMoves, BinderThread
<1>5. CASE BinderEnds(p)
  <2>1. FreeFromBinding(p, p) /\ \E s : Proceed(p, s)
    BY <1>0, <1>5, HandlersUsePool DEF BinderEnds
  <2>2. Section(p) /\ \A q \in Pod \ {p} : UNCHANGED binding[q]
    BY <1>0, <2>1, Sections DEF CycleInv
  <2>3. mux' # p /\ running'[p] = NoGuest
    BY <1>0, <2>1 DEF FreeFromBinding, Lock
  <2>. QED
    BY <2>1, <2>2, <2>3, StageMoves, BinderThread
<1>. QED
  BY <1>1, <1>2, <1>3, <1>4, <1>5 DEF BinderStep

LEMMA StagesAreStages ==
  ASSUME stage \in [Pod -> Stage], [Next]_vars
  PROVE  stage' \in [Pod -> Stage]
<1>. USE DEF Stage, SchedStages, Sequential, Parallel, BindStages, BindCalls
<1>1. ASSUME NEW p \in Pod, NEW s \in Stage, Schedule(p, s) \/ Proceed(p, s)
      PROVE  stage' \in [Pod -> Stage]
  BY <1>1 DEF Schedule, Proceed
<1>2. CASE UNCHANGED stage
  BY <1>2
<1>3. CASE Register
  BY <1>2, <1>3 DEF Register, cycleVars
<1>4. ASSUME NEW p \in Pod,
             \/ StartCycle(p) \/ SchedulerFails(p) \/ SchedulerPasses(p)
             \/ WorkersDone(p) \/ PermitEnds(p) \/ UnreserveEnds(p)
      PROVE  UNCHANGED stage \/ \E s \in Stage : Schedule(p, s)
  <2>. USE DEF OnSuccess, OnError
  <2>1. CASE StartCycle(p) \/ WorkersDone(p)
    BY <2>1 DEF StartCycle, WorkersDone
  <2>2. CASE PermitEnds(p) \/ UnreserveEnds(p)
    BY <2>2 DEF PermitEnds, UnreserveEnds
  <2>3. CASE SchedulerFails(p)
    <3>1. OnError(stage[p]) \in Stage
      BY <2>3 DEF SchedulerFails
    <3>. QED
      BY <2>3, <3>1 DEF SchedulerFails
  <2>4. CASE SchedulerPasses(p)
    <3>1. stage[p] \in Sequential => OnSuccess(stage[p]) \in Stage
      OBVIOUS
    <3>. QED
      BY <2>4, <3>1 DEF SchedulerPasses
  <2>. QED
    BY <1>4, <2>1, <2>2, <2>3, <2>4
<1>5. ASSUME NEW p \in Pod, SchedulerReturns(p)
      PROVE  \E s \in Stage : Schedule(p, s)
  <2>1. AfterCall(stage[p]) \subseteq Stage
    BY <1>5 DEF SchedulerReturns, AfterCall, OnSuccess, OnError
  <2>2. OnError(stage[p]) \in Stage
    BY <1>5 DEF SchedulerReturns, OnError
  <2>. QED
    BY <1>5, <2>1, <2>2 DEF SchedulerReturns, Answers
<1>6. ASSUME NEW p \in Pod, SchedulerCalls(p) \/ NormalizeScorePanics(p)
      PROVE  UNCHANGED stage
  BY <1>6 DEF SchedulerCalls, NormalizeScorePanics, cycleVars
<1>7. ASSUME NEW n \in Node, WorkerStep(n)
      PROVE  UNCHANGED stage
  BY <1>7 DEF WorkerStep, WorkerCallsPlugin, WorkerReturns, WorkerFails, cycleVars
<1>8. ASSUME NEW p \in Pod, BinderStep(p)
      PROVE  UNCHANGED stage \/ \E s \in Stage : Proceed(p, s)
  <2>1. stage[p] \in BindCalls => NextBind(stage[p]) \in Stage
    BY DEF NextBind
  <2>2. CASE PermitVerdict(p) \/ BinderCalls(p) \/ BinderFails(p) \/ BinderEnds(p)
    BY <2>2 DEF PermitVerdict, BinderCalls, BinderFails, BinderEnds, cycleVars
  <2>3. CASE BinderReturns(p)
    BY <2>1, <2>3 DEF BinderReturns
  <2>4. CASE BinderPasses(p)
    BY <2>1, <2>4 DEF BinderPasses
  <2>. QED
    BY <1>8, <2>2, <2>3, <2>4 DEF BinderStep
<1>9. CASE UNCHANGED vars
  BY <1>9 DEF vars, cycleVars
<1>. HIDE DEF Stage
<1>. QED
  BY <1>1, <1>2, <1>3, <1>4, <1>5, <1>6, <1>7, <1>8, <1>9
     DEF Next, SchedulerStep

LEMMA CycleInitInv == Init => CycleInv
<1>. SUFFICES ASSUME Init PROVE CycleInv
  OBVIOUS
<1>1. PoolInv
  BY PoolInitInv DEF Init, PluginInit
<1>2. stage \in [Pod -> Stage]
  BY DEF Init, Stage
<1>3. Threads
  BY ThreadsAreCallers DEF Init, PluginInit, PoolInit, Threads
<1>. QED
  BY <1>1, <1>2, <1>3 DEF CycleInv

LEMMA CycleNextInv == CycleInv /\ [Next]_vars => CycleInv'
<1>. SUFFICES ASSUME CycleInv, [Next]_vars PROVE CycleInv'
  OBVIOUS
<1>1. PoolInv'
  BY StepsUsePool, PoolNextInv, PanicInv DEF CycleInv, Panic
<1>2. stage' \in [Pod -> Stage]
  BY StagesAreStages DEF CycleInv
<1>3. Threads'
  <2>1. CASE UNCHANGED vars
    BY <2>1 DEF CycleInv, Threads, vars, pluginVars, poolVars, cycleVars
  <2>. QED
    BY <1>1, <2>1, SchedulerKeepsThreads, WorkersKeepThreads,
       BindersKeepThreads DEF Next
<1>. QED
  BY <1>1, <1>2, <1>3 DEF CycleInv

LEMMA CycleInvariant == Spec => []CycleInv
<1>. QED
  BY CycleInitInv, CycleNextInv, PTL DEF Spec

-----------------------------------------------------------------------------
(* Whatever the guest exports and whatever fails, two goroutines of        *)
(* kube-scheduler never execute one guest at the same time, although the   *)
(* binding handlers run theirs without guestPool.mux.                      *)
THEOREM GuestsRunOnOneThread == Spec => []ExclusiveGuest
<1>1. CycleInv => ExclusiveGuest
  <2>. SUFFICES ASSUME CycleInv, NEW c \in Caller, NEW d \in Caller,
                       running[c] # NoGuest, running[c] = running[d], c # d
                PROVE  FALSE
    BY DEF ExclusiveGuest
  <2>1. ASSUME NEW a \in Caller, NEW b \in Caller, a # b, mux = a,
               running[a] # NoGuest, running[a] = running[b]
        PROVE  FALSE
    <3>1. b \in Pod /\ binding[b] = running[b]
      BY <2>1, ThreadsAreCallers DEF CycleInv, Threads
    <3>2. running[a] = taken \/ running[a] = scheduled
      BY <2>1, CallerAssumption DEF CycleInv, PoolInv, LockHolderRuns
    <3>. QED
      BY <2>1, <3>1, <3>2 DEF CycleInv, PoolInv, OnePlace, IsBound
  <2>2. CASE mux # c /\ mux # d
    <3>1. /\ c \in Pod /\ binding[c] = running[c]
          /\ d \in Pod /\ binding[d] = running[d]
      BY <2>2, ThreadsAreCallers DEF CycleInv, Threads
    <3>. QED
      BY <3>1 DEF CycleInv, PoolInv, OnePlace
  <2>. QED
    BY <2>1, <2>2
<1>. QED
  BY <1>1, CycleInvariant, PTL

(* Under kube-scheduler too every guest is in one place and none is lost.  *)
THEOREM CyclesKeepGuests == Spec => [](OnePlace /\ NoneLost)
<1>1. CycleInv => OnePlace /\ NoneLost
  BY DEF CycleInv, PoolInv
<1>. QED
  BY <1>1, CycleInvariant, PTL

(* Each step of a cycle moves guests as the abstract pool does.            *)
LEMMA CycleStepOwnership ==
  ASSUME CycleInv, CycleInv', [Next]_vars
  PROVE  [Ownership!Next]_owner
<1>1. PoolInv /\ PoolInv'
  BY DEF CycleInv
<1>2. CASE [PoolNext]_poolVars
  BY <1>1, <1>2, StepOwnership
<1>3. CASE Panic
  BY <1>1, <1>3, NobodyMoves DEF Panic
<1>. QED
  BY <1>2, <1>3, StepsUsePool

(* kube-scheduler's calls of the plugin move guests as GuestOwnership says, *)
(* whatever the guest exports, and whatever fails or panics.               *)
THEOREM CyclesImplementOwnership == Spec => OwnershipSpec
<1>1. Init => Ownership!Init
  BY OwnershipInit DEF Init, PluginInit
<1>. QED
  BY <1>1, CycleStepOwnership, CycleInvariant, PTL
     DEF Spec, OwnershipSpec, Ownership!Spec

(* Nor do they ever make the plugin hold more than one guest more than     *)
(* there are pods.                                                         *)
THEOREM CyclesBoundThePool == Spec => []PoolBound
<1>1. Init => PoolBound
  <2>1. Cardinality(Pod) \in Nat
    BY PodFinite, FS_CardinalityType
  <2>. QED
    BY <2>1 DEF Init, PluginInit, PoolInit, PoolBound
<1>2. CycleInv /\ PoolBound /\ [Next]_vars => PoolBound'
  <2>. SUFFICES ASSUME CycleInv, PoolBound, [Next]_vars PROVE PoolBound'
    OBVIOUS
  <2>1. /\ PoolInv /\ instanceCounter \in Nat /\ Cardinality(Pod) \in Nat
    BY PodFinite, FS_CardinalityType DEF CycleInv, PoolInv, TypeOK
  <2>2. \/ instanceCounter' = instanceCounter
        \/ /\ instanceCounter' = instanceCounter + 1
           /\ instanceCounter <= Cardinality(Pod)
    BY <2>1, StepsUsePool, GrowsWhenAllBound, AllBound DEF Panic
  <2>. QED
    BY <2>1, <2>2 DEF PoolBound
<1>. QED
  BY <1>1, <1>2, CycleInvariant, PTL DEF Spec

(* Only the end of Unreserve and of PostBind take a guest from its pod.    *)
LEMMA OnlyFreedAtTheEnd ==
  ASSUME CycleInv, Next, NEW p \in Pod, binding[p] # NoGuest,
         ~UnreserveEnds(p), ~BinderEnds(p)
  PROVE  binding'[p] = binding[p]
<1>1. /\ binding \in [Pod -> Guest \cup {NoGuest}]
      /\ Scheduler \in Caller
      /\ \A n \in Node : n \in Caller
      /\ \A q \in Pod : q \in Caller
  BY ThreadsAreCallers DEF CycleInv, PoolInv, TypeOK
<1>2. ASSUME NEW c \in Caller, NEW q \in Pod,
             \/ RunForBinding(c, q) \/ AssociateForBinding(c, q)
             \/ q # p /\ FreeFromBinding(c, q)
      PROVE  binding'[p] = binding[p]
  BY <1>1, <1>2
     DEF RunForBinding, AssociateForBinding, GetForBinding, FreeFromBinding
<1>3. ASSUME NEW c \in Caller, NEW q \in Pod,
             \/ DoWithGuest(c) \/ DoWithGuestReturns(c)
             \/ DoWithSchedulingGuest(c, q) \/ DoWithSchedulingGuestFails(c, q)
             \/ DoWithSchedulingGuestReturns(c) \/ BindingCallReturns(c)
             \/ GetForBindingPanics(c, q) \/ Panic \/ UNCHANGED poolVars
      PROVE  binding'[p] = binding[p]
  BY <1>3
     DEF DoWithGuest, DoWithGuestReturns, DoWithSchedulingGuest,
         DoWithSchedulingGuestFails, DoWithSchedulingGuestReturns,
         BindingCallReturns, GetForBindingPanics, Panic, poolVars
<1>4. CASE Register
  BY <1>1, <1>3, <1>4
     DEF Register, EventsToRegister, EventsToRegisterReturns,
         EventsToRegisterPanics, Panic, pluginVars
<1>5. ASSUME NEW q \in Pod,
             \/ StartCycle(q) \/ SchedulerPasses(q) \/ WorkersDone(q)
             \/ NormalizeScorePanics(q) \/ PermitVerdict(q) \/ BinderPasses(q)
      PROVE  binding'[p] = binding[p]
  BY <1>1, <1>3, <1>5
     DEF StartCycle, SchedulerPasses, WorkersDone, NormalizeScorePanics,
         SizeMismatch, Panic, PermitVerdict, BinderPasses, pluginVars
<1>6. ASSUME NEW q \in Pod,
             SchedulerCalls(q) \/ SchedulerReturns(q) \/ SchedulerFails(q)
      PROVE  binding'[p] = binding[p]
  <2>1. \/ DoWithSchedulingGuest(Scheduler, q)
        \/ DoWithSchedulingGuestReturns(Scheduler)
        \/ DoWithSchedulingGuestFails(Scheduler, q)
    BY <1>1, <1>6, HandlersUsePool
       DEF SchedulerCalls, SchedulerReturns, SchedulerFails,
           SchedulingCallReturns
  <2>. QED
    BY <1>1, <1>3, <2>1
<1>7. ASSUME NEW q \in Pod, PermitEnds(q)
      PROVE  binding'[p] = binding[p]
  <2>1. AssociateForBinding(Scheduler, q) \/ GetForBindingPanics(Scheduler, q)
    BY <1>1, <1>7, HandlersUsePool DEF PermitEnds
  <2>. QED
    BY <1>1, <1>2, <1>3, <2>1
<1>8. ASSUME NEW n \in Node, WorkerStep(n)
      PROVE  binding'[p] = binding[p]
  <2>1. \E q \in Pod : \/ DoWithSchedulingGuest(n, q)
                       \/ DoWithSchedulingGuestReturns(n)
                       \/ DoWithSchedulingGuestFails(n, q)
    BY <1>1, <1>8, HandlersUsePool
       DEF WorkerStep, WorkerCallsPlugin, WorkerReturns, WorkerFails,
           SchedulingCallReturns
  <2>. QED
    BY <1>1, <1>3, <2>1
<1>9. ASSUME NEW q \in Pod, BinderCalls(q) \/ BinderReturns(q) \/ BinderFails(q)
      PROVE  binding'[p] = binding[p]
  <2>1. \/ RunForBinding(q, q) \/ DoWithSchedulingGuest(q, q)
        \/ BindingCallReturns(q) \/ DoWithSchedulingGuestReturns(q)
        \/ GetForBindingPanics(q, q) \/ DoWithSchedulingGuestFails(q, q)
    BY <1>1, <1>9, HandlersUsePool
       DEF BinderCalls, BinderReturns, BinderFails, BindingReturns,
           SchedulingCallReturns
  <2>. QED
    BY <1>1, <1>2, <1>3, <2>1
<1>10. ASSUME NEW q \in Pod, UnreserveEnds(q) \/ BinderEnds(q)
       PROVE  binding'[p] = binding[p]
  <2>1. q # p /\ (FreeFromBinding(Scheduler, q) \/ FreeFromBinding(q, q))
    BY <1>1, <1>10, HandlersUsePool DEF UnreserveEnds, BinderEnds
  <2>. QED
    BY <1>1, <1>2, <2>1
<1>. QED
  BY <1>4, <1>5, <1>6, <1>7, <1>8, <1>9, <1>10
     DEF Next, SchedulerStep, BinderStep

(* The guest of a pod's binding cycle is its own until the pod is bound or *)
(* back in the queue.                                                      *)
THEOREM BindingKeepsItsGuest == Spec => BindingGuestPinned
<1>. DEFINE Pinned ==
       \A p \in Pod : binding[p] # NoGuest /\ binding'[p] # binding[p]
         => stage'[p] \in {"queued", "bound"}
<1>1. ASSUME CycleInv, Next
      PROVE  Pinned
  <2>. SUFFICES ASSUME NEW p \in Pod, binding[p] # NoGuest,
                       binding'[p] # binding[p]
                PROVE  stage'[p] \in {"queued", "bound"}
    OBVIOUS
  <2>1. UnreserveEnds(p) \/ BinderEnds(p)
    BY <1>1, OnlyFreedAtTheEnd
  <2>. QED
    BY <1>1, <2>1, StageMoves DEF UnreserveEnds, BinderEnds
<1>2. CycleInv /\ [Next]_vars => [Pinned]_vars
  BY <1>1
<1>. QED
  BY <1>2, CycleInvariant, PTL DEF Spec, BindingGuestPinned
-----------------------------------------------------------------------------
(* The steps that move p, one for each place it may leave.                 *)
Moves(p) ==
  \/ StartCycle(p) \/ SchedulerReturns(p) \/ SchedulerFails(p)
  \/ SchedulerPasses(p) \/ WorkersDone(p) \/ PermitEnds(p)
  \/ UnreserveEnds(p) \/ PermitVerdict(p) \/ BinderReturns(p)
  \/ BinderFails(p) \/ BinderPasses(p) \/ BinderEnds(p)

LEMMA OnlyMoved ==
  ASSUME CycleInv, Next, NEW p \in Pod, stage'[p] # stage[p]
  PROVE  Moves(p)
<1>. SUFFICES ASSUME ~Moves(p) PROVE FALSE
  OBVIOUS
<1>1. ASSUME NEW q \in Pod, \E s : Schedule(q, s) \/ Proceed(q, s)
      PROVE  q = p
  BY <1>1, StageMoves
<1>2. ASSUME NEW q \in Pod, Moves(q)
      PROVE  UNCHANGED stage \/ q = p
  <2>1. CASE StartCycle(q) \/ SchedulerReturns(q) \/ SchedulerFails(q)
               \/ WorkersDone(q) \/ PermitEnds(q) \/ UnreserveEnds(q)
    BY <1>1, <2>1 DEF StartCycle, SchedulerReturns, SchedulerFails,
                      WorkersDone, PermitEnds, UnreserveEnds
  <2>2. CASE SchedulerPasses(q)
    BY <1>1, <2>2 DEF SchedulerPasses
  <2>3. CASE PermitVerdict(q) \/ BinderReturns(q) \/ BinderFails(q)
               \/ BinderPasses(q) \/ BinderEnds(q)
    BY <1>1, <2>3 DEF PermitVerdict, BinderReturns, BinderFails, BinderPasses,
                      BinderEnds, cycleVars
  <2>. QED
    BY <1>2, <2>1, <2>2, <2>3 DEF Moves
<1>3. ASSUME NEW q \in Pod,
             SchedulerCalls(q) \/ NormalizeScorePanics(q) \/ BinderCalls(q)
      PROVE  UNCHANGED stage
  BY <1>3 DEF SchedulerCalls, NormalizeScorePanics, BinderCalls, cycleVars
<1>4. CASE Register
  BY <1>4 DEF Register, cycleVars
<1>5. ASSUME NEW n \in Node, WorkerStep(n)
      PROVE  UNCHANGED stage
  BY <1>5 DEF WorkerStep, WorkerCallsPlugin, WorkerReturns, WorkerFails, cycleVars
<1>. QED
  BY <1>2, <1>3, <1>4, <1>5 DEF Next, SchedulerStep, BinderStep, Moves

(* A guest becomes bound to p only at the end of Permit or by a call of    *)
(* the binding cycle, and is then the scheduled one.                       *)
LEMMA OnlyBoundThen ==
  ASSUME CycleInv, Next, NEW p \in Pod, binding[p] = NoGuest,
         binding'[p] # NoGuest
  PROVE  /\ PermitEnds(p) \/ (BinderCalls(p) /\ stage[p] \in BindCalls)
         /\ scheduled # NoGuest /\ binding'[p] = scheduled
<1>0. /\ binding \in [Pod -> Guest \cup {NoGuest}]
      /\ Scheduler \in Caller
      /\ \A n \in Node : n \in Caller
      /\ \A q \in Pod : q \in Caller
  BY ThreadsAreCallers DEF CycleInv, PoolInv, TypeOK
<1>. SUFFICES PermitEnds(p) \/ (BinderCalls(p) /\ stage[p] \in BindCalls)
  <2>1. AssociateForBinding(Scheduler, p) \/ GetForBindingPanics(Scheduler, p)
          \/ RunForBinding(p, p)
    BY <1>0, HandlersUsePool
       DEF PermitEnds, BinderCalls, BindCalls
  <2>. QED
    BY <1>0, <2>1
       DEF AssociateForBinding, GetForBindingPanics, RunForBinding, GetForBinding
<1>1. ASSUME NEW c \in Caller, NEW q \in Pod, q # p,
             RunForBinding(c, q) \/ AssociateForBinding(c, q)
      PROVE  FALSE
  BY <1>0, <1>1 DEF RunForBinding, AssociateForBinding, GetForBinding
<1>2. ASSUME NEW c \in Caller, NEW q \in Pod,
             \/ DoWithGuest(c) \/ DoWithGuestReturns(c)
             \/ DoWithSchedulingGuest(c, q) \/ DoWithSchedulingGuestFails(c, q)
             \/ DoWithSchedulingGuestReturns(c) \/ BindingCallReturns(c)
             \/ GetForBindingPanics(c, q) \/ FreeFromBinding(c, q)
             \/ Panic \/ UNCHANGED poolVars
      PROVE  FALSE
  BY <1>0, <1>2
     DEF DoWithGuest, DoWithGuestReturns, DoWithSchedulingGuest,
         DoWithSchedulingGuestFails, DoWithSchedulingGuestReturns,
         BindingCallReturns, GetForBindingPanics, FreeFromBinding, Panic,
         poolVars
<1>3. CASE Register
  BY <1>0, <1>2, <1>3
     DEF Register, EventsToRegister, EventsToRegisterReturns,
         EventsToRegisterPanics, Panic, pluginVars
<1>4. ASSUME NEW q \in Pod,
             \/ StartCycle(q) \/ SchedulerPasses(q) \/ WorkersDone(q)
             \/ NormalizeScorePanics(q) \/ PermitVerdict(q) \/ BinderPasses(q)
      PROVE  FALSE
  BY <1>0, <1>2, <1>4
     DEF StartCycle, SchedulerPasses, WorkersDone, NormalizeScorePanics,
         SizeMismatch, Panic, PermitVerdict, BinderPasses, pluginVars
<1>5. ASSUME NEW q \in Pod,
             \/ SchedulerCalls(q) \/ SchedulerReturns(q) \/ SchedulerFails(q)
             \/ UnreserveEnds(q)
      PROVE  FALSE
  <2>1. \/ DoWithSchedulingGuest(Scheduler, q)
        \/ DoWithSchedulingGuestReturns(Scheduler)
        \/ DoWithSchedulingGuestFails(Scheduler, q)
        \/ FreeFromBinding(Scheduler, q)
    BY <1>0, <1>5, HandlersUsePool
       DEF SchedulerCalls, SchedulerReturns, SchedulerFails, UnreserveEnds,
           SchedulingCallReturns
  <2>. QED
    BY <1>0, <1>2, <2>1
<1>6. ASSUME NEW q \in Pod, PermitEnds(q), q # p
      PROVE  FALSE
  <2>1. AssociateForBinding(Scheduler, q) \/ GetForBindingPanics(Scheduler, q)
    BY <1>0, <1>6, HandlersUsePool DEF PermitEnds
  <2>. QED
    BY <1>0, <1>1, <1>2, <1>6, <2>1
<1>7. ASSUME NEW n \in Node, WorkerStep(n)
      PROVE  FALSE
  <2>1. \E q \in Pod : \/ DoWithSchedulingGuest(n, q)
                       \/ DoWithSchedulingGuestReturns(n)
                       \/ DoWithSchedulingGuestFails(n, q)
    BY <1>0, <1>7, HandlersUsePool
       DEF WorkerStep, WorkerCallsPlugin, WorkerReturns, WorkerFails,
           SchedulingCallReturns
  <2>. QED
    BY <1>0, <1>2, <2>1
<1>8. ASSUME NEW q \in Pod,
             \/ BinderCalls(q) /\ ~(q = p /\ stage[p] \in BindCalls)
             \/ BinderReturns(q) \/ BinderFails(q) \/ BinderEnds(q)
      PROVE  FALSE
  <2>1. \/ (q # p /\ RunForBinding(q, q)) \/ DoWithSchedulingGuest(q, q)
        \/ BindingCallReturns(q) \/ DoWithSchedulingGuestReturns(q)
        \/ GetForBindingPanics(q, q) \/ DoWithSchedulingGuestFails(q, q)
        \/ FreeFromBinding(q, q)
    BY <1>0, <1>8, HandlersUsePool
       DEF BinderCalls, BinderReturns, BinderFails, BinderEnds, BindingReturns,
           SchedulingCallReturns, BindCalls
  <2>. QED
    BY <1>0, <1>1, <1>2, <2>1
<1>9. CASE SchedulerStep
  BY <1>3, <1>4, <1>5, <1>6, <1>9 DEF SchedulerStep
<1>10. ASSUME NEW q \in Pod, BinderStep(q)
       PROVE  BinderCalls(p) /\ stage[p] \in BindCalls
  BY <1>4, <1>8, <1>10 DEF BinderStep
<1>. QED
  BY <1>7, <1>9, <1>10 DEF Next

(* p's goroutine releases the guest when it ends the binding cycle, the    *)
(* scheduling goroutine when Unreserve ends the scheduling cycle.          *)
LEMMA FreedAtTheEnd ==
  ASSUME CycleInv, NEW p \in Pod, UnreserveEnds(p) \/ BinderEnds(p)
  PROVE  binding'[p] = NoGuest
<1>1. FreeFromBinding(Scheduler, p) \/ FreeFromBinding(p, p)
  BY ThreadsAreCallers, HandlersUsePool DEF UnreserveEnds, BinderEnds
<1>. QED
  BY <1>1 DEF FreeFromBinding, CycleInv, PoolInv, TypeOK

(* Where a pod may hold a guest when an unreserve export takes it back from *)
(* every failed cycle; only PostBind takes it back from a bound pod.       *)
Holding ==
  BindStages \cup {"unreserve", "unreserved"}
    \cup {s \in {"bound"} : ~Runs("postbind")}

GuestsHeld == \A p \in Pod : binding[p] # NoGuest => stage[p] \in Holding

LEMMA HoldingStages ==
  ASSUME CycleInv, Runs("unreserve"), NEW p \in Pod, stage[p] \in Holding,
         Moves(p), ~UnreserveEnds(p), ~BinderEnds(p)
  PROVE  stage'[p] \in Holding
<1>. USE DEF Holding, BindStages, BindCalls
<1>1. ASSUME NEW s \in Holding, Schedule(p, s) \/ Proceed(p, s)
      PROVE  stage'[p] \in Holding
  BY <1>1, StageMoves
<1>2. CASE StartCycle(p) \/ WorkersDone(p) \/ PermitEnds(p)
  BY <1>2 DEF StartCycle, WorkersDone, PermitEnds
<1>3. CASE SchedulerReturns(p)
  <2>1. stage[p] = "unreserve"
    BY <1>3 DEF SchedulerReturns, Sequential
  <2>2. Answers("unreserve") \subseteq {"unreserved"}
    BY DEF Answers, AfterCall, OnSuccess, OnError
  <2>. QED
    BY <1>1, <1>3, <2>1, <2>2 DEF SchedulerReturns
<1>4. CASE SchedulerFails(p)
  <2>1. stage[p] = "unreserve" /\ OnError("unreserve") = "unreserved"
    BY <1>4 DEF SchedulerFails, Sequential, OnError
  <2>. QED
    BY <1>1, <1>4, <2>1 DEF SchedulerFails
<1>5. CASE SchedulerPasses(p)
  BY <1>5 DEF SchedulerPasses, Sequential, CalledIn
<1>6. CASE PermitVerdict(p)
  BY <1>1, <1>6 DEF PermitVerdict
<1>7. CASE BinderReturns(p)
  <2>1. stage[p] \in BindCalls => NextBind(stage[p]) \in Holding
    BY DEF NextBind
  <2>. QED
    BY <1>1, <1>7, <2>1 DEF BinderReturns
<1>8. CASE BinderFails(p)
  BY <1>1, <1>8 DEF BinderFails, cycleVars
<1>9. CASE BinderPasses(p)
  <2>1. stage[p] \in BindCalls => NextBind(stage[p]) \in Holding
    BY DEF NextBind
  <2>. QED
    BY <1>1, <1>9, <2>1 DEF BinderPasses
<1>. QED
  BY <1>2, <1>3, <1>4, <1>5, <1>6, <1>7, <1>8, <1>9 DEF Moves

LEMMA NextKeepsGuestsHeld ==
  ASSUME CycleInv, GuestsHeld, Next, Runs("unreserve")
  PROVE  GuestsHeld'
<1>. SUFFICES ASSUME NEW p \in Pod, binding'[p] # NoGuest
              PROVE  stage'[p] \in Holding
  BY DEF GuestsHeld, Holding
<1>1. CASE binding[p] # NoGuest
  <2>1. stage[p] \in Holding
    BY <1>1 DEF GuestsHeld
  <2>2. ~UnreserveEnds(p) /\ ~BinderEnds(p)
    BY FreedAtTheEnd
  <2>. QED
    BY <2>1, <2>2, OnlyMoved, HoldingStages
<1>2. CASE binding[p] = NoGuest
  <2>1. CASE PermitEnds(p) /\ ~panicked'
    BY <2>1, StageMoves
       DEF PermitEnds, NoGuestForBinding, GetForBindingPanics, BindStages,
           Holding
  <2>2. CASE PermitEnds(p) /\ panicked'
    <3>1. GetForBindingPanics(Scheduler, p)
      BY <2>2, ThreadsAreCallers, HandlersUsePool
         DEF PermitEnds, AssociateForBinding, GetForBinding, Lock
    <3>. QED
      BY <1>2, <3>1 DEF GetForBindingPanics
  <2>3. CASE BinderCalls(p) /\ stage[p] \in BindCalls
    BY <2>3 DEF BinderCalls, cycleVars, BindStages, Holding
  <2>. QED
    BY <1>2, <2>1, <2>2, <2>3, OnlyBoundThen
<1>. QED
  BY <1>1, <1>2

LEMMA GuestsAreHeld ==
  ASSUME Runs("unreserve")
  PROVE  Spec => []GuestsHeld
<1>1. Init => GuestsHeld
  BY DEF Init, PluginInit, PoolInit, GuestsHeld
<1>2. CycleInv /\ GuestsHeld /\ [Next]_vars => GuestsHeld'
  <2>1. CycleInv /\ GuestsHeld /\ UNCHANGED vars => GuestsHeld'
    BY DEF GuestsHeld, Holding, vars, pluginVars, poolVars, cycleVars
  <2>. QED
    BY <2>1, NextKeepsGuestsHeld
<1>. QED
  BY <1>1, <1>2, CycleInvariant, PTL DEF Spec

(* A guest with an unreserve and a postbind export comes back to the pool  *)
(* from every cycle: no pod holds one outside its binding cycle or the     *)
(* Unreserve that ends it, whatever else the guest exports and whatever    *)
(* fails.                                                                  *)
THEOREM NoGuestIsLeaked ==
  ASSUME Runs("postbind"), Runs("unreserve")
  PROVE  Spec => []NoLeak
<1>1. GuestsHeld => NoLeak
  BY DEF GuestsHeld, Holding, NoLeak
<1>. QED
  BY <1>1, GuestsAreHeld, PTL

-----------------------------------------------------------------------------
(* The memories of the guests.                                             *)
Objects == [uid : Pod \cup {NoPod}, attempt : Nat]
Readers == [cycle : Objects, unreserve : BOOLEAN]
Cell    == [cycle : Objects, pod : Objects, reader : Readers]

MemoryInv ==
  /\ attempt \in [Pod -> Nat]
  /\ memory \in [Guest -> Cell]

LEMMA LengthOf ==
  ASSUME NEW S, NEW n \in Nat, NEW f \in [1..n -> S]
  PROVE  Len(f) = n
<1>1. f \in Seq(S)
  OBVIOUS
<1>. QED
  BY <1>1

LEMMA ObjectsAreObjects ==
  ASSUME MemoryInv, NEW p \in Pod
  PROVE  Object(p) \in Objects
BY DEF MemoryInv, Object, Objects

LEMMA NewCell == NoObject \in Objects /\ NewMemory \in Cell
<1>1. NoObject \in Objects
  BY DEF NoObject, Objects
<1>2. NoReader \in Readers
  BY <1>1 DEF NoReader, Readers
<1>. QED
  BY <1>1, <1>2 DEF NewMemory, Cell

LEMMA CellsAreCells ==
  ASSUME PoolInv, MemoryInv, NEW g \in Nat \ {0}
  PROVE  MemoryOf(g) \in Cell /\ (g \in Guest => MemoryOf(g) = memory[g])
<1>1. NewMemory \in Cell
  BY NewCell
<1>2. Len(memory) = instanceCounter /\ instanceCounter \in Nat
  BY LengthOf DEF PoolInv, TypeOK, MemoryInv, Guest
<1>3. CASE g \in Guest
  BY <1>2, <1>3 DEF MemoryInv, MemoryOf, Guest
<1>4. CASE g \notin Guest
  BY <1>1, <1>2, <1>4 DEF MemoryInv, MemoryOf, Guest
<1>. QED
  BY <1>3, <1>4

(* What a call makes of a memory: prefilter begins the cycle, and the      *)
(* first to read the pod since then is remembered as its reader.           *)
LEMMA AfterOp ==
  ASSUME MemoryInv, NEW m \in Cell, NEW op, NEW p \in Pod,
         NEW after \in MemoryAfter(m, op, Object(p))
  PROVE  /\ after \in Cell
         /\ op = "prefilter" =>
              /\ after.cycle = Object(p)
              /\ \/ after.pod = NoObject
                 \/ after.pod = Object(p) /\ after.reader.cycle = Object(p)
         /\ op # "prefilter" =>
              /\ after.cycle = m.cycle
              /\ \/ after.pod = m.pod /\ after.reader = m.reader
                 \/ /\ after.pod = Object(p) /\ after.reader.cycle = m.cycle
                    /\ op = "unreserve" => after.reader.unreserve
<1>. DEFINE begun == IF op = "prefilter"
                       THEN [NewMemory EXCEPT !.cycle = Object(p)] ELSE m
            reader == [cycle |-> begun.cycle, unreserve |-> op = "unreserve"]
<1>1. Object(p) \in Objects
  BY ObjectsAreObjects
<1>2. /\ begun \in Cell
      /\ op = "prefilter" => begun.cycle = Object(p) /\ begun.pod = NoObject
      /\ op # "prefilter" => begun = m
  BY <1>1, NewCell DEF NewMemory, Cell
<1>3. after \in {begun, [begun EXCEPT !.pod = Object(p), !.reader = reader]}
  BY DEF MemoryAfter, PodRead
<1>4. CASE after = begun
  BY <1>2, <1>4
<1>5. CASE after = [begun EXCEPT !.pod = Object(p), !.reader = reader]
  <2>1. reader \in Readers
    BY <1>2 DEF Readers, Cell
  <2>. HIDE DEF begun, reader
  <2>2. /\ after \in Cell /\ after.cycle = begun.cycle
        /\ after.pod = Object(p) /\ after.reader = reader
    BY <1>1, <1>2, <1>5, <2>1 DEF Cell
  <2>3. reader.cycle = begun.cycle /\ (op = "unreserve" => reader.unreserve)
    BY DEF reader
  <2>. QED
    BY <1>2, <2>2, <2>3
<1>. QED
  BY <1>3, <1>4, <1>5

(* A call writes the memory of the guest it runs and no other.             *)
LEMMA WrittenMemory ==
  ASSUME PoolInv, MemoryInv, instanceCounter' \in Nat,
         instanceCounter <= instanceCounter',
         NEW h \in Guest', NEW op, NEW p \in Pod,
         GuestRuns(h, op, Object(p))
  PROVE  /\ memory' \in [Guest' -> Cell]
         /\ \A g \in Guest : g # h => memory'[g] = memory[g]
         /\ ~runtimeClosed => memory'[h] \in MemoryAfter(MemoryOf(h), op, Object(p))
<1>1. PICK m \in IF runtimeClosed THEN {MemoryOf(h)}
                 ELSE MemoryAfter(MemoryOf(h), op, Object(p)) :
        memory' = [i \in Guest' |-> IF i = h THEN m ELSE MemoryOf(i)]
  BY DEF GuestRuns, Guest
<1>2. /\ \A g \in Guest : g \in Guest'
      /\ \A g \in Guest' : g \in Nat \ {0}
  BY DEF Guest, PoolInv, TypeOK
<1>3. m \in Cell
  BY <1>1, <1>2, CellsAreCells, AfterOp
<1>. QED
  BY <1>1, <1>2, <1>3, CellsAreCells

-----------------------------------------------------------------------------
(* A step of the system is one of six kinds.  The first changes nothing a  *)
(* guest remembers and hands no guest on.                                  *)
Quiet ==
  /\ UNCHANGED <<scheduled, binding, memory, instanceCounter>>
  /\ runtimeClosed => runtimeClosed'
  /\ taken' \in {taken, NoGuest}
  /\ \A c \in Caller : running'[c] \in {running[c], NoGuest}

(* A handler runs op on the scheduled guest.                               *)
ScheduledRuns(c, op, p) ==
  /\ SchedulingCall(c, op, Object(p)) /\ UNCHANGED cycleVars
  /\ \/ c = Scheduler /\ stage[p] \in Sequential /\ op = CalledIn(stage[p])
     \/ c \in Node /\ stage[p] \in Parallel /\ op # "prefilter"
     \/ c = p /\ stage[p] = "rollback" /\ op = "unreserve"

(* A handler runs on the guest bound to p.                                 *)
BoundRuns(p) ==
  /\ stage[p] \in BindCalls
  /\ BindingCall(p, stage[p], Object(p)) /\ UNCHANGED cycleVars

Associates(p) == PermitEnds(p) /\ PermitAssociates(Scheduler, Object(p))

Releases(p) ==
  /\ UnreserveEnds(p) \/ BinderEnds(p)
  /\ ReleaseGuest(Scheduler, Object(p)) \/ ReleaseGuest(p, Object(p))

LEMMA QuietSections ==
  ASSUME PoolInv, UNCHANGED memory, NEW c \in Caller, NEW p \in Pod,
         \/ DoWithSchedulingGuestReturns(c) \/ BindingCallReturns(c)
         \/ DoWithSchedulingGuestFails(c, p) \/ GetForBindingPanics(c, p)
         \/ Panic \/ UNCHANGED poolVars
  PROVE  Quiet
BY DEF DoWithSchedulingGuestReturns, BindingCallReturns, NewGuestFails,
       DoWithSchedulingGuestFails, GetForBindingPanics, Panic, poolVars,
       Quiet, PoolInv, TypeOK

LEMMA StepKinds ==
  ASSUME CycleInv, Next
  PROVE  \/ Register
         \/ Quiet
         \/ \E c \in Caller, p \in Pod : \E op : ScheduledRuns(c, op, p)
         \/ \E p \in Pod : BoundRuns(p) \/ Associates(p) \/ Releases(p)
<1>. USE ThreadsAreCallers
<1>1. ASSUME NEW p \in Pod, SchedulerCalls(p)
      PROVE  \E op : ScheduledRuns(Scheduler, op, p)
  <2>1. stage[p] \in Sequential
    BY <1>1 DEF SchedulerCalls, Sequential
  <2>2. /\ SchedulingCall(Scheduler, CalledIn(stage[p]), Object(p))
        /\ UNCHANGED cycleVars
    BY <1>1 DEF SchedulerCalls, PreFilter, PostFilter, PreScore, NormalizeScore,
                Reserve, Permit, Unreserve, CalledIn
  <2>. QED
    BY <2>1, <2>2 DEF ScheduledRuns
<1>2. ASSUME NEW p \in Pod, NEW n \in Node, WorkerCallsPlugin(p, n)
      PROVE  \E op : ScheduledRuns(n, op, p)
  BY <1>2 DEF WorkerCallsPlugin, AddPod, RemovePod, Filter, Score, ScheduledRuns
<1>3. ASSUME NEW p \in Pod, BinderCalls(p)
      PROVE  BoundRuns(p) \/ \E op : ScheduledRuns(p, op, p)
  BY <1>3 DEF BinderCalls, PreBind, Bind, PostBind, Unreserve, BoundRuns,
              ScheduledRuns, BindCalls
<1>4. ASSUME NEW p \in Pod, PermitEnds(p)
      PROVE  Associates(p) \/ Quiet
  <2>1. CASE PermitAssociates(Scheduler, Object(p))
    BY <1>4, <2>1 DEF Associates
  <2>2. CASE NoGuestForBinding(Scheduler, Object(p))
    BY <2>2, HandlersUsePool, QuietSections DEF CycleInv, NoGuestForBinding
  <2>. QED
    BY <1>4, <2>1, <2>2 DEF PermitEnds
<1>5. ASSUME NEW p \in Pod, UnreserveEnds(p) \/ BinderEnds(p)
      PROVE  Releases(p)
  BY <1>5 DEF UnreserveEnds, BinderEnds, Releases
<1>6. ASSUME NEW p \in Pod,
             \/ StartCycle(p) \/ SchedulerPasses(p) \/ WorkersDone(p)
             \/ NormalizeScorePanics(p) \/ PermitVerdict(p) \/ BinderPasses(p)
      PROVE  Quiet
  <2>1. (UNCHANGED poolVars \/ Panic) /\ UNCHANGED memory
    BY <1>6 DEF StartCycle, SchedulerPasses, WorkersDone, PermitVerdict,
                NormalizeScorePanics, SizeMismatch, Panic, BinderPasses,
                pluginVars
  <2>. QED
    BY <2>1, QuietSections DEF CycleInv
<1>7. ASSUME NEW p \in Pod,
             \/ SchedulerReturns(p) \/ SchedulerFails(p)
             \/ BinderReturns(p) \/ BinderFails(p)
      PROVE  Quiet
  <2>1. UNCHANGED memory
    BY <1>7 DEF SchedulerReturns, SchedulerFails, BinderReturns, BinderFails,
                SchedulingCallReturns, SchedulingCallFails, BindingReturns,
                NoGuestForBinding
  <2>2. \E c \in {Scheduler, p} :
          \/ DoWithSchedulingGuestReturns(c) \/ BindingCallReturns(c)
          \/ DoWithSchedulingGuestFails(c, p) \/ GetForBindingPanics(c, p)
    BY <1>7, HandlersUsePool
       DEF SchedulerReturns, SchedulerFails, BinderReturns, BinderFails,
           SchedulingCallReturns, BindingReturns
  <2>. QED
    BY <2>1, <2>2, QuietSections DEF CycleInv
<1>8. ASSUME NEW n \in Node, WorkerReturns(n) \/ \E p \in Pod : WorkerFails(p, n)
      PROVE  Quiet
  <2>1. UNCHANGED memory
    BY <1>8 DEF WorkerReturns, WorkerFails, SchedulingCallReturns,
                SchedulingCallFails
  <2>2. CASE WorkerReturns(n)
    <3>1. DoWithSchedulingGuestReturns(n)
      BY <2>2 DEF WorkerReturns, SchedulingCallReturns
    <3>. QED
      BY <2>1, <3>1 DEF DoWithSchedulingGuestReturns, Quiet, CycleInv, PoolInv,
                        TypeOK
  <2>3. ASSUME NEW p \in Pod, WorkerFails(p, n)
        PROVE  Quiet
    BY <2>1, <2>3, HandlersUsePool, QuietSections DEF WorkerFails, CycleInv
  <2>. QED
    BY <1>8, <2>2, <2>3
<1>. QED
  BY <1>1, <1>2, <1>3, <1>4, <1>5, <1>6, <1>7, <1>8
     DEF Next, SchedulerStep, WorkerStep, BinderStep
-----------------------------------------------------------------------------
(* The stages in which the scheduled guest is that of the pod.             *)
Reset == SchedStages \ {"prefilter", "rejected", "unreserve", "unreserved"}

LEMMA Enters ==
  ASSUME CycleInv, NEW p \in Pod, Moves(p), Runs("prefilter"), Runs("permit")
  PROVE  /\ stage'[p] \in SchedStages => stage[p] \in SchedStages \/ StartCycle(p)
         /\ stage'[p] = "prefilter" => stage[p] = "prefilter" \/ StartCycle(p)
         /\ stage'[p] \in Reset => \/ stage[p] \in Reset
                                   \/ stage[p] = "prefilter" /\ SchedulerReturns(p)
         /\ stage'[p] \in BindStages =>
              \/ stage[p] \in BindStages /\ ~BinderEnds(p)
              \/ Associates(p)
<1>. USE DEF SchedStages, Sequential, Parallel, Reset, BindStages, BindCalls
<1>0. ASSUME NEW s, Schedule(p, s) \/ Proceed(p, s)
      PROVE  stage'[p] = s
  BY <1>0, StageMoves
<1>a. stage'[p] \in BindStages => ~BinderEnds(p)
  BY <1>0 DEF BinderEnds
<1>1. CASE StartCycle(p)
  BY <1>0, <1>1 DEF StartCycle
<1>2. CASE SchedulerReturns(p)
  <2>1. PICK s \in Answers(stage[p]) : Schedule(p, s)
    BY <1>2 DEF SchedulerReturns
  <2>2. stage'[p] = s /\ stage[p] \in Sequential
    BY <1>0, <1>2, <2>1 DEF SchedulerReturns
  <2>3. /\ s # "prefilter" /\ s \in Stage \ BindStages
        /\ stage[p] = "unreserve" => s = "unreserved"
        /\ stage[p] = "rejected" => s = "queued"
    BY <2>1, <2>2 DEF Answers, AfterCall, OnSuccess, OnError, Stage
  <2>. QED
    BY <1>2, <2>2, <2>3
<1>3. CASE SchedulerFails(p)
  <2>1. stage'[p] = OnError(stage[p]) /\ stage[p] \in Sequential
    BY <1>0, <1>3 DEF SchedulerFails
  <2>. QED
    BY <2>1 DEF OnError
<1>4. CASE SchedulerPasses(p)
  <2>1. PICK s : Schedule(p, s) /\
               (\/ /\ ~Runs(CalledIn(stage[p]))
                   /\ s = CASE stage[p] = "permit"    -> "waiting"
                            [] stage[p] = "unreserve" -> "queued"
                            [] OTHER -> OnSuccess(stage[p])
                \/ s \in {"queued", "unreserve"}
                \/ s = "rejected" /\ stage[p] = "prefilter")
    BY <1>4 DEF SchedulerPasses
  <2>2. stage'[p] = s /\ stage[p] \in Sequential
    BY <1>0, <1>4, <2>1 DEF SchedulerPasses
  <2>3. CASE \/ s \in {"queued", "unreserve"}
             \/ s = "rejected" /\ stage[p] = "prefilter"
    BY <2>2, <2>3
  <2>4. CASE ~Runs(CalledIn(stage[p]))
    <3>1. stage[p] \in Sequential \ {"prefilter", "permit"}
      BY <2>2, <2>4 DEF CalledIn
    <3>. QED
      BY <2>1, <2>2, <2>3, <3>1 DEF OnSuccess
  <2>5. \/ ~Runs(CalledIn(stage[p]))
        \/ s \in {"queued", "unreserve"}
        \/ s = "rejected" /\ stage[p] = "prefilter"
    BY <2>1
  <2>. QED
    BY <2>3, <2>4, <2>5
<1>5. CASE WorkersDone(p) \/ PermitVerdict(p) \/ UnreserveEnds(p)
  BY <1>0, <1>5, <1>a DEF WorkersDone, PermitVerdict, UnreserveEnds
<1>6. CASE PermitEnds(p)
  <2>1. CASE PermitAssociates(Scheduler, Object(p))
    BY <1>0, <1>6, <2>1 DEF PermitEnds, Associates, NoGuestForBinding,
      GetForBindingPanics
  <2>2. CASE UNCHANGED stage
    BY <1>6, <1>a, <2>2 DEF PermitEnds
  <2>. QED
    BY <1>6, <2>1, <2>2 DEF PermitEnds
<1>7. CASE BinderReturns(p) \/ BinderPasses(p) \/ BinderFails(p)
  <2>1. stage[p] \in BindCalls => NextBind(stage[p]) \in BindStages
    BY DEF NextBind
  <2>2. stage[p] \in BindStages /\ stage'[p] \in BindStages \cup {"queued", "bound"}
    BY <1>0, <1>7, <2>1 DEF BinderReturns, BinderPasses, BinderFails, cycleVars
  <2>. QED
    BY <1>a, <2>2
<1>8. CASE BinderEnds(p)
  BY <1>0, <1>8 DEF BinderEnds
<1>. QED
  BY <1>1, <1>2, <1>3, <1>4, <1>5, <1>6, <1>7, <1>8 DEF Moves
-----------------------------------------------------------------------------
(* One pod is scheduled at a time, and none before registration; from the  *)
(* end of its PreFilter on there is a scheduled guest for Permit to hand   *)
(* over, and from Permit on the pod has a guest of its own.                *)
HandOver ==
  /\ \A p, q \in Pod :
       stage[p] \in SchedStages /\ stage[q] \in SchedStages => p = q
  /\ ~registered => \A p \in Pod : stage[p] = "queued"
  /\ \A p \in Pod : stage[p] \in Reset => scheduled # NoGuest
  /\ \A p \in Pod : stage[p] \in BindStages => binding[p] # NoGuest

LEMMA RegisterWaits ==
  ASSUME HandOver, Register
  PROVE  ~registered /\ UNCHANGED stage /\ \A p \in Pod : stage[p] = "queued"
BY DEF HandOver, Register, cycleVars

(* What the kinds of steps do to the places of the guests.                 *)
LEMMA Places ==
  ASSUME CycleInv
  PROVE  /\ \A c \in Caller, p \in Pod : \A op :
              ScheduledRuns(c, op, p) =>
                /\ scheduled' # NoGuest /\ UNCHANGED <<binding, stage>>
                /\ scheduled # NoGuest => UNCHANGED scheduled
                /\ mux = NoCaller
         /\ \A p \in Pod :
              /\ BoundRuns(p) =>
                   /\ UNCHANGED stage /\ mux = NoCaller
                   /\ binding'[p] # NoGuest
                   /\ binding[p] # NoGuest => UNCHANGED <<scheduled, binding>>
              /\ Associates(p) =>
                   /\ stage[p] = "permitted"
                   /\ stage'[p] \in {"waiting", "unreserve"}
                   /\ binding'[p] # NoGuest
                   /\ \A q \in Pod \ {p} :
                        UNCHANGED <<stage[q], binding[q]>>
              /\ Releases(p) =>
                   /\ UNCHANGED scheduled
                   /\ stage'[p] \in {"queued", "bound"}
                   /\ \A q \in Pod \ {p} :
                        UNCHANGED <<stage[q], binding[q]>>
<1>. USE ThreadsAreCallers, HandlersUsePool, CallerAssumption DEF CycleInv, PoolInv, TypeOK
<1>1. ASSUME NEW c \in Caller, NEW p \in Pod, NEW op, ScheduledRuns(c, op, p)
      PROVE  /\ scheduled' # NoGuest /\ UNCHANGED <<binding, stage>>
             /\ scheduled # NoGuest => UNCHANGED scheduled
             /\ mux = NoCaller
  <2>1. DoWithSchedulingGuest(c, p) /\ UNCHANGED stage
    BY <1>1, ObjectUID DEF ScheduledRuns, SchedulingCall, cycleVars
  <2>. QED
    BY <2>1 DEF DoWithSchedulingGuest, Lock, NewGuest, NoGuest, Guest
<1>2. ASSUME NEW p \in Pod, BoundRuns(p)
      PROVE  /\ UNCHANGED stage /\ mux = NoCaller
             /\ binding'[p] # NoGuest
             /\ binding[p] # NoGuest => UNCHANGED <<scheduled, binding>>
  <2>1. RunForBinding(p, p) /\ UNCHANGED stage
    BY <1>2, ObjectUID DEF BoundRuns, BindingCall, cycleVars
  <2>. QED
    BY <2>1 DEF RunForBinding, GetForBinding, Lock
<1>3. ASSUME NEW p \in Pod, Associates(p)
      PROVE  /\ stage[p] = "permitted"
             /\ stage'[p] \in {"waiting", "unreserve"}
             /\ binding'[p] # NoGuest
             /\ \A q \in Pod \ {p} : UNCHANGED <<stage[q], binding[q]>>
  <2>1. AssociateForBinding(Scheduler, p)
    BY <1>3 DEF Associates
  <2>2. /\ \E s \in {"waiting", "unreserve"} : Schedule(p, s)
        /\ stage[p] = "permitted"
    BY <1>3, <2>1
       DEF Associates, PermitEnds, NoGuestForBinding, GetForBindingPanics,
           AssociateForBinding, GetForBinding
  <2>. QED
    BY <2>1, <2>2, StageMoves DEF AssociateForBinding, GetForBinding
<1>4. ASSUME NEW p \in Pod, Releases(p)
      PROVE  /\ UNCHANGED scheduled
             /\ stage'[p] \in {"queued", "bound"}
             /\ \A q \in Pod \ {p} : UNCHANGED <<stage[q], binding[q]>>
  <2>1. FreeFromBinding(Scheduler, p) \/ FreeFromBinding(p, p)
    BY <1>4 DEF Releases
  <2>2. \E s \in {"queued", "bound"} : Schedule(p, s) \/ Proceed(p, s)
    BY <1>4 DEF Releases, UnreserveEnds, BinderEnds
  <2>. QED
    BY <2>1, <2>2, StageMoves DEF FreeFromBinding
<1>. QED
  BY <1>1, <1>2, <1>3, <1>4

LEMMA LeavesQueue ==
  ASSUME NEW p \in Pod, Moves(p), stage[p] = "queued"
  PROVE  StartCycle(p)
BY DEF Moves, SchedulerReturns, SchedulerFails, SchedulerPasses, WorkersDone,
       PermitEnds, UnreserveEnds, PermitVerdict, BinderReturns, BinderFails,
       BinderPasses, BinderEnds, Sequential, BindCalls

LEMMA RegistersOnly ==
  ASSUME Next, ~Register
  PROVE  UNCHANGED registered
<1>1. ASSUME NEW p \in Pod, Moves(p)
      PROVE  UNCHANGED registered
  <2>1. ASSUME NEW s, Schedule(p, s) \/ Proceed(p, s)
        PROVE  UNCHANGED registered
    BY <2>1 DEF Schedule, Proceed
  <2>2. CASE UNCHANGED registered
    BY <2>2
  <2>3. CASE SchedulerPasses(p)
    BY <2>1, <2>3 DEF SchedulerPasses
  <2>. QED
    BY <1>1, <2>1, <2>2, <2>3
       DEF Moves, StartCycle, SchedulerReturns, SchedulerFails, WorkersDone,
           PermitEnds, UnreserveEnds, PermitVerdict, BinderReturns,
           BinderFails, BinderPasses, BinderEnds, cycleVars
<1>2. ASSUME NEW p \in Pod,
             SchedulerCalls(p) \/ NormalizeScorePanics(p) \/ BinderCalls(p)
      PROVE  UNCHANGED registered
  BY <1>2 DEF SchedulerCalls, NormalizeScorePanics, BinderCalls, cycleVars
<1>3. ASSUME NEW n \in Node, WorkerStep(n)
      PROVE  UNCHANGED registered
  BY <1>3 DEF WorkerStep, WorkerCallsPlugin, WorkerReturns, WorkerFails, cycleVars
<1>. QED
  BY <1>1, <1>2, <1>3 DEF Next, SchedulerStep, BinderStep, Moves

LEMMA RegistersOnce ==
  ASSUME Next, registered
  PROVE  registered'
BY RegistersOnly DEF Register

LEMMA NextKeepsHandOver ==
  ASSUME CycleInv, HandOver, Next, Runs("prefilter"), Runs("permit")
  PROVE  HandOver'
<1>. DEFINE Kept(p) ==
       /\ stage'[p] \in Reset => scheduled' # NoGuest
       /\ stage'[p] \in BindStages => binding'[p] # NoGuest
<1>1. ASSUME NEW p \in Pod, NEW q \in Pod,
             stage'[p] \in SchedStages, stage'[q] \in SchedStages
      PROVE  p = q
  <2>1. \A r \in Pod : stage'[r] \in SchedStages =>
          stage[r] \in SchedStages \/ StartCycle(r)
    BY OnlyMoved, Enters
  <2>2. ASSUME NEW r \in Pod, StartCycle(r)
        PROVE  \A s \in Pod \ {r} : stage'[s] \notin SchedStages
    BY <2>2, StageMoves DEF StartCycle
  <2>. QED
    BY <1>1, <2>1, <2>2 DEF HandOver
<1>2. ASSUME ~registered', NEW p \in Pod
      PROVE  stage'[p] = "queued"
  <2>1. stage[p] = "queued" /\ ~registered
    BY <1>2, RegistersOnce DEF HandOver
  <2>. QED
    BY <2>1, OnlyMoved, LeavesQueue DEF StartCycle
<1>3. ASSUME NEW p \in Pod
      PROVE  Kept(p)
  <2>1. CASE Register
    BY <2>1, RegisterWaits DEF Reset, SchedStages, BindStages, Sequential,
                               Parallel, BindCalls
  <2>2. CASE Quiet
    <3>1. ASSUME stage'[p] \in Reset
          PROVE  scheduled # NoGuest
      <4>1. CASE stage[p] \in Reset
        BY <4>1 DEF HandOver
      <4>2. CASE SchedulerReturns(p)
        BY <4>2, ThreadsAreCallers, CallerAssumption
           DEF SchedulerReturns, SchedulingCallReturns,
               DoWithSchedulingGuestReturns, CycleInv, PoolInv, LockHolderRuns
      <4>. QED
        BY <3>1, <4>1, <4>2, OnlyMoved, Enters
    <3>2. ASSUME stage'[p] \in BindStages
          PROVE  binding'[p] # NoGuest
      <4>1. CASE stage[p] \in BindStages
        BY <2>2, <4>1 DEF HandOver, Quiet
      <4>2. CASE Associates(p)
        BY <4>2, Places
      <4>. QED
        BY <3>2, <4>1, <4>2, OnlyMoved, Enters
    <3>. QED
      BY <2>2, <3>1, <3>2 DEF Quiet
  <2>3. ASSUME NEW c \in Caller, NEW q \in Pod, NEW op, ScheduledRuns(c, op, q)
        PROVE  Kept(p)
    BY <2>3, Places DEF HandOver
  <2>4. ASSUME NEW q \in Pod, BoundRuns(q)
        PROVE  Kept(p)
    <3>1. binding[q] # NoGuest
      BY <2>4 DEF BoundRuns, HandOver, BindStages
    <3>. QED
      BY <2>4, <3>1, Places DEF HandOver
  <2>5. ASSUME NEW q \in Pod, Associates(q)
        PROVE  Kept(p)
    <3>1. stage'[p] \notin Reset
      <4>1. CASE p = q
        BY <2>5, <4>1, Places DEF Reset, SchedStages, Sequential, Parallel
      <4>2. CASE p # q
        BY <2>5, <4>2, Places DEF HandOver, Reset, SchedStages
      <4>. QED
        BY <4>1, <4>2
    <3>. QED
      BY <2>5, <3>1, Places DEF HandOver
  <2>6. ASSUME NEW q \in Pod, Releases(q)
        PROVE  Kept(p)
    <3>1. CASE p = q
      BY <2>6, <3>1, Places DEF Reset, SchedStages, Sequential, Parallel,
                                BindStages, BindCalls
    <3>2. CASE p # q
      BY <2>6, <3>2, Places DEF HandOver
    <3>. QED
      BY <3>1, <3>2
  <2>. QED
    BY <2>1, <2>2, <2>3, <2>4, <2>5, <2>6, StepKinds
<1>. QED
  BY <1>1, <1>2, <1>3 DEF HandOver

-----------------------------------------------------------------------------
(* The scheduling goroutine runs a guest for the pod it schedules, or for  *)
(* EventsToRegister before there is one, and a worker only in a parallel   *)
(* stage.                                                                  *)
Busy ==
  /\ taken # NoGuest => ~registered /\ Runs("enqueue")
  /\ running[Scheduler] # NoGuest =>
       \/ ~registered /\ Runs("enqueue")
       \/ \E p \in Pod : stage[p] \in Sequential
  /\ \A n \in Node :
       running[n] # NoGuest => \E p \in Pod : stage[p] \in Parallel

(* A stage ends when the calls it makes have returned.                     *)
LEMMA StageEnds ==
  ASSUME CycleInv, NEW p \in Pod, Moves(p)
  PROVE  /\ stage[p] \in Sequential => running'[Scheduler] = NoGuest
         /\ stage[p] \in Parallel => \A n \in Node : running'[n] = NoGuest
<1>. USE ThreadsAreCallers DEF Sequential, Parallel
<1>1. CASE SchedulerReturns(p)
  BY <1>1 DEF SchedulerReturns, SchedulingCallReturns,
              DoWithSchedulingGuestReturns, CycleInv, PoolInv, TypeOK
<1>2. CASE SchedulerFails(p)
  BY <1>2, HandlersUsePool DEF SchedulerFails, DoWithSchedulingGuestFails, Lock
<1>3. CASE SchedulerPasses(p) \/ WorkersDone(p)
  BY <1>3 DEF SchedulerPasses, WorkersDone, pluginVars, poolVars
<1>. QED
  BY <1>1, <1>2, <1>3
     DEF Moves, StartCycle, PermitEnds, UnreserveEnds, PermitVerdict,
         BinderReturns, BinderFails, BinderPasses, BinderEnds, BindCalls

LEMMA NextKeepsBusy ==
  ASSUME CycleInv, HandOver, Busy, Next
  PROVE  Busy'
<1>. USE ThreadsAreCallers
<1>0. running \in [Caller -> Guest \cup {NoGuest}] /\ NoCaller \notin Caller
  BY CallerAssumption DEF CycleInv, PoolInv, TypeOK
<1>1. CASE Register
  <2>1. /\ \A p \in Pod : stage'[p] = stage[p] /\ stage[p] = "queued"
        /\ \A n \in Node : running[n] = NoGuest
        /\ running[Scheduler] # NoGuest => Runs("enqueue")
        /\ ~registered
    BY <1>1, RegisterWaits DEF Busy, Parallel, Sequential
  <2>2. CASE EventsToRegister(Scheduler) /\ UNCHANGED cycleVars
    BY <1>0, <2>1, <2>2
       DEF EventsToRegister, DoWithGuest, RunLocked, Busy, cycleVars
  <2>3. CASE EventsToRegisterReturns(Scheduler)
    BY <1>0, <2>1, <2>3 DEF EventsToRegisterReturns, DoWithGuestReturns, Busy
  <2>4. CASE EventsToRegisterPanics(Scheduler) /\ UNCHANGED cycleVars
    BY <2>1, <2>4 DEF EventsToRegisterPanics, Busy, cycleVars
  <2>5. CASE ~Runs("enqueue") /\ UNCHANGED pluginVars
    BY <2>1, <2>5 DEF Busy, pluginVars, poolVars
  <2>. QED
    BY <1>1, <2>2, <2>3, <2>4, <2>5 DEF Register
<1>2. ASSUME ~Register
      PROVE  registered' = registered
  BY <1>2, RegistersOnly
<1>3. ASSUME Quiet, ~Register
      PROVE  Busy'
  <2>1. /\ taken' # NoGuest => taken' = taken
        /\ \A c \in Caller : running'[c] # NoGuest => running[c] # NoGuest
    BY <1>3 DEF Quiet
  <2>2. ASSUME running'[Scheduler] # NoGuest, NEW p \in Pod,
               stage[p] \in Sequential
        PROVE  stage'[p] = stage[p]
    BY <2>2, OnlyMoved, StageEnds
  <2>3. ASSUME NEW n \in Node, running'[n] # NoGuest, NEW p \in Pod,
               stage[p] \in Parallel
        PROVE  stage'[p] = stage[p]
    BY <2>3, OnlyMoved, StageEnds
  <2>. QED
    BY <1>2, <1>3, <2>1, <2>2, <2>3 DEF Busy
<1>4. ASSUME NEW c \in Caller, NEW p \in Pod, NEW op, ScheduledRuns(c, op, p)
      PROVE  Busy'
  <2>1. DoWithSchedulingGuest(c, p) /\ UNCHANGED cycleVars
    BY <1>4, ObjectUID DEF ScheduledRuns, SchedulingCall
  <2>2. /\ UNCHANGED <<taken, registered, stage>>
        /\ \A d \in Caller \ {c} : running'[d] = running[d]
    BY <1>0, <2>1 DEF DoWithSchedulingGuest, RunLocked, cycleVars
  <2>3. \/ c = Scheduler /\ stage[p] \in Sequential
        \/ c \in Node /\ stage[p] \in Parallel
        \/ c \in Pod
    BY <1>4 DEF ScheduledRuns
  <2>. QED
    BY <2>2, <2>3 DEF Busy
<1>5. ASSUME NEW p \in Pod, BoundRuns(p) \/ Associates(p) \/ Releases(p)
      PROVE  Busy'
  <2>1. /\ UNCHANGED taken
        /\ \A d \in Caller \ {p} : running'[d] = running[d]
    BY <1>0, <1>5, HandlersUsePool, ObjectUID
       DEF BoundRuns, BindingCall, RunForBinding, GetForBinding, Associates,
           AssociateForBinding, Releases, FreeFromBinding
  <2>2. ~Register
    BY <1>5, RegisterWaits, Places
       DEF BoundRuns, Releases, UnreserveEnds, BinderEnds, BindCalls
  <2>3. /\ \A q \in Pod \ {p} : stage'[q] = stage[q]
        /\ stage[p] \notin Sequential \cup Parallel
    BY <1>5, Places DEF BoundRuns, Releases, UnreserveEnds, BinderEnds,
                        BindCalls, Sequential, Parallel
  <2>. QED
    BY <1>2, <2>1, <2>2, <2>3 DEF Busy
<1>. QED
  BY <1>1, <1>3, <1>4, <1>5, StepKinds
-----------------------------------------------------------------------------
(* Nothing but the registration of a plugin without events goes on after a *)
(* panic.                                                                  *)
LEMMA PanicStops ==
  ASSUME Next, panicked
  PROVE  Register /\ ~Runs("enqueue") /\ UNCHANGED <<stage, panicked>>
<1>. USE DEF Lock, DoWithGuest, DoWithGuestReturns, DoWithSchedulingGuest,
             DoWithSchedulingGuestFails, DoWithSchedulingGuestReturns,
             BindingCallReturns, GetForBindingPanics, FreeFromBinding
<1>1. ASSUME SchedulerStep, ~Register
      PROVE  FALSE
  <2>1. \A c \in Caller, q \in Pod :
          ~DoWithSchedulingGuest(c, q) /\ ~DoWithSchedulingGuestFails(c, q)
            /\ ~AssociateForBinding(c, q) /\ ~RunForBinding(c, q)
    BY DEF AssociateForBinding, RunForBinding, GetForBinding
  <2>. QED
    BY <1>1, <2>1, ThreadsAreCallers, HandlersUsePool
       DEF SchedulerStep, StartCycle, SchedulerCalls, SchedulerReturns,
           SchedulingCallReturns, SchedulerFails, SchedulerPasses, WorkersDone,
           PermitEnds, UnreserveEnds, NormalizeScorePanics, SizeMismatch
<1>2. ASSUME NEW n \in Node, WorkerStep(n)
      PROVE  FALSE
  BY <1>2, ThreadsAreCallers, HandlersUsePool
     DEF WorkerStep, WorkerCallsPlugin, WorkerReturns, WorkerFails,
         SchedulingCallReturns
<1>3. ASSUME NEW p \in Pod, BinderStep(p)
      PROVE  FALSE
  <2>1. ~RunForBinding(p, p)
    BY DEF RunForBinding, GetForBinding
  <2>. QED
    BY <1>3, <2>1, ThreadsAreCallers, HandlersUsePool
       DEF BinderStep, PermitVerdict, BinderCalls, BinderReturns, BinderFails,
           BinderPasses, BinderEnds, BindingReturns, SchedulingCallReturns
<1>4. Register
  BY <1>1, <1>2, <1>3 DEF Next, SchedulerStep
<1>. QED
  BY <1>4 DEF Register, EventsToRegister, EventsToRegisterReturns,
              EventsToRegisterPanics, pluginVars, poolVars, cycleVars

LEMMA Panics ==
  ASSUME CycleInv, Next, ~panicked, panicked'
  PROVE  \/ Register /\ taken # NoGuest /\ ~registered'
         \/ \E p \in Pod :
              \/ NormalizeScorePanics(p)
              \/ stage[p] = "permitted" /\ GetForBindingPanics(Scheduler, p)
              \/ stage[p] \in BindCalls /\ GetForBindingPanics(p, p)
<1>. USE ThreadsAreCallers, HandlersUsePool
<1>1. ASSUME NEW c \in Caller, NEW p \in Pod,
             \/ DoWithSchedulingGuest(c, p) \/ DoWithSchedulingGuestFails(c, p)
             \/ DoWithSchedulingGuestReturns(c) \/ BindingCallReturns(c)
             \/ RunForBinding(c, p) \/ AssociateForBinding(c, p)
             \/ FreeFromBinding(c, p) \/ UNCHANGED poolVars
      PROVE  FALSE
  BY <1>1 DEF DoWithSchedulingGuest, DoWithSchedulingGuestFails,
              DoWithSchedulingGuestReturns, BindingCallReturns, RunForBinding,
              AssociateForBinding, GetForBinding, FreeFromBinding, poolVars
<1>2. CASE Register
  <2>1. EventsToRegisterPanics(Scheduler) /\ UNCHANGED cycleVars /\ ~registered
    BY <1>2 DEF Register, EventsToRegister, DoWithGuest,
                EventsToRegisterReturns, DoWithGuestReturns, pluginVars, poolVars
  <2>. QED
    BY <1>2, <2>1 DEF EventsToRegisterPanics, cycleVars
<1>3. ASSUME SchedulerStep, ~Register
      PROVE  \E q \in Pod :
               \/ NormalizeScorePanics(q)
               \/ stage[q] = "permitted" /\ GetForBindingPanics(Scheduler, q)
  <2>1. PICK q \in Pod :
          \/ StartCycle(q) \/ SchedulerCalls(q) \/ SchedulerReturns(q)
          \/ SchedulerFails(q) \/ SchedulerPasses(q) \/ WorkersDone(q)
          \/ PermitEnds(q) \/ UnreserveEnds(q) \/ NormalizeScorePanics(q)
    BY <1>3 DEF SchedulerStep
  <2>2. CASE StartCycle(q) \/ SchedulerPasses(q) \/ WorkersDone(q)
    BY <1>1, <2>2 DEF StartCycle, SchedulerPasses, WorkersDone, pluginVars
  <2>3. CASE \/ SchedulerCalls(q) \/ SchedulerReturns(q) \/ SchedulerFails(q)
             \/ UnreserveEnds(q)
    BY <1>1, <2>3 DEF SchedulerCalls, SchedulerReturns, SchedulingCallReturns,
                      SchedulerFails, UnreserveEnds
  <2>4. CASE PermitEnds(q)
    BY <1>1, <2>4 DEF PermitEnds
  <2>. QED
    BY <2>1, <2>2, <2>3, <2>4
<1>4. ASSUME NEW n \in Node, WorkerStep(n)
      PROVE  FALSE
  <2>1. \/ DoWithSchedulingGuestReturns(n)
        \/ \E p \in Pod : \/ DoWithSchedulingGuest(n, p)
                          \/ DoWithSchedulingGuestFails(n, p)
    BY <1>4 DEF WorkerStep, WorkerCallsPlugin, WorkerReturns, WorkerFails,
                SchedulingCallReturns
  <2>. QED
    BY <2>1 DEF DoWithSchedulingGuestReturns, DoWithSchedulingGuest,
                DoWithSchedulingGuestFails
<1>5. ASSUME NEW p \in Pod, BinderStep(p)
      PROVE  stage[p] \in BindCalls /\ GetForBindingPanics(p, p)
  <2>1. CASE PermitVerdict(p) \/ BinderPasses(p)
    BY <1>1, <2>1 DEF PermitVerdict, BinderPasses, pluginVars
  <2>2. CASE BinderCalls(p) \/ BinderReturns(p) \/ BinderEnds(p)
    BY <1>1, <2>2 DEF BinderCalls, BinderReturns, BinderEnds, BindingReturns,
                      SchedulingCallReturns
  <2>3. CASE BinderFails(p)
    BY <1>1, <2>3 DEF BinderFails
  <2>. QED
    BY <1>5, <2>1, <2>2, <2>3 DEF BinderStep
<1>. QED
  BY <1>2, <1>3, <1>4, <1>5 DEF Next

(* A panic is that of NormalizeScore or of EventsToRegister.               *)
PanicKnown ==
  panicked => \/ \E p \in Pod : stage[p] = "mismatched"
              \/ ~registered /\ Runs("enqueue")

LEMMA NextKeepsPanicKnown ==
  ASSUME CycleInv, HandOver, Busy, PanicKnown, Next
  PROVE  PanicKnown'
<1>1. CASE panicked
  <2>1. ~registered /\ ~Runs("enqueue") /\ \A p \in Pod : stage[p] = "queued"
    BY <1>1, PanicStops, RegisterWaits
  <2>. QED
    BY <1>1, <2>1 DEF PanicKnown
<1>2. CASE ~panicked /\ panicked'
  <2>1. ASSUME NEW p \in Pod, NormalizeScorePanics(p)
        PROVE  PanicKnown'
    BY <2>1 DEF NormalizeScorePanics, PanicKnown, cycleVars
  <2>2. ASSUME NEW p \in Pod, NEW c,
               stage[p] \in BindCalls \cup {"permitted"},
               GetForBindingPanics(c, p)
        PROVE  FALSE
    BY <2>2 DEF GetForBindingPanics, HandOver, Reset, SchedStages, BindStages,
                BindCalls
  <2>3. CASE taken # NoGuest /\ ~registered'
    BY <2>3 DEF Busy, PanicKnown
  <2>. QED
    BY <1>2, <2>1, <2>2, <2>3, Panics
<1>3. CASE ~panicked'
  BY <1>3 DEF PanicKnown
<1>. QED
  BY <1>1, <1>2, <1>3 DEF CycleInv, PoolInv, TypeOK

(* What the scheduling cycle guarantees to a guest with a prefilter and a  *)
(* permit export.                                                          *)
LEMMA SchedulingInvariant ==
  ASSUME Runs("prefilter"), Runs("permit")
  PROVE  Spec => [](HandOver /\ Busy /\ PanicKnown)
<1>1. Init => HandOver /\ Busy /\ PanicKnown
  <2>. SUFFICES ASSUME Init PROVE HandOver /\ Busy /\ PanicKnown
    OBVIOUS
  <2>1. HandOver
    BY DEF Init, HandOver, Reset, SchedStages, Sequential, Parallel,
           BindStages, BindCalls
  <2>2. Busy /\ PanicKnown
    BY ThreadsAreCallers DEF Init, PluginInit, PoolInit, Busy, PanicKnown
  <2>. QED
    BY <2>1, <2>2
<1>2. CycleInv /\ (HandOver /\ Busy /\ PanicKnown) /\ [Next]_vars
        => (HandOver /\ Busy /\ PanicKnown)'
  <2>1. HandOver /\ Busy /\ PanicKnown /\ UNCHANGED vars
          => (HandOver /\ Busy /\ PanicKnown)'
    BY DEF HandOver, Busy, PanicKnown, vars, pluginVars, poolVars, cycleVars
  <2>. QED
    BY <2>1, NextKeepsHandOver, NextKeepsBusy, NextKeepsPanicKnown
<1>. QED
  BY <1>1, <1>2, CycleInvariant, PTL DEF Spec

(* With a prefilter and a permit export getForBinding never meets a pod    *)
(* without a guest: once the plugin is registered, the panic of            *)
(* NormalizeScore is the only one, whatever fails.                         *)
THEOREM BindingAlwaysFindsAGuest ==
  ASSUME Runs("prefilter"), Runs("permit")
  PROVE  Spec => []NeverUnexpectedPod
<1>1. PanicKnown => NeverUnexpectedPod
  BY DEF PanicKnown, NeverUnexpectedPod
<1>. QED
  BY <1>1, SchedulingInvariant, PTL
-----------------------------------------------------------------------------
(* What guest g remembers is of the pod p and of this attempt: the pod it  *)
(* has cached, if any, was read in this cycle, for p or by the Unreserve   *)
(* of another pod.                                                         *)
Remembers(g, p) ==
  /\ memory[g].cycle = Object(p)
  /\ memory[g].pod # NoObject =>
       /\ memory[g].reader.cycle = Object(p)
       /\ \/ memory[g].pod = Object(p)
          \/ memory[g].reader.unreserve /\ memory[g].pod.uid # p

(* PreFilter has reset the scheduled guest for p, or is doing so.          *)
IsReset(p) ==
  \/ stage[p] \in Reset
  \/ stage[p] = "prefilter" /\ running[Scheduler] # NoGuest

Coherent ==
  ~runtimeClosed => \A p \in Pod :
    /\ IsReset(p) => Remembers(scheduled, p)
    /\ stage[p] \in BindStages => Remembers(binding[p], p)

LEMMA OnlyTried ==
  ASSUME CycleInv, Next
  PROVE  \/ UNCHANGED attempt
         \/ \E p \in Pod : StartCycle(p)
<1>1. ASSUME NEW p \in Pod, Moves(p), ~StartCycle(p)
      PROVE  UNCHANGED attempt
  <2>1. ASSUME NEW s, Proceed(p, s)
        PROVE  UNCHANGED attempt
    BY <2>1 DEF Proceed
  <2>. QED
    BY <1>1, <2>1
       DEF Moves, SchedulerReturns, SchedulerFails, SchedulerPasses,
           WorkersDone, PermitEnds, UnreserveEnds, PermitVerdict,
           BinderReturns, BinderFails, BinderPasses, BinderEnds, cycleVars
<1>2. ASSUME NEW p \in Pod,
             SchedulerCalls(p) \/ NormalizeScorePanics(p) \/ BinderCalls(p)
      PROVE  UNCHANGED attempt
  BY <1>2 DEF SchedulerCalls, NormalizeScorePanics, BinderCalls, cycleVars
<1>3. ASSUME NEW n \in Node, WorkerStep(n)
      PROVE  UNCHANGED attempt
  BY <1>3 DEF WorkerStep, WorkerCallsPlugin, WorkerReturns, WorkerFails, cycleVars
<1>4. CASE Register
  BY <1>4 DEF Register, cycleVars
<1>. QED
  BY <1>1, <1>2, <1>3, <1>4 DEF Next, SchedulerStep, BinderStep, Moves

(* The guest a step runs, and what that does to the memories.              *)
LEMMA ScheduledWrites ==
  ASSUME CycleInv, CycleInv', MemoryInv, NEW c \in Caller, NEW p \in Pod,
         NEW op, ScheduledRuns(c, op, p)
  PROVE  /\ memory' \in [Guest' -> Cell] /\ UNCHANGED attempt
         /\ \A g \in Guest : g # scheduled' => memory'[g] = memory[g]
         /\ scheduled # NoGuest => scheduled \in Guest
         /\ ~runtimeClosed => memory'[scheduled']
                                \in MemoryAfter(MemoryOf(scheduled'), op, Object(p))
         /\ runtimeClosed => runtimeClosed'
<1>1. /\ DoWithSchedulingGuest(c, p) /\ GuestRuns(scheduled', op, Object(p))
      /\ UNCHANGED attempt
  BY ObjectUID DEF ScheduledRuns, SchedulingCall, cycleVars
<1>2. /\ instanceCounter' \in Nat /\ instanceCounter <= instanceCounter'
      /\ scheduled' \in Guest' /\ scheduled \in Guest \cup {NoGuest}
      /\ runtimeClosed' = runtimeClosed
  BY <1>1, Places
     DEF DoWithSchedulingGuest, NewGuest, CycleInv, PoolInv, TypeOK
<1>. QED
  BY <1>1, <1>2, WrittenMemory DEF CycleInv

LEMMA BoundWrites ==
  ASSUME CycleInv, CycleInv', MemoryInv, NEW p \in Pod, BoundRuns(p)
  PROVE  /\ memory' \in [Guest' -> Cell]
         /\ UNCHANGED <<attempt, runtimeClosed, instanceCounter>>
         /\ \A g \in Guest : g # binding'[p] => memory'[g] = memory[g]
         /\ ~runtimeClosed => memory'[binding'[p]]
                   \in MemoryAfter(MemoryOf(binding'[p]), stage[p], Object(p))
<1>1. /\ RunForBinding(p, p) /\ GuestRuns(running'[p], stage[p], Object(p))
      /\ UNCHANGED attempt
  BY ObjectUID DEF BoundRuns, BindingCall, cycleVars
<1>2. /\ running'[p] = binding'[p] /\ binding'[p] \in Guest'
      /\ UNCHANGED <<runtimeClosed, instanceCounter>>
      /\ instanceCounter \in Nat
  BY <1>1, Places, ThreadsAreCallers
     DEF RunForBinding, GetForBinding, CycleInv, PoolInv, TypeOK
<1>. QED
  BY <1>1, <1>2, WrittenMemory DEF CycleInv

LEMMA NextKeepsMemoryInv ==
  ASSUME CycleInv, CycleInv', MemoryInv, Next
  PROVE  MemoryInv'
<1>1. attempt' \in [Pod -> Nat]
  BY OnlyTried DEF MemoryInv, StartCycle
<1>2. memory' \in [Guest' -> Cell]
  <2>1. CASE Register
    <3>1. CASE EventsToRegister(Scheduler)
      <4>1. /\ instanceCounter' \in Nat
            /\ memory' = [i \in 1..instanceCounter' |-> MemoryOf(i)]
        BY <3>1 DEF EventsToRegister, CycleInv, PoolInv, TypeOK
      <4>2. \A i \in 1..instanceCounter' : MemoryOf(i) \in Cell
        BY <4>1, CellsAreCells DEF CycleInv
      <4>. QED
        BY <4>1, <4>2 DEF Guest
    <3>2. CASE ~EventsToRegister(Scheduler)
      <4>1. UNCHANGED <<memory, instanceCounter>>
        BY <2>1, <3>2 DEF Register, EventsToRegisterReturns,
                          DoWithGuestReturns, EventsToRegisterPanics,
                          pluginVars, poolVars
      <4>. QED
        BY <4>1 DEF MemoryInv, Guest
    <3>. QED
      BY <3>1, <3>2
  <2>2. CASE Quiet
    BY <2>2 DEF Quiet, MemoryInv, Guest
  <2>3. ASSUME NEW p \in Pod, Associates(p) \/ Releases(p)
        PROVE  UNCHANGED <<memory, instanceCounter>>
    BY <2>3, HandlersUsePool, ThreadsAreCallers
       DEF Associates, PermitAssociates, AssociateForBinding, GetForBinding,
           Releases, ReleaseGuest, FreeFromBinding
  <2>. QED
    BY <2>1, <2>2, <2>3, StepKinds, ScheduledWrites, BoundWrites
       DEF MemoryInv, Guest
<1>. QED
  BY <1>1, <1>2 DEF MemoryInv

(* A call for p, or an Unreserve of another pod q, leaves what the guest   *)
(* remembers of p, and the prefilter call makes it remember.               *)
LEMMA Rewritten ==
  ASSUME MemoryInv, MemoryInv', NEW g \in Guest, NEW op, NEW p \in Pod, NEW q \in Pod,
         UNCHANGED attempt, p = q \/ op = "unreserve",
         memory'[g] \in MemoryAfter(memory[g], op, Object(q)),
         op = "prefilter" \/ Remembers(g, p)
  PROVE  Remembers(g, p)'
<1>1. /\ memory[g] \in Cell /\ Object(p)' = Object(p)
      /\ Object(q).uid = q
  BY DEF MemoryInv, Object
<1>. DEFINE after == memory'[g]
<1>2. /\ op = "prefilter" =>
           /\ after.cycle = Object(q)
           /\ \/ after.pod = NoObject
              \/ after.pod = Object(q) /\ after.reader.cycle = Object(q)
      /\ op # "prefilter" =>
           /\ after.cycle = memory[g].cycle
           /\ \/ after.pod = memory[g].pod /\ after.reader = memory[g].reader
              \/ /\ after.pod = Object(q) /\ after.reader.cycle = memory[g].cycle
                 /\ op = "unreserve" => after.reader.unreserve
  BY <1>1, AfterOp
<1>3. Remembers(g, p)' <=>
        /\ after.cycle = Object(p)
        /\ after.pod # NoObject =>
             /\ after.reader.cycle = Object(p)
             /\ \/ after.pod = Object(p)
                \/ after.reader.unreserve /\ after.pod.uid # p
  BY <1>1 DEF Remembers
<1>. HIDE DEF after
<1>4. CASE op = "prefilter"
  BY <1>2, <1>3, <1>4
<1>5. CASE op # "prefilter" /\ Remembers(g, p)
  BY <1>1, <1>2, <1>3, <1>5 DEF Remembers
<1>. QED
  BY <1>4, <1>5

LEMMA NextKeepsCoherent ==
  ASSUME CycleInv, CycleInv', HandOver, HandOver', Busy, GuestsHeld,
         MemoryInv, MemoryInv', Coherent, Next,
         Runs("prefilter"), Runs("permit")
  PROVE  Coherent'
<1>. SUFFICES ASSUME ~runtimeClosed', NEW p \in Pod
              PROVE  /\ IsReset(p)' => Remembers(scheduled, p)'
                     /\ stage'[p] \in BindStages => Remembers(binding[p], p)'
  BY DEF Coherent
<1>. DEFINE Goal == /\ IsReset(p)' => Remembers(scheduled, p)'
                    /\ stage'[p] \in BindStages => Remembers(binding[p], p)'
<1>0. /\ scheduled \in Guest \cup {NoGuest} /\ binding \in [Pod -> Guest \cup {NoGuest}]
      /\ \A q \in Pod : q \in Caller
      /\ Scheduler \in Caller /\ NoCaller \notin Caller
      /\ stage[p] \in SchedStages => stage[p] # "queued" /\ registered
  BY ThreadsAreCallers, CallerAssumption
     DEF CycleInv, PoolInv, TypeOK, HandOver, SchedStages, Sequential, Parallel
<1>1. running[Scheduler] # NoGuest => mux = Scheduler
  BY DEF CycleInv, Threads
<1>2. CASE Register
  BY <1>2, RegisterWaits
     DEF IsReset, Reset, SchedStages, Sequential, Parallel, BindStages, BindCalls
<1>3. CASE Quiet /\ ~\E q \in Pod : Associates(q)
  <2>1. /\ UNCHANGED <<scheduled, binding, memory>> /\ ~runtimeClosed
        /\ running'[Scheduler] # NoGuest => running[Scheduler] # NoGuest
    BY <1>0, <1>3 DEF Quiet
  <2>2. CASE StartCycle(p)
    <3>1. stage'[p] = "prefilter"
      BY <2>2, StageMoves DEF StartCycle
    <3>2. running'[Scheduler] = NoGuest
      BY <2>2 DEF StartCycle, Busy, SchedStages, pluginVars, poolVars
    <3>. QED
      BY <3>1, <3>2 DEF IsReset, Reset, BindStages, BindCalls
  <2>3. CASE ~StartCycle(p)
    <3>1. Object(p)' = Object(p)
      BY <2>3, OnlyTried DEF StartCycle, Object, MemoryInv
    <3>2. \A g : Remembers(g, p) => Remembers(g, p)'
      BY <2>1, <3>1 DEF Remembers
    <3>3. IsReset(p)' => IsReset(p)
      <4>1. SchedulerReturns(p) => running[Scheduler] # NoGuest
        BY <1>0, CallerAssumption
           DEF SchedulerReturns, SchedulingCallReturns,
               DoWithSchedulingGuestReturns, CycleInv, PoolInv, LockHolderRuns
      <4>. QED
        BY <2>1, <2>3, <4>1, OnlyMoved, Enters DEF IsReset
    <3>4. stage'[p] \in BindStages => stage[p] \in BindStages
      BY <1>3, OnlyMoved, Enters
    <3>. QED
      BY <2>1, <3>2, <3>3, <3>4 DEF Coherent
  <2>. QED
    BY <2>2, <2>3
<1>4. ASSUME NEW c \in Caller, NEW q \in Pod, NEW op, ScheduledRuns(c, op, q)
      PROVE  Goal
  <2>1. /\ UNCHANGED <<binding, stage, attempt>> /\ mux = NoCaller
        /\ scheduled # NoGuest => scheduled' = scheduled /\ scheduled \in Guest
        /\ scheduled' \in Guest' /\ scheduled' # NoGuest /\ ~runtimeClosed
    BY <1>0, <1>4, Places, ScheduledWrites DEF CycleInv, PoolInv, TypeOK
  <2>2. /\ \A g \in Guest : g # scheduled' => memory'[g] = memory[g]
        /\ memory'[scheduled'] \in MemoryAfter(MemoryOf(scheduled'), op, Object(q))
    BY <1>4, <2>1, ScheduledWrites
  <2>3. ASSUME stage[p] \in Reset
        PROVE  Remembers(scheduled, p)'
    <3>1. scheduled' = scheduled /\ scheduled \in Guest
      BY <2>1, <2>3 DEF HandOver
    <3>2. MemoryOf(scheduled) = memory[scheduled]
      BY <3>1, CellsAreCells DEF CycleInv, PoolInv, TypeOK, Guest
    <3>3. p = q \/ op = "unreserve"
      BY <1>4, <2>3
         DEF ScheduledRuns, HandOver, Reset, SchedStages
    <3>4. Remembers(scheduled, p)
      BY <2>1, <2>3 DEF Coherent, IsReset
    <3>. QED
      BY <2>1, <2>2, <3>1, <3>2, <3>3, <3>4, Rewritten DEF Remembers
  <2>4. ASSUME stage[p] = "prefilter", running'[Scheduler] # NoGuest
        PROVE  Remembers(scheduled, p)'
    <3>1. c = Scheduler
      <4>1. running' = [running EXCEPT ![c] = scheduled']
        BY <1>4 DEF ScheduledRuns, SchedulingCall, DoWithSchedulingGuest,
                    RunLocked
      <4>2. running[Scheduler] = NoGuest
        BY <1>0, <1>1, <2>1
      <4>. QED
        BY <1>0, <2>4, <4>1, <4>2 DEF CycleInv, PoolInv, TypeOK
    <3>2. q = p /\ op = "prefilter"
      <4>1. stage[q] \in Sequential /\ op = CalledIn(stage[q])
        BY <1>4, <3>1, ThreadsAreCallers DEF ScheduledRuns
      <4>. QED
        BY <2>4, <4>1 DEF HandOver, SchedStages, Sequential, CalledIn
    <3>3. MemoryOf(scheduled') \in Cell
      BY <2>1, CellsAreCells DEF CycleInv, PoolInv, TypeOK, Guest
    <3>4. Object(p)' = Object(p)
      BY <2>1 DEF Object
    <3>5. /\ memory'[scheduled'].cycle = Object(p)
          /\ \/ memory'[scheduled'].pod = NoObject
             \/ /\ memory'[scheduled'].pod = Object(p)
                /\ memory'[scheduled'].reader.cycle = Object(p)
      BY <2>2, <3>2, <3>3, AfterOp
    <3>. QED
      BY <3>4, <3>5 DEF Remembers
  <2>5. ASSUME stage[p] \in BindStages
        PROVE  Remembers(binding[p], p)'
    <3>1. binding[p] \in Guest /\ binding[p] # scheduled'
      BY <1>0, <2>1, <2>5
         DEF HandOver, CycleInv, PoolInv, OnePlace, IsBound
    <3>2. memory'[binding[p]] = memory[binding[p]]
      BY <2>2, <3>1
    <3>3. Object(p)' = Object(p)
      BY <2>1 DEF Object
    <3>. QED
      BY <2>1, <2>5, <3>2, <3>3 DEF Coherent, Remembers
  <2>. QED
    BY <2>1, <2>3, <2>4, <2>5 DEF IsReset
<1>5. ASSUME NEW q \in Pod, BoundRuns(q)
      PROVE  Goal
  <2>1. /\ stage[q] \in BindCalls /\ binding[q] # NoGuest
        /\ UNCHANGED <<scheduled, binding, stage, attempt>> /\ mux = NoCaller
        /\ ~runtimeClosed
    BY <1>5, Places, BoundWrites DEF BoundRuns, HandOver, BindStages
  <2>2. /\ \A g \in Guest : g # binding[q] => memory'[g] = memory[g]
        /\ memory'[binding[q]]
             \in MemoryAfter(MemoryOf(binding[q]), stage[q], Object(q))
    BY <1>5, <2>1, BoundWrites
  <2>3. Object(p)' = Object(p)
    BY <2>1 DEF Object
  <2>4. ASSUME IsReset(p)'
        PROVE  Remembers(scheduled, p)'
    <3>1. stage[p] \in Reset
      BY <1>0, <1>1, <1>5, <2>1, <2>4, ThreadsAreCallers, ObjectUID
         DEF IsReset, BoundRuns, BindingCall, RunForBinding, CycleInv, PoolInv,
             TypeOK
    <3>2. scheduled \in Guest /\ scheduled # binding[q]
      BY <1>0, <2>1, <3>1 DEF HandOver, CycleInv, PoolInv, OnePlace, IsBound
    <3>. QED
      BY <2>1, <2>2, <2>3, <3>1, <3>2 DEF Coherent, IsReset, Remembers
  <2>5. ASSUME stage[p] \in BindStages
        PROVE  Remembers(binding[p], p)'
    <3>1. binding[p] \in Guest /\ Remembers(binding[p], p)
      BY <1>0, <2>1, <2>5 DEF HandOver, Coherent
    <3>2. CASE p = q
      <4>1. MemoryOf(binding[p]) = memory[binding[p]]
        BY <3>1, CellsAreCells DEF CycleInv, PoolInv, TypeOK, Guest
      <4>. QED
        BY <2>1, <2>2, <3>1, <3>2, <4>1, Rewritten DEF Remembers
    <3>3. CASE p # q
      <4>1. binding[p] # binding[q]
        BY <2>1, <3>1, <3>3 DEF CycleInv, PoolInv, OnePlace
      <4>. QED
        BY <2>1, <2>2, <2>3, <3>1, <4>1 DEF Remembers
    <3>. QED
      BY <3>2, <3>3
  <2>. QED
    BY <2>1, <2>4, <2>5
<1>6. ASSUME NEW q \in Pod, Associates(q)
      PROVE  Goal
  <2>1. /\ stage[q] = "permitted" /\ stage'[q] \in {"waiting", "unreserve"}
        /\ \A r \in Pod \ {q} : UNCHANGED <<stage[r], binding[r]>>
    BY <1>6, Places
  <2>2. binding[q] = NoGuest
    BY <2>1 DEF GuestsHeld, Holding, BindStages, BindCalls
  <2>3. /\ binding'[q] = scheduled /\ ~runtimeClosed
        /\ UNCHANGED <<memory, attempt>>
    BY <1>0, <1>6, <2>2, HandlersUsePool
       DEF Associates, PermitEnds, PermitAssociates, AssociateForBinding,
           GetForBinding
  <2>4. \A g : Remembers(g, p) => Remembers(g, p)'
    BY <2>3 DEF Remembers, Object
  <2>5. ~IsReset(p)'
    <3>1. CASE p = q
      BY <2>1, <3>1 DEF IsReset, Reset, SchedStages, Sequential, Parallel
    <3>2. CASE p # q
      BY <2>1, <3>2 DEF HandOver, IsReset, Reset, SchedStages, Sequential
    <3>. QED
      BY <3>1, <3>2
  <2>6. CASE p = q
    <3>1. Remembers(scheduled, p)
      BY <2>1, <2>3, <2>6
         DEF Coherent, IsReset, Reset, SchedStages
    <3>. QED
      BY <2>3, <2>4, <2>5, <2>6, <3>1 DEF Remembers
  <2>7. CASE p # q
    BY <2>1, <2>3, <2>4, <2>5, <2>7 DEF Coherent, Remembers
  <2>. QED
    BY <2>6, <2>7
<1>7. ASSUME NEW q \in Pod, Releases(q)
      PROVE  Goal
  <2>1. /\ stage'[q] \in {"queued", "bound"} /\ UNCHANGED scheduled
        /\ \A r \in Pod \ {q} : UNCHANGED <<stage[r], binding[r]>>
    BY <1>7, Places
  <2>2. UNCHANGED <<memory, attempt, runtimeClosed, running>>
    BY <1>0, <1>7, HandlersUsePool
       DEF Releases, ReleaseGuest, FreeFromBinding, UnreserveEnds, BinderEnds,
           Proceed
  <2>3. \A g : Remembers(g, p) => Remembers(g, p)'
    BY <2>2 DEF Remembers, Object
  <2>4. CASE p = q
    BY <2>1, <2>4 DEF IsReset, Reset, SchedStages, Sequential, Parallel,
                      BindStages, BindCalls
  <2>5. CASE p # q
    BY <2>1, <2>2, <2>3, <2>5 DEF Coherent, IsReset, Remembers
  <2>. QED
    BY <2>4, <2>5
<1>. QED
  BY <1>2, <1>3, <1>4, <1>5, <1>6, <1>7, StepKinds

LEMMA MemoryInvariant == Spec => []MemoryInv
<1>1. Init => MemoryInv
  <2>1. NewMemory \in Cell
    BY NewCell
  <2>2. Init => memory = [i \in 1..1 |-> NewMemory] /\ Guest = 1..1
    BY DEF Init, PluginInit, PoolInit, Guest
  <2>. QED
    BY <2>1, <2>2 DEF Init, MemoryInv
<1>2. CycleInv /\ CycleInv' /\ MemoryInv /\ [Next]_vars => MemoryInv'
  <2>1. MemoryInv /\ UNCHANGED vars => MemoryInv'
    BY DEF MemoryInv, Guest, vars, pluginVars, poolVars, cycleVars
  <2>. QED
    BY <2>1, NextKeepsMemoryInv
<1>. QED
  BY <1>1, <1>2, CycleInvariant, PTL DEF Spec

(* The types of the variables that only this module has.                   *)
OwnTypes ==
  /\ registered \in BOOLEAN
  /\ attempt \in [Pod -> 0..MaxAttempts]
  /\ todo \in [Node -> Seq(AllOps)]

LEMMA WorkerCallsAreCalls ==
  ASSUME NEW s
  PROVE  WorkerCalls(s) \in Seq(AllOps)
<1>1. \A op \in AllOps : IfReached(op) \in Seq(AllOps)
  BY DEF IfReached
<1>2. {"addpod", "removepod", "filter", "score"} \subseteq AllOps
  BY DEF AllOps, InterfaceOf
<1>3. \A a, b \in Seq(AllOps) : a \o b \in Seq(AllOps)
  OBVIOUS
<1>. HIDE DEF AllOps
<1>4. CASE s = "filter"
  BY <1>1, <1>2, <1>3, <1>4 DEF WorkerCalls
<1>5. CASE s = "preempt"
  BY <1>1, <1>2, <1>3, <1>5 DEF WorkerCalls
<1>6. CASE s = "score"
  BY <1>1, <1>2, <1>6 DEF WorkerCalls
<1>7. CASE s \notin {"filter", "preempt", "score"}
  BY <1>7 DEF WorkerCalls
<1>. QED
  BY <1>4, <1>5, <1>6, <1>7

LEMMA NextKeepsOwnTypes ==
  ASSUME CycleInv, OwnTypes, Next
  PROVE  OwnTypes'
<1>1. registered' \in BOOLEAN
  BY RegistersOnly DEF OwnTypes, Register, cycleVars
<1>2. attempt' \in [Pod -> 0..MaxAttempts]
  <2>1. ASSUME NEW p \in Pod, StartCycle(p)
        PROVE  attempt' \in [Pod -> 0..MaxAttempts]
    BY <2>1, MaxAttemptsAssumption DEF OwnTypes, StartCycle
  <2>. QED
    BY <2>1, OnlyTried DEF OwnTypes
<1>3. todo' \in [Node -> Seq(AllOps)]
  <2>1. ASSUME NEW p \in Pod, NEW s, Schedule(p, s)
        PROVE  todo' \in [Node -> Seq(AllOps)]
    BY <2>1, WorkerCallsAreCalls DEF Schedule
  <2>2. CASE UNCHANGED todo
    BY <2>2 DEF OwnTypes
  <2>3. ASSUME NEW p \in Pod, Moves(p)
        PROVE  UNCHANGED todo \/ \E s : Schedule(p, s)
    <3>1. CASE StartCycle(p) \/ SchedulerReturns(p) \/ SchedulerFails(p)
                 \/ SchedulerPasses(p) \/ WorkersDone(p) \/ PermitEnds(p)
                 \/ UnreserveEnds(p)
      BY <3>1 DEF StartCycle, SchedulerReturns, SchedulerFails,
                  SchedulerPasses, WorkersDone, PermitEnds, UnreserveEnds
    <3>2. CASE PermitVerdict(p) \/ BinderReturns(p) \/ BinderFails(p)
                 \/ BinderPasses(p) \/ BinderEnds(p)
      BY <3>2 DEF PermitVerdict, BinderReturns, BinderFails, BinderPasses,
                  BinderEnds, Proceed, cycleVars
    <3>. QED
      BY <2>3, <3>1, <3>2 DEF Moves
  <2>4. ASSUME NEW p \in Pod,
               SchedulerCalls(p) \/ NormalizeScorePanics(p) \/ BinderCalls(p)
        PROVE  UNCHANGED todo
    BY <2>4 DEF SchedulerCalls, NormalizeScorePanics, BinderCalls, cycleVars
  <2>5. CASE Register
    BY <2>2, <2>5 DEF Register, cycleVars
  <2>6. ASSUME NEW n \in Node, WorkerStep(n)
        PROVE  todo' \in [Node -> Seq(AllOps)]
    <3>1. \/ UNCHANGED todo
          \/ todo[n] # <<>> /\ todo' = [todo EXCEPT ![n] = Tail(@)]
      BY <2>6 DEF WorkerStep, WorkerReturns, WorkerFails, WorkerCallsPlugin,
                  cycleVars
    <3>2. todo[n] # <<>> => Tail(todo[n]) \in Seq(AllOps)
      BY DEF OwnTypes
    <3>. QED
      BY <3>1, <3>2 DEF OwnTypes
  <2>. QED
    BY <2>1, <2>2, <2>3, <2>4, <2>5, <2>6
       DEF Next, SchedulerStep, BinderStep, Moves
<1>. QED
  BY <1>1, <1>2, <1>3 DEF OwnTypes

(* Type correctness, for every set of exports and every fault.             *)
THEOREM CycleTypes == Spec => []CycleTypeOK
<1>1. Init => OwnTypes
  <2>. SUFFICES ASSUME Init PROVE OwnTypes
    OBVIOUS
  <2>1. <<>> \in Seq(AllOps)
    OBVIOUS
  <2>2. todo \in [Node -> Seq(AllOps)]
    BY <2>1 DEF Init
  <2>3. attempt \in [Pod -> 0..MaxAttempts]
    BY MaxAttemptsAssumption DEF Init
  <2>. QED
    BY <2>2, <2>3 DEF Init, OwnTypes
<1>2. CycleInv /\ OwnTypes /\ [Next]_vars => OwnTypes'
  <2>1. OwnTypes /\ UNCHANGED vars => OwnTypes'
    BY DEF OwnTypes, vars, cycleVars
  <2>. QED
    BY <2>1, NextKeepsOwnTypes
<1>3. CycleInv /\ MemoryInv /\ OwnTypes => CycleTypeOK
  <2>. SUFFICES ASSUME CycleInv, MemoryInv, OwnTypes PROVE CycleTypeOK
    OBVIOUS
  <2>1. Len(memory) = instanceCounter
    BY LengthOf DEF CycleInv, PoolInv, TypeOK, MemoryInv, Guest
  <2>2. \A g \in Guest : /\ memory[g].cycle.uid \in Pod \cup {NoPod}
                         /\ memory[g].pod.uid \in Pod \cup {NoPod}
    BY DEF MemoryInv, Cell, Objects
  <2>. QED
    BY <2>1, <2>2 DEF CycleInv, OwnTypes, CycleTypeOK
<1>. QED
  BY <1>1, <1>2, <1>3, CycleInvariant, MemoryInvariant, PTL DEF Spec

LEMMA CoherenceInvariant ==
  ASSUME Runs("prefilter"), Runs("permit"), Runs("unreserve")
  PROVE  Spec => []Coherent
<1>. DEFINE Known == CycleInv /\ GuestsHeld /\ HandOver /\ Busy /\ MemoryInv
<1>1. Init => Coherent
  BY DEF Init, Coherent, IsReset, Reset, SchedStages, Sequential, Parallel,
         BindStages, BindCalls
<1>2. Known /\ Known' /\ Coherent /\ [Next]_vars => Coherent'
  <2>1. Coherent /\ UNCHANGED vars => Coherent'
    BY DEF Coherent, IsReset, Remembers, Object, vars, pluginVars, poolVars,
           cycleVars
  <2>. QED
    BY <2>1, NextKeepsCoherent
<1>3. Spec => []Known
  BY CycleInvariant, GuestsAreHeld, SchedulingInvariant, MemoryInvariant, PTL
<1>. QED
  BY <1>1, <1>2, <1>3, PTL DEF Spec

(* Which guest serves p, by the stage p is in.                             *)
LEMMA ServedByItsGuest ==
  ASSUME CycleInv, HandOver, Busy, Coherent, NEW p \in Pod, NEW g \in Guest,
         Serves(g, p)
  PROVE  Remembers(g, p)
<1>0. /\ g # NoGuest /\ ~runtimeClosed
      /\ \A n \in Node : n \in Caller
      /\ Scheduler \in Caller /\ NoCaller \notin Caller
  BY ThreadsAreCallers, CallerAssumption
     DEF Serves, Guest, NoGuest, CycleInv, PoolInv, TypeOK
<1>1. CASE stage[p] \in BindCalls /\ running[p] = g
  <2>1. running[p] = binding[p]
    BY <1>0, <1>1 DEF CycleInv, Threads, BindCalls
  <2>. QED
    BY <1>0, <1>1, <2>1 DEF Coherent, BindStages
<1>2. ASSUME NEW c \in {Scheduler} \cup Node, running[c] = g,
             stage[p] \in SchedStages \ {"unreserve", "rejected"}
      PROVE  Remembers(g, p)
  <2>1. registered /\ taken = NoGuest
    BY <1>2 DEF HandOver, Busy, SchedStages, Sequential, Parallel
  <2>2. g = scheduled
    BY <1>0, <1>2, <2>1 DEF CycleInv, Threads, PoolInv, LockHolderRuns
  <2>3. IsReset(p)
    <3>1. CASE c = Scheduler
      <4>1. \E q \in Pod : stage[q] \in Sequential
        BY <1>0, <1>2, <2>1, <3>1 DEF Busy
      <4>2. stage[p] \in Sequential
        BY <1>2, <4>1 DEF HandOver, SchedStages
      <4>. QED
        BY <1>0, <1>2, <3>1, <4>2 DEF IsReset, Reset, Sequential
    <3>2. CASE c \in Node
      <4>1. \E q \in Pod : stage[q] \in Parallel
        BY <1>0, <1>2, <3>2 DEF Busy
      <4>2. stage[p] \in Parallel
        BY <1>2, <4>1 DEF HandOver, SchedStages
      <4>. QED
        BY <4>2 DEF IsReset, Reset, SchedStages, Parallel
    <3>. QED
      BY <3>1, <3>2
  <2>. QED
    BY <1>0, <2>2, <2>3 DEF Coherent
<1>. QED
  BY <1>1, <1>2 DEF Serves

(* With prefilter, permit and unreserve exports every handler but          *)
(* Unreserve, and but PostFilter in an attempt whose PreFilter was not     *)
(* called, runs on the guest whose cycle state was reset for this attempt  *)
(* of its pod, whatever else the guest exports and however many pods are   *)
(* bound meanwhile.                                                        *)
THEOREM CycleStateIsOfThePod ==
  ASSUME Runs("prefilter"), Runs("permit"), Runs("unreserve")
  PROVE  Spec => []CycleCoherent
<1>1. CycleInv /\ HandOver /\ Busy /\ Coherent => CycleCoherent
  BY ServedByItsGuest DEF CycleCoherent, Remembers
<1>. QED
  BY <1>1, CycleInvariant, SchedulingInvariant, CoherenceInvariant, PTL

(* Under the same exports and for the same handlers, the pod a guest has   *)
(* cached was read since PreFilter of this attempt, and is the pod the     *)
(* guest runs for, or the one another pod's Unreserve has read since then; *)
(* never one left from before.                                             *)
THEOREM CachedPodIsOfTheCycle ==
  ASSUME Runs("prefilter"), Runs("permit"), Runs("unreserve")
  PROVE  Spec => []PodCoherent
<1>1. CycleInv /\ HandOver /\ Busy /\ Coherent => PodCoherent
  BY ServedByItsGuest DEF PodCoherent, Remembers
<1>. QED
  BY <1>1, CycleInvariant, SchedulingInvariant, CoherenceInvariant, PTL
=============================================================================
