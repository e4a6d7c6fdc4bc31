------------------------------ MODULE GuestPool ------------------------------
(***************************************************************************)
(* The pool of wasm guests of scheduler/plugin/pool.go: which guest the    *)
(* scheduling cycle uses, which guest each binding cycle keeps, and which  *)
(* guests are free.                                                        *)
(*                                                                         *)
(* A guest is named by its instance number (guest.go:83), a caller is a    *)
(* goroutine of kube-scheduler.  doWithGuest and doWithSchedulingGuest     *)
(* hold mux while the guest runs, so each is two actions: one takes the    *)
(* lock, the guest and starts the call, the other returns and unlocks.     *)
(* getForBinding and freeFromBinding are single critical sections; the     *)
(* guest getForBinding returns is then run WITHOUT the lock, until         *)
(* BindingCallReturns.                                                     *)
(***************************************************************************)
EXTENDS Naturals, Sequences, FiniteSets

CONSTANTS
  Caller,     \* the goroutines that call the plugin
  Pod,        \* the UIDs of the pods
  NoCaller,   \* mux is not held
  NoPod       \* the empty UID

ASSUME CallerAssumption == NoCaller \notin Caller
ASSUME PodAssumption    == NoPod \notin Pod
ASSUME PodFinite        == IsFiniteSet(Pod)
ASSUME PodNotARole ==        \* the abstract owners that are not pods
  \A r \in {"free", "scheduling", "starting"} : r \notin Pod

VARIABLES
  mux,              \* the caller that holds guestPool.mux, or NoCaller
  scheduledPodUID,  \* guestPool.scheduledPodUID
  scheduled,        \* guestPool.scheduled, NoGuest is Go's zero guest
  binding,          \* guestPool.binding, NoGuest for a pod with no entry
  free,             \* guestPool.free
  taken,            \* the local g of doWithGuest while fn(g) runs
  running,          \* the guest each caller is executing an export of
  instanceCounter,  \* the number of guests instantiated so far
  runtimeClosed,    \* the wazero runtime was closed (guest.go:96)
  panicked          \* the process died of a Go panic

poolVars == <<mux, scheduledPodUID, scheduled, binding, free, taken, running,
              instanceCounter, runtimeClosed, panicked>>

NoGuest == 0
Guest   == 1..instanceCounter

TypeOK ==
  /\ mux \in Caller \cup {NoCaller}
  /\ scheduledPodUID \in Pod \cup {NoPod}
  /\ scheduled \in Guest \cup {NoGuest}
  /\ binding \in [Pod -> Guest \cup {NoGuest}]
  /\ free \in Seq(Guest)
  /\ taken \in Guest \cup {NoGuest}
  /\ running \in [Caller -> Guest \cup {NoGuest}]
  /\ instanceCounter \in Nat \ {0}
  /\ runtimeClosed \in BOOLEAN
  /\ panicked \in BOOLEAN

(* newGuestPool eagerly adds one instance.                                 *)
PoolInit ==
  /\ mux = NoCaller
  /\ scheduledPodUID = NoPod
  /\ scheduled = NoGuest
  /\ binding = [p \in Pod |-> NoGuest]
  /\ free = <<1>>
  /\ taken = NoGuest
  /\ running = [c \in Caller |-> NoGuest]
  /\ instanceCounter = 1
  /\ runtimeClosed = FALSE
  /\ panicked = FALSE

(***************************************************************************)
(* Instantiation.  An instantiation error closes the whole runtime, after  *)
(* which no other guest can be instantiated.                               *)
(***************************************************************************)
NewGuest ==
  /\ ~runtimeClosed
  /\ instanceCounter' = instanceCounter + 1
  /\ UNCHANGED runtimeClosed

NewGuestFails ==
  /\ runtimeClosed' = TRUE
  /\ UNCHANGED instanceCounter

(* Caller c enters mux; it is not already executing a guest.               *)
Lock(c) ==
  /\ ~panicked
  /\ mux = NoCaller
  /\ running[c] = NoGuest

(* Caller c executes an export of g and keeps the lock meanwhile.          *)
RunLocked(c, g) ==
  /\ mux' = c
  /\ running' = [running EXCEPT ![c] = g]

(***************************************************************************)
(* doWithGuest: prefers the last scheduled guest, then the free pool, then *)
(* a new guest; the guest is put in the free pool afterwards.              *)
(***************************************************************************)
DoWithGuest(c) ==
  /\ Lock(c)
  /\ scheduledPodUID' = NoPod
  /\ \/ /\ scheduled # NoGuest
        /\ taken' = scheduled
        /\ scheduled' = NoGuest
        /\ UNCHANGED <<free, instanceCounter, runtimeClosed>>
     \/ /\ scheduled = NoGuest /\ free # <<>>
        /\ taken' = Head(free)
        /\ free' = Tail(free)
        /\ UNCHANGED <<scheduled, instanceCounter, runtimeClosed>>
     \/ /\ scheduled = NoGuest /\ free = <<>>
        /\ NewGuest
        /\ taken' = instanceCounter'
        /\ UNCHANGED <<scheduled, free>>
  /\ RunLocked(c, taken')
  /\ UNCHANGED <<binding, panicked>>

DoWithGuestFails(c) ==
  /\ Lock(c)
  /\ scheduled = NoGuest /\ free = <<>>
  /\ NewGuestFails
  /\ scheduledPodUID' = NoPod
  /\ UNCHANGED <<mux, scheduled, binding, free, taken, running, panicked>>

(* Bug: the guest is put back as the scheduled one, not in the free pool.  *)
DoWithGuestReturnsScheduled(c) ==
  /\ ~panicked
  /\ mux = c /\ taken # NoGuest
  /\ scheduled' = taken
  /\ taken' = NoGuest
  /\ mux' = NoCaller
  /\ running' = [running EXCEPT ![c] = NoGuest]
  /\ UNCHANGED <<scheduledPodUID, binding, free, instanceCounter,
                 runtimeClosed, panicked>>

DoWithGuestReturns(c) ==
  /\ ~panicked
  /\ mux = c /\ taken # NoGuest
  /\ free' = Append(free, taken)
  /\ taken' = NoGuest
  /\ mux' = NoCaller
  /\ running' = [running EXCEPT ![c] = NoGuest]
  /\ UNCHANGED <<scheduledPodUID, scheduled, binding, instanceCounter,
                 runtimeClosed, panicked>>

(***************************************************************************)
(* doWithSchedulingGuest: takes over the scheduled guest whatever pod it   *)
(* was scheduled for, else the head of the free pool, else a new guest.    *)
(***************************************************************************)
(* Bug: the free pool is forgotten.                                        *)
DoWithSchedulingGuestNew(c, podUID) ==
  /\ Lock(c)
  /\ scheduledPodUID' = podUID
  /\ \/ /\ scheduled # NoGuest
        /\ UNCHANGED <<scheduled, instanceCounter, runtimeClosed>>
     \/ /\ scheduled = NoGuest
        /\ NewGuest
        /\ scheduled' = instanceCounter'
  /\ RunLocked(c, scheduled')
  /\ UNCHANGED <<binding, free, taken, panicked>>

DoWithSchedulingGuest(c, podUID) ==
  /\ Lock(c)
  /\ scheduledPodUID' = podUID
  /\ \/ /\ scheduled # NoGuest
        /\ UNCHANGED <<scheduled, free, instanceCounter, runtimeClosed>>
     \/ /\ scheduled = NoGuest /\ free # <<>>
        /\ scheduled' = Head(free)
        /\ free' = Tail(free)
        /\ UNCHANGED <<instanceCounter, runtimeClosed>>
     \/ /\ scheduled = NoGuest /\ free = <<>>
        /\ NewGuest
        /\ scheduled' = instanceCounter'
        /\ UNCHANGED free
  /\ RunLocked(c, scheduled')
  /\ UNCHANGED <<binding, taken, panicked>>

DoWithSchedulingGuestFails(c, podUID) ==
  /\ Lock(c)
  /\ scheduled = NoGuest /\ free = <<>>
  /\ NewGuestFails
  /\ scheduledPodUID' = podUID
  /\ UNCHANGED <<mux, scheduled, binding, free, taken, running, panicked>>

(* Bug: the lock is not released.                                          *)
DoWithSchedulingGuestReturnsLocked(c) ==
  /\ ~panicked
  /\ mux = c /\ taken = NoGuest
  /\ running' = [running EXCEPT ![c] = NoGuest]
  /\ UNCHANGED <<mux, scheduledPodUID, scheduled, binding, free, taken,
                 instanceCounter, runtimeClosed, panicked>>

DoWithSchedulingGuestReturns(c) ==
  /\ ~panicked
  /\ mux = c /\ taken = NoGuest
  /\ mux' = NoCaller
  /\ running' = [running EXCEPT ![c] = NoGuest]
  /\ UNCHANGED <<scheduledPodUID, scheduled, binding, free, taken,
                 instanceCounter, runtimeClosed, panicked>>

(***************************************************************************)
(* getForBinding: the pod's binding guest if it has one, else the          *)
(* scheduled guest, which leaves the scheduling cycle, else a panic.       *)
(* scheduledPodUID is cleared and never compared.                          *)
(***************************************************************************)
(* Bug: the guest stays the scheduled one as well.                         *)
GetForBindingShared(c, podUID) ==
  /\ Lock(c)
  /\ \/ /\ binding[podUID] # NoGuest
        /\ UNCHANGED binding
     \/ /\ binding[podUID] = NoGuest /\ scheduled # NoGuest
        /\ binding' = [binding EXCEPT ![podUID] = scheduled]
  /\ UNCHANGED <<mux, scheduledPodUID, scheduled, free, taken,
                 instanceCounter, runtimeClosed, panicked>>

(* Bug: no fast path, a scheduled guest replaces the pod's own.            *)
GetForBindingAgain(c, podUID) ==
  /\ Lock(c)
  /\ \/ /\ binding[podUID] # NoGuest /\ scheduled = NoGuest
        /\ UNCHANGED <<scheduledPodUID, scheduled, binding>>
     \/ /\ scheduled # NoGuest
        /\ scheduledPodUID' = NoPod
        /\ scheduled' = NoGuest
        /\ binding' = [binding EXCEPT ![podUID] = scheduled]
  /\ UNCHANGED <<mux, free, taken, instanceCounter, runtimeClosed, panicked>>

GetForBinding(c, podUID) ==
  /\ Lock(c)
  /\ \/ /\ binding[podUID] # NoGuest
        /\ UNCHANGED <<scheduledPodUID, scheduled, binding>>
     \/ /\ binding[podUID] = NoGuest /\ scheduled # NoGuest
        /\ scheduledPodUID' = NoPod
        /\ scheduled' = NoGuest
        /\ binding' = [binding EXCEPT ![podUID] = scheduled]
  /\ UNCHANGED <<mux, free, taken, instanceCounter, runtimeClosed, panicked>>

GetForBindingPanics(c, podUID) ==
  /\ Lock(c)
  /\ binding[podUID] = NoGuest /\ scheduled = NoGuest
  /\ panicked' = TRUE
  /\ UNCHANGED <<mux, scheduledPodUID, scheduled, binding, free, taken,
                 running, instanceCounter, runtimeClosed>>

(* The caller runs the guest getForBinding returned, outside mux...        *)
RunForBinding(c, podUID) ==
  /\ GetForBinding(c, podUID)
  /\ running' = [running EXCEPT ![c] = binding'[podUID]]

(* ...or, as Permit does, drops it.                                        *)
AssociateForBinding(c, podUID) ==
  /\ GetForBinding(c, podUID)
  /\ UNCHANGED running

BindingCallReturns(c) ==
  /\ ~panicked
  /\ mux # c /\ running[c] # NoGuest
  /\ running' = [running EXCEPT ![c] = NoGuest]
  /\ UNCHANGED <<mux, scheduledPodUID, scheduled, binding, free, taken,
                 instanceCounter, runtimeClosed, panicked>>

(***************************************************************************)
(* freeFromBinding: nothing when the pod has no binding guest.             *)
(***************************************************************************)
(* Bug: what the map has for the pod is put back unchecked.                *)
FreeFromBindingUnchecked(c, podUID) ==
  /\ Lock(c)
  /\ free' = Append(free, binding[podUID])
  /\ binding' = [binding EXCEPT ![podUID] = NoGuest]
  /\ UNCHANGED <<mux, scheduledPodUID, scheduled, taken, running,
                 instanceCounter, runtimeClosed, panicked>>

(* Bug: the guest is not put back.                                         *)
FreeFromBindingDrops(c, podUID) ==
  /\ Lock(c)
  /\ binding' = [binding EXCEPT ![podUID] = NoGuest]
  /\ UNCHANGED <<mux, scheduledPodUID, scheduled, free, taken, running,
                 instanceCounter, runtimeClosed, panicked>>

(* Bug: the pod's entry is not deleted.                                    *)
FreeFromBindingKeepsEntry(c, podUID) ==
  /\ Lock(c)
  /\ \/ binding[podUID] # NoGuest /\ free' = Append(free, binding[podUID])
     \/ binding[podUID] = NoGuest /\ UNCHANGED free
  /\ UNCHANGED <<mux, scheduledPodUID, scheduled, binding, taken, running,
                 instanceCounter, runtimeClosed, panicked>>

FreeFromBinding(c, podUID) ==
  /\ Lock(c)
  /\ IF binding[podUID] # NoGuest
       THEN /\ free' = Append(free, binding[podUID])
            /\ binding' = [binding EXCEPT ![podUID] = NoGuest]
       ELSE UNCHANGED <<free, binding>>
  /\ UNCHANGED <<mux, scheduledPodUID, scheduled, taken, running,
                 instanceCounter, runtimeClosed, panicked>>

(***************************************************************************)
(* The pool under callers that make any call in any order.                 *)
(***************************************************************************)
PoolStep(c) ==
  \/ DoWithGuest(c)
  \/ DoWithGuestFails(c)
  \/ DoWithGuestReturns(c)
  \/ DoWithSchedulingGuestReturns(c)
  \/ BindingCallReturns(c)
  \/ \E p \in Pod :
       \/ DoWithSchedulingGuest(c, p)
       \/ DoWithSchedulingGuestFails(c, p)
       \/ RunForBinding(c, p)
       \/ AssociateForBinding(c, p)
       \/ GetForBindingPanics(c, p)
       \/ FreeFromBinding(c, p)

PoolNext == \E c \in Caller : PoolStep(c)

PoolSpec == PoolInit /\ [][PoolNext]_poolVars

-----------------------------------------------------------------------------
IsFree(g)  == \E i \in DOMAIN free : free[i] = g
IsBound(g) == \E p \in Pod : binding[p] = g

(* A guest is never in two places: pool.go moves a guest between the free  *)
(* list, the scheduled field and the binding map in separate statements,   *)
(* and a guest left behind in one of them would later be handed to two     *)
(* cycles at once.                                                         *)
OnePlace ==
  /\ \A i, j \in DOMAIN free : free[i] = free[j] => i = j
  /\ \A p, q \in Pod : binding[p] # NoGuest /\ binding[p] = binding[q] => p = q
  /\ \A p \in Pod : binding[p] # NoGuest => ~IsFree(binding[p])
  /\ scheduled # NoGuest => ~IsFree(scheduled) /\ ~IsBound(scheduled)
  /\ taken # NoGuest => ~IsFree(taken) /\ ~IsBound(taken) /\ taken # scheduled

(* No guest is lost: every instance is free, scheduled, bound to a pod, or *)
(* in the hands of the doWithGuest call in progress.                       *)
NoneLost ==
  \A g \in Guest : IsFree(g) \/ IsBound(g) \/ g = scheduled \/ g = taken

(* The pool instantiates a guest only when every other one is bound, so it *)
(* never holds more than one guest more than there are pods.               *)
PoolBound == instanceCounter <= Cardinality(Pod) + 1

(* The lock holder executes the guest its critical section is about.       *)
LockHolderRuns ==
  /\ mux # NoCaller =>
       running[mux] = IF taken # NoGuest THEN taken ELSE scheduled
  /\ mux # NoCaller => running[mux] # NoGuest
  /\ taken # NoGuest => mux # NoCaller

(* A guest bound to a pod stays bound to it until it is freed: no step     *)
(* hands it to another pod or replaces it by another guest, or takes it    *)
(* for scheduling (pool.go:142 "current guest is still correct").          *)
BindingIsSticky ==
  [][\A p \in Pod : binding[p] # NoGuest /\ binding'[p] # binding[p]
       => /\ binding'[p] = NoGuest
          /\ free' = Append(free, binding[p])]_poolVars

(***************************************************************************)
(* The owner of each guest, when it has exactly one, and the specification *)
(* of who may own it next.                                                 *)
(***************************************************************************)
Owners(g) ==
  {p \in Pod : binding[p] = g}
    \cup {o \in {"starting"} : g = taken}
    \cup {o \in {"scheduling"} : g = scheduled}
    \cup {o \in {"free"} : IsFree(g)}

owner ==
  [g \in Guest |->
     IF \E o \in Owners(g) : Owners(g) = {o}
       THEN CHOOSE o \in Owners(g) : TRUE
       ELSE "nobody or several"]

Ownership == INSTANCE GuestOwnership
  WITH Free <- "free", Scheduling <- "scheduling", Starting <- "starting"

OwnershipSpec == Ownership!Spec
=============================================================================
