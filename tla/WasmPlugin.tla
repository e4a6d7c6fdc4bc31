------------------------------ MODULE WasmPlugin ------------------------------
(***************************************************************************)
(* The extension points of scheduler/plugin/plugin.go over the guest pool, *)
(* and what the guest SDK keeps between the calls: the cycle state and the *)
(* pod it read, both reset by the guest's prefilter export only.           *)
(*                                                                         *)
(* A handler that runs under doWithSchedulingGuest starts with the action  *)
(* named after it and ends with SchedulingCallReturns; a handler that runs *)
(* on the binding guest ends with BindingCallReturns.                      *)
(***************************************************************************)
EXTENDS GuestPool, GuestExports

CONSTANTS
  Exports,   \* the functions the guest module exports
  Faults     \* the failures that may occur: "instantiate", "trap"

(* A guest the plugin accepts, built with the Go SDK.                      *)
ASSUME ExportsAssumption ==
  /\ Exports \subseteq AllOps
  /\ Maskable(detectInterfaces(Exports))
  /\ Paired(Exports)
ASSUME FaultsAssumption == Faults \subseteq {"instantiate", "trap"}

(* The framework's call of op executes the guest.                          *)
Runs(op) == Reaches(detectInterfaces(Exports), op)

(* A pod object the framework passes: its UID and the attempt to schedule  *)
(* it, as a retried pod may have changed.                                  *)
NoObject == [uid |-> NoPod, attempt |-> 0]

VARIABLE
  memory     \* per guest: the cycle prefilter last reset the cycle state
             \* for, and the pod object cached by lazyPod (NoObject is nil);
             \* reader is history: the cycle in which the pod was read, and
             \* whether it was read by Unreserve

pluginVars == <<poolVars, memory>>

NoReader  == [cycle |-> NoObject, unreserve |-> FALSE]
NewMemory == [cycle |-> NoObject, pod |-> NoObject, reader |-> NoReader]

MemoryOf(g) == IF g <= Len(memory) THEN memory[g] ELSE NewMemory

(* The plugin code that runs op may or may not read the pod; only the      *)
(* first to do so asks the host.                                           *)
PodRead(m, op, pod) ==
  {m} \cup IF m.pod # NoObject THEN {}
           ELSE {[m EXCEPT !.pod = pod,
                           !.reader = [cycle     |-> m.cycle,
                                       unreserve |-> op = "unreserve"]]}

(* Bug: the prefilter export keeps the cycle state of the last pod.        *)
MemoryKept(m, op, pod) ==
  PodRead(IF op = "prefilter" /\ m.cycle = NoObject
            THEN [NewMemory EXCEPT !.cycle = pod] ELSE m, op, pod)

(* Bug: the prefilter export keeps the pod.                                *)
MemoryWithOldPod(m, op, pod) ==
  PodRead(IF op = "prefilter" THEN [m EXCEPT !.cycle = pod] ELSE m, op, pod)

(* What m may become when the guest runs op for pod: the prefilter export  *)
(* begins with nothing but the new cycle.                                  *)
MemoryAfter(m, op, pod) ==
  PodRead(IF op = "prefilter" THEN [NewMemory EXCEPT !.cycle = pod] ELSE m,
          op, pod)

(* Bug: the memory of a guest that was just instantiated is not its own.   *)
GuestRunsInOld(g, op, pod) ==
  \E m \in IF runtimeClosed THEN {MemoryOf(g)}
                            ELSE MemoryAfter(MemoryOf(g), op, pod) :
    memory' = [i \in 1..instanceCounter |-> IF i = g THEN m ELSE MemoryOf(i)]

(* A call on a guest of a closed runtime returns an error at once.         *)
GuestRuns(g, op, pod) ==
  \E m \in IF runtimeClosed THEN {MemoryOf(g)}
                            ELSE MemoryAfter(MemoryOf(g), op, pod) :
    memory' = [i \in 1..instanceCounter' |-> IF i = g THEN m ELSE MemoryOf(i)]

(***************************************************************************)
(* The handlers.                                                           *)
(***************************************************************************)
(* Called once, before any scheduling cycle: newGuestPool's guest is free. *)
(* A trap of it panics, as there is no error to return.                    *)
EventsToRegister(c) ==
  /\ Runs("enqueue")
  /\ DoWithGuest(c)
  /\ memory' = [i \in 1..instanceCounter' |-> MemoryOf(i)]

EventsToRegisterReturns(c) == DoWithGuestReturns(c) /\ UNCHANGED memory

EventsToRegisterPanics(c) ==
  /\ "trap" \in Faults
  /\ ~panicked /\ mux = c /\ taken # NoGuest
  /\ panicked' = TRUE
  /\ UNCHANGED <<mux, scheduledPodUID, scheduled, binding, free, taken,
                 running, instanceCounter, runtimeClosed, memory>>

SchedulingCall(c, op, pod) ==
  /\ Runs(op)
  /\ DoWithSchedulingGuest(c, pod.uid)
  /\ GuestRuns(scheduled', op, pod)

(* The pool has an error instead of a guest, which each handler turns into *)
(* its status.                                                             *)
SchedulingCallFails(c, op, pod) ==
  /\ Runs(op)
  /\ "instantiate" \in Faults \/ runtimeClosed
  /\ DoWithSchedulingGuestFails(c, pod.uid)
  /\ UNCHANGED memory

SchedulingCallReturns(c) ==
  /\ DoWithSchedulingGuestReturns(c)
  /\ UNCHANGED memory

PreFilter(c, pod)      == SchedulingCall(c, "prefilter", pod)
AddPod(c, pod)         == SchedulingCall(c, "addpod", pod)
RemovePod(c, pod)      == SchedulingCall(c, "removepod", pod)
Filter(c, pod)         == SchedulingCall(c, "filter", pod)
PostFilter(c, pod)     == SchedulingCall(c, "postfilter", pod)
PreScore(c, pod)       == SchedulingCall(c, "prescore", pod)
Score(c, pod)          == SchedulingCall(c, "score", pod)
NormalizeScore(c, pod) == SchedulingCall(c, "normalizescore", pod)
Reserve(c, pod)        == SchedulingCall(c, "reserve", pod)
Unreserve(c, pod)      == SchedulingCall(c, "unreserve", pod)
Permit(c, pod)         == SchedulingCall(c, "permit", pod)

(* Bug: Permit leaves the guest to the next scheduling cycle.              *)
PermitLeaves(c, pod) == Lock(c) /\ UNCHANGED pluginVars

(* Permit then moves the scheduled guest to the binding cycle, whatever    *)
(* its status is.                                                          *)
PermitAssociates(c, pod) ==
  /\ AssociateForBinding(c, pod.uid)
  /\ UNCHANGED memory

(* Bug: the guest of the pod being scheduled is released.                  *)
ReleaseScheduled(c, pod) ==
  /\ \/ scheduledPodUID # NoPod /\ FreeFromBinding(c, scheduledPodUID)
     \/ scheduledPodUID = NoPod /\ Lock(c) /\ UNCHANGED poolVars
  /\ UNCHANGED memory

(* Unreserve and PostBind end with freeFromBinding.                        *)
ReleaseGuest(c, pod) ==
  /\ FreeFromBinding(c, pod.uid)
  /\ UNCHANGED memory

BindingCall(c, op, pod) ==
  /\ Runs(op)
  /\ RunForBinding(c, pod.uid)
  /\ GuestRuns(running'[c], op, pod)

PreBind(c, pod)  == BindingCall(c, "prebind", pod)
Bind(c, pod)     == BindingCall(c, "bind", pod)
PostBind(c, pod) == BindingCall(c, "postbind", pod)

(* Bug: every binding handler releases the guest when it is done.          *)
BindingReturnsAndFrees(c) ==
  /\ ~panicked
  /\ mux = NoCaller /\ running[c] # NoGuest
  /\ running' = [running EXCEPT ![c] = NoGuest]
  /\ free' = Append(free, running[c])
  /\ binding' = [p \in Pod |-> IF binding[p] = running[c] THEN NoGuest
                                                         ELSE binding[p]]
  /\ UNCHANGED <<mux, scheduledPodUID, scheduled, taken, instanceCounter,
                 runtimeClosed, panicked, memory>>

BindingReturns(c) == BindingCallReturns(c) /\ UNCHANGED memory

(* PreBind, Bind, PostBind and Permit panic when there is no guest.        *)
NoGuestForBinding(c, pod) ==
  /\ GetForBindingPanics(c, pod.uid)
  /\ UNCHANGED memory

(* NormalizeScore panics when the guest trapped or the pool failed, as it  *)
(* then has no scores to copy.                                             *)
SizeMismatch ==
  /\ ~panicked
  /\ panicked' = TRUE
  /\ UNCHANGED <<mux, scheduledPodUID, scheduled, binding, free, taken,
                 running, instanceCounter, runtimeClosed, memory>>

PluginInit == PoolInit /\ memory = <<NewMemory>>
=============================================================================
