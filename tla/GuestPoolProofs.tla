--------------------------- MODULE GuestPoolProofs ---------------------------
(***************************************************************************)
(* Proofs about the guest pool, for any callers and any pods: its own      *)
(* invariants, and that it implements GuestOwnership.                      *)
(***************************************************************************)
EXTENDS GuestPool, SequenceTheorems, FiniteSetTheorems, TLAPS

-----------------------------------------------------------------------------
(* The free list: taking its head and appending to it.                     *)
Has(s, x)   == \E i \in DOMAIN s : s[i] = x
Distinct(s) == \A i, j \in DOMAIN s : s[i] = s[j] => i = j

(* Taking the head of a list without repetitions leaves the other members, *)
(* and not the head.                                                       *)
LEMMA TakeHead ==
  ASSUME NEW S, NEW s \in Seq(S), s # <<>>, Distinct(s)
  PROVE  /\ Head(s) \in S
         /\ Tail(s) \in Seq(S)
         /\ Distinct(Tail(s))
         /\ \A x : Has(s, x) <=> x = Head(s) \/ Has(Tail(s), x)
         /\ ~Has(Tail(s), Head(s))
<1>1. /\ Tail(s) \in Seq(S)
      /\ Len(s) \in Nat \ {0}
      /\ DOMAIN s = 1..Len(s)
      /\ DOMAIN Tail(s) = 1..(Len(s) - 1)
      /\ Head(s) \in S
      /\ Head(s) = s[1]
  OBVIOUS
<1>2. \A i \in 1..(Len(s) - 1) : Tail(s)[i] = s[i + 1]
  OBVIOUS
<1>3. Distinct(Tail(s))
  <2>. SUFFICES ASSUME NEW i \in 1..(Len(s) - 1), NEW j \in 1..(Len(s) - 1),
                       s[i + 1] = s[j + 1]
                PROVE  i = j
    BY <1>1, <1>2 DEF Distinct
  <2>. QED
    BY <1>1 DEF Distinct
<1>4. ASSUME NEW x
      PROVE  Has(s, x) <=> x = Head(s) \/ Has(Tail(s), x)
  <2>1. ASSUME Has(s, x), x # Head(s)
        PROVE  Has(Tail(s), x)
    <3>1. PICK i \in 1..Len(s) : s[i] = x
      BY <2>1, <1>1 DEF Has
    <3>2. i - 1 \in 1..(Len(s) - 1) /\ (i - 1) + 1 = i
      BY <2>1, <3>1, <1>1
    <3>3. Tail(s)[i - 1] = x
      BY <3>1, <3>2, <1>2
    <3>. QED
      BY <3>2, <3>3, <1>1 DEF Has
  <2>2. ASSUME Has(Tail(s), x)
        PROVE  Has(s, x)
    <3>1. PICK i \in 1..(Len(s) - 1) : Tail(s)[i] = x
      BY <2>2, <1>1 DEF Has
    <3>2. i + 1 \in 1..Len(s) /\ s[i + 1] = x
      BY <3>1, <1>1, <1>2
    <3>. QED
      BY <3>2, <1>1 DEF Has
  <2>3. x = Head(s) => Has(s, x)
    BY <1>1 DEF Has
  <2>. QED
    BY <2>1, <2>2, <2>3
<1>5. ~Has(Tail(s), Head(s))
  <2>. SUFFICES ASSUME NEW i \in 1..(Len(s) - 1), Tail(s)[i] = Head(s)
                PROVE  FALSE
    BY <1>1 DEF Has
  <2>1. s[i + 1] = s[1] /\ i + 1 \in 1..Len(s) /\ 1 \in 1..Len(s)
    BY <1>1, <1>2
  <2>. QED
    BY <2>1, <1>1 DEF Distinct
<1>. QED
  BY <1>1, <1>3, <1>4, <1>5

(* Appending a new member adds it and nothing else.                        *)
LEMMA AppendNew ==
  ASSUME NEW S, NEW s \in Seq(S), NEW e \in S, Distinct(s), ~Has(s, e)
  PROVE  /\ Append(s, e) \in Seq(S)
         /\ Distinct(Append(s, e))
         /\ \A x : Has(Append(s, e), x) <=> x = e \/ Has(s, x)
<1>1. /\ Append(s, e) \in Seq(S)
      /\ Len(s) \in Nat
      /\ DOMAIN s = 1..Len(s)
      /\ DOMAIN Append(s, e) = 1..(Len(s) + 1)
      /\ Append(s, e)[Len(s) + 1] = e
  OBVIOUS
<1>2. \A i \in 1..Len(s) : Append(s, e)[i] = s[i]
  OBVIOUS
<1>3. \A i \in 1..Len(s) : s[i] # e
  BY <1>1 DEF Has
<1>4. Distinct(Append(s, e))
  <2>. SUFFICES ASSUME NEW i \in 1..(Len(s) + 1), NEW j \in 1..(Len(s) + 1),
                       Append(s, e)[i] = Append(s, e)[j]
                PROVE  i = j
    BY <1>1 DEF Distinct
  <2>1. CASE i \in 1..Len(s) /\ j \in 1..Len(s)
    BY <2>1, <1>1, <1>2 DEF Distinct
  <2>2. CASE ~(i \in 1..Len(s) /\ j \in 1..Len(s))
    BY <2>2, <1>1, <1>2, <1>3
  <2>. QED
    BY <2>1, <2>2
<1>5. \A x : Has(Append(s, e), x) <=> x = e \/ Has(s, x)
  BY <1>1, <1>2 DEF Has
<1>. QED
  BY <1>1, <1>4, <1>5

-----------------------------------------------------------------------------
PoolInv == TypeOK /\ OnePlace /\ NoneLost /\ LockHolderRuns

LEMMA PoolInitInv == PoolInit => PoolInv
<1>. SUFFICES ASSUME PoolInit PROVE PoolInv
  OBVIOUS
<1>. USE DEF PoolInit, NoGuest, Guest
<1>1. free = <<1>> /\ DOMAIN free = {1} /\ free[1] = 1 /\ free \in Seq(1..1)
  OBVIOUS
<1>2. TypeOK
  <2>1. binding \in [Pod -> Guest \cup {NoGuest}]
    OBVIOUS
  <2>2. running \in [Caller -> Guest \cup {NoGuest}]
    OBVIOUS
  <2>3. free \in Seq(Guest)
    BY <1>1
  <2>4. /\ mux \in Caller \cup {NoCaller}
        /\ scheduledPodUID \in Pod \cup {NoPod}
        /\ scheduled \in Guest \cup {NoGuest} /\ taken \in Guest \cup {NoGuest}
        /\ instanceCounter \in Nat \ {0}
    OBVIOUS
  <2>5. runtimeClosed \in BOOLEAN /\ panicked \in BOOLEAN
    BY Zenon
  <2>. QED
    BY ONLY <2>1, <2>2, <2>3, <2>4, <2>5 DEF TypeOK
<1>3. OnePlace
  <2>1. \A p \in Pod : binding[p] = NoGuest
    OBVIOUS
  <2>2. \A i, j \in DOMAIN free : i = j
    BY <1>1
  <2>. QED
    BY <2>1, <2>2 DEF OnePlace
<1>4. NoneLost
  BY <1>1 DEF NoneLost, IsFree, IsBound
<1>5. LockHolderRuns
  BY DEF LockHolderRuns
<1>. QED
  BY <1>2, <1>3, <1>4, <1>5 DEF PoolInv

(* The facts about the free list every step needs.                         *)
LEMMA FreeFacts ==
  ASSUME PoolInv
  PROVE  /\ free \in Seq(Guest) /\ Distinct(free)
         /\ \A g : IsFree(g) <=> Has(free, g)
         /\ \A g : IsFree(g)' <=> Has(free', g)
BY DEF PoolInv, TypeOK, OnePlace, Distinct, Has, IsFree

LEMMA DoWithGuestInv ==
  ASSUME PoolInv, NEW c \in Caller, DoWithGuest(c)
  PROVE  PoolInv'
<1>. USE DEF Guest, NoGuest
<1>1. c # NoCaller /\ taken = NoGuest
  BY CallerAssumption DEF PoolInv, LockHolderRuns, DoWithGuest, Lock
<1>2. CASE scheduled # NoGuest
  BY <1>1, <1>2 DEF DoWithGuest, Lock, RunLocked, PoolInv, TypeOK, OnePlace,
                    NoneLost, LockHolderRuns, IsFree, IsBound
<1>3. CASE scheduled = NoGuest /\ free # <<>>
  <2>1. /\ taken' = Head(free) /\ free' = Tail(free)
        /\ UNCHANGED <<scheduled, binding, instanceCounter, runtimeClosed,
                       panicked>>
        /\ mux' = c /\ running' = [running EXCEPT ![c] = taken']
        /\ scheduledPodUID' = NoPod
    BY <1>3 DEF DoWithGuest, RunLocked
  <2>2. /\ Head(free) \in Guest /\ Tail(free) \in Seq(Guest)
        /\ Distinct(Tail(free))
        /\ \A x : Has(free, x) <=> x = Head(free) \/ Has(Tail(free), x)
        /\ ~Has(Tail(free), Head(free))
    BY <1>3, FreeFacts, TakeHead
  <2>3. /\ \A g : IsFree(g) <=> g = taken' \/ IsFree(g)'
        /\ ~IsFree(taken)'
    BY <2>1, <2>2, FreeFacts
  <2>4. \A g : IsBound(g)' <=> IsBound(g)
    BY <2>1 DEF IsBound
  <2>5. TypeOK'
    BY <2>1, <2>2 DEF PoolInv, TypeOK
  <2>6. OnePlace'
    BY <2>1, <2>2, <2>3, <2>4, <1>3 DEF PoolInv, OnePlace, Distinct, IsBound
  <2>7. NoneLost'
    BY <2>1, <2>3, <2>4, <1>1, <1>3 DEF PoolInv, NoneLost
  <2>8. LockHolderRuns'
    BY <2>1, <2>2, <1>1 DEF PoolInv, TypeOK, LockHolderRuns
  <2>. QED
    BY <2>5, <2>6, <2>7, <2>8 DEF PoolInv
<1>4. CASE scheduled = NoGuest /\ free = <<>>
  BY <1>1, <1>4 DEF DoWithGuest, Lock, RunLocked, NewGuest, PoolInv, TypeOK,
                    OnePlace, NoneLost, LockHolderRuns, IsFree, IsBound
<1>. QED
  BY <1>2, <1>3, <1>4

(* A guest put back by doWithGuest or freeFromBinding.                     *)
LEMMA PutBack ==
  ASSUME PoolInv, NEW g \in Guest, ~IsFree(g), free' = Append(free, g),
         instanceCounter' = instanceCounter
  PROVE  /\ free' \in Seq(Guest)'
         /\ Distinct(free')
         /\ \A x : IsFree(x)' <=> x = g \/ IsFree(x)
<1>1. free \in Seq(Guest) /\ Distinct(free) /\ ~Has(free, g)
  BY FreeFacts
<1>2. /\ Append(free, g) \in Seq(Guest)
      /\ Distinct(Append(free, g))
      /\ \A x : Has(Append(free, g), x) <=> x = g \/ Has(free, x)
  BY <1>1, AppendNew
<1>. QED
  BY <1>2, FreeFacts DEF Guest

LEMMA DoWithGuestFailsInv ==
  ASSUME PoolInv, NEW c \in Caller, DoWithGuestFails(c)
  PROVE  PoolInv'
BY DEF DoWithGuestFails, NewGuestFails, PoolInv, TypeOK, OnePlace, NoneLost,
       LockHolderRuns, IsFree, IsBound, Guest

LEMMA DoWithGuestReturnsInv ==
  ASSUME PoolInv, NEW c \in Caller, DoWithGuestReturns(c)
  PROVE  PoolInv'
<1>. USE DEF NoGuest
<1>1. /\ free' = Append(free, taken) /\ taken' = NoGuest /\ taken # NoGuest
      /\ mux' = NoCaller /\ running' = [running EXCEPT ![c] = NoGuest]
      /\ UNCHANGED <<scheduledPodUID, scheduled, binding, instanceCounter,
                     runtimeClosed, panicked>>
  BY DEF DoWithGuestReturns
<1>2. taken \in Guest /\ ~IsFree(taken) /\ ~IsBound(taken) /\ taken # scheduled
  BY <1>1 DEF PoolInv, TypeOK, OnePlace
<1>3. /\ free' \in Seq(Guest)' /\ Distinct(free')
      /\ \A x : IsFree(x)' <=> x = taken \/ IsFree(x)
  BY <1>1, <1>2, PutBack
<1>4. Guest' = Guest /\ \A g : IsBound(g)' <=> IsBound(g)
  BY <1>1 DEF Guest, IsBound
<1>5. TypeOK'
  BY <1>1, <1>3, <1>4 DEF PoolInv, TypeOK
<1>6. OnePlace'
  BY <1>1, <1>2, <1>3, <1>4 DEF PoolInv, OnePlace, Distinct, IsBound
<1>7. NoneLost'
  BY <1>1, <1>3, <1>4 DEF PoolInv, NoneLost
<1>8. LockHolderRuns'
  BY <1>1 DEF LockHolderRuns
<1>. QED
  BY <1>5, <1>6, <1>7, <1>8 DEF PoolInv

LEMMA DoWithSchedulingGuestInv ==
  ASSUME PoolInv, NEW c \in Caller, NEW p \in Pod, DoWithSchedulingGuest(c, p)
  PROVE  PoolInv'
<1>. USE DEF Guest, NoGuest
<1>1. c # NoCaller /\ taken = NoGuest
  BY CallerAssumption
     DEF PoolInv, LockHolderRuns, DoWithSchedulingGuest, Lock
<1>2. CASE scheduled # NoGuest
  BY <1>1, <1>2 DEF DoWithSchedulingGuest, Lock, RunLocked, PoolInv, TypeOK,
                    OnePlace, NoneLost, LockHolderRuns, IsFree, IsBound
<1>3. CASE scheduled = NoGuest /\ free # <<>>
  <2>1. /\ scheduled' = Head(free) /\ free' = Tail(free)
        /\ UNCHANGED <<taken, binding, instanceCounter, runtimeClosed, panicked>>
        /\ mux' = c /\ running' = [running EXCEPT ![c] = scheduled']
        /\ scheduledPodUID' = p
    BY <1>3 DEF DoWithSchedulingGuest, RunLocked
  <2>2. /\ Head(free) \in Guest /\ Tail(free) \in Seq(Guest)
        /\ Distinct(Tail(free))
        /\ \A x : Has(free, x) <=> x = Head(free) \/ Has(Tail(free), x)
        /\ ~Has(Tail(free), Head(free))
    BY <1>3, FreeFacts, TakeHead
  <2>3. /\ \A g : IsFree(g) <=> g = scheduled' \/ IsFree(g)'
        /\ ~IsFree(scheduled)'
    BY <2>1, <2>2, FreeFacts
  <2>4. \A g : IsBound(g)' <=> IsBound(g)
    BY <2>1 DEF IsBound
  <2>5. TypeOK'
    BY <2>1, <2>2 DEF PoolInv, TypeOK
  <2>6. OnePlace'
    BY <2>1, <2>2, <2>3, <2>4, <1>1, <1>3 DEF PoolInv, OnePlace, Distinct, IsBound
  <2>7. NoneLost'
    BY <2>1, <2>3, <2>4, <1>1, <1>3 DEF PoolInv, NoneLost
  <2>8. LockHolderRuns'
    BY <2>1, <2>2, <1>1 DEF PoolInv, TypeOK, LockHolderRuns
  <2>. QED
    BY <2>5, <2>6, <2>7, <2>8 DEF PoolInv
<1>4. CASE scheduled = NoGuest /\ free = <<>>
  BY <1>1, <1>4 DEF DoWithSchedulingGuest, Lock, RunLocked, NewGuest, PoolInv,
                    TypeOK, OnePlace, NoneLost, LockHolderRuns, IsFree, IsBound
<1>. QED
  BY <1>2, <1>3, <1>4

LEMMA DoWithSchedulingGuestFailsInv ==
  ASSUME PoolInv, NEW c \in Caller, NEW p \in Pod,
         DoWithSchedulingGuestFails(c, p)
  PROVE  PoolInv'
BY DEF DoWithSchedulingGuestFails, NewGuestFails, PoolInv, TypeOK, OnePlace,
       NoneLost, LockHolderRuns, IsFree, IsBound, Guest

LEMMA DoWithSchedulingGuestReturnsInv ==
  ASSUME PoolInv, NEW c \in Caller, DoWithSchedulingGuestReturns(c)
  PROVE  PoolInv'
BY DEF DoWithSchedulingGuestReturns, PoolInv, TypeOK, OnePlace, NoneLost,
       LockHolderRuns, IsFree, IsBound, Guest, NoGuest

(* getForBinding changes running or not, according to its caller.          *)
LEMMA GetForBindingInv ==
  ASSUME PoolInv, NEW c \in Caller, NEW p \in Pod, GetForBinding(c, p),
         \/ UNCHANGED running
         \/ running' = [running EXCEPT ![c] = binding'[p]]
  PROVE  PoolInv'
<1>. USE DEF NoGuest
<1>1. mux = NoCaller /\ mux' = NoCaller /\ taken' = NoGuest /\ taken = NoGuest
  BY DEF PoolInv, LockHolderRuns, GetForBinding, Lock
<1>2. CASE binding[p] # NoGuest
  <2>1. UNCHANGED <<scheduledPodUID, scheduled, binding, free, instanceCounter,
                    runtimeClosed, panicked>>
    BY <1>2 DEF GetForBinding
  <2>2. running' \in [Caller -> Guest \cup {NoGuest}]
    BY <2>1 DEF PoolInv, TypeOK
  <2>3. TypeOK'
    BY <1>1, <2>1, <2>2 DEF PoolInv, TypeOK, Guest
  <2>4. OnePlace' /\ NoneLost'
    BY <1>1, <2>1 DEF PoolInv, OnePlace, NoneLost, IsFree, IsBound, Guest
  <2>5. LockHolderRuns'
    BY <1>1 DEF LockHolderRuns
  <2>. QED
    BY <2>3, <2>4, <2>5 DEF PoolInv
<1>3. CASE binding[p] = NoGuest /\ scheduled # NoGuest
  <2>1. /\ binding' = [binding EXCEPT ![p] = scheduled] /\ scheduled' = NoGuest
        /\ scheduledPodUID' = NoPod
        /\ UNCHANGED <<free, instanceCounter, runtimeClosed, panicked>>
    BY <1>3 DEF GetForBinding
  <2>2. /\ \A q \in Pod : binding'[q] = IF q = p THEN scheduled ELSE binding[q]
        /\ scheduled \in Guest /\ Guest' = Guest
    BY <2>1, <1>3 DEF PoolInv, TypeOK, Guest
  <2>3. \A g : IsFree(g)' <=> IsFree(g)
    BY <2>1 DEF IsFree
  <2>4. TypeOK'
    BY <1>1, <2>1, <2>2 DEF PoolInv, TypeOK
  <2>5. OnePlace'
    BY <1>1, <1>3, <2>1, <2>2, <2>3 DEF PoolInv, OnePlace, IsBound
  <2>6. NoneLost'
    BY <1>1, <1>3, <2>1, <2>2, <2>3 DEF PoolInv, NoneLost, IsBound
  <2>7. LockHolderRuns'
    BY <1>1 DEF LockHolderRuns
  <2>. QED
    BY <2>4, <2>5, <2>6, <2>7 DEF PoolInv
<1>. QED
  BY <1>2, <1>3 DEF GetForBinding

LEMMA BindingCallReturnsInv ==
  ASSUME PoolInv, NEW c \in Caller, BindingCallReturns(c)
  PROVE  PoolInv'
BY DEF BindingCallReturns, PoolInv, TypeOK, OnePlace, NoneLost,
       LockHolderRuns, IsFree, IsBound, Guest, NoGuest

LEMMA FreeFromBindingInv ==
  ASSUME PoolInv, NEW c \in Caller, NEW p \in Pod, FreeFromBinding(c, p)
  PROVE  PoolInv'
<1>. USE DEF NoGuest
<1>1. /\ mux = NoCaller /\ taken = NoGuest
      /\ UNCHANGED <<mux, scheduledPodUID, scheduled, taken, running,
                     instanceCounter, runtimeClosed, panicked>>
  BY DEF PoolInv, LockHolderRuns, FreeFromBinding, Lock
<1>2. CASE binding[p] = NoGuest
  BY <1>1, <1>2 DEF FreeFromBinding, PoolInv, TypeOK, OnePlace, NoneLost,
                    LockHolderRuns, IsFree, IsBound, Guest
<1>3. CASE binding[p] # NoGuest
  <2>. DEFINE g == binding[p]
  <2>1. /\ free' = Append(free, g)
        /\ binding' = [binding EXCEPT ![p] = NoGuest]
    BY <1>3 DEF FreeFromBinding
  <2>2. g \in Guest /\ ~IsFree(g) /\ g # scheduled
    BY <1>3 DEF PoolInv, TypeOK, OnePlace, IsBound
  <2>3. /\ free' \in Seq(Guest)' /\ Distinct(free')
        /\ \A x : IsFree(x)' <=> x = g \/ IsFree(x)
    BY <1>1, <2>1, <2>2, PutBack
  <2>4. /\ \A q \in Pod : binding'[q] = IF q = p THEN NoGuest ELSE binding[q]
        /\ Guest' = Guest
    BY <1>1, <2>1 DEF PoolInv, TypeOK, Guest
  <2>5. TypeOK'
    BY <1>1, <2>1, <2>3, <2>4 DEF PoolInv, TypeOK
  <2>6. OnePlace'
    BY <1>1, <1>3, <2>2, <2>3, <2>4 DEF PoolInv, OnePlace, Distinct, IsBound
  <2>7. NoneLost'
    BY <1>1, <2>3, <2>4 DEF PoolInv, NoneLost, IsBound
  <2>8. LockHolderRuns'
    BY <1>1 DEF LockHolderRuns
  <2>. QED
    BY <2>5, <2>6, <2>7, <2>8 DEF PoolInv
<1>. QED
  BY <1>2, <1>3

LEMMA PanicInv ==
  ASSUME PoolInv, panicked' = TRUE,
         UNCHANGED <<mux, scheduledPodUID, scheduled, binding, free, taken,
                     running, instanceCounter, runtimeClosed>>
  PROVE  PoolInv'
BY DEF PoolInv, TypeOK, OnePlace, NoneLost, LockHolderRuns, IsFree, IsBound,
       Guest

(* Every step of the pool preserves its invariant.                         *)
LEMMA PoolNextInv ==
  ASSUME PoolInv, [PoolNext]_poolVars
  PROVE  PoolInv'
<1>1. CASE UNCHANGED poolVars
  BY <1>1 DEF poolVars, PoolInv, TypeOK, OnePlace, NoneLost, LockHolderRuns,
              IsFree, IsBound, Guest
<1>2. ASSUME NEW c \in Caller, PoolStep(c)
      PROVE  PoolInv'
  <2>1. CASE DoWithGuest(c)
    BY <2>1, DoWithGuestInv
  <2>2. CASE DoWithGuestFails(c)
    BY <2>2, DoWithGuestFailsInv
  <2>3. CASE DoWithGuestReturns(c)
    BY <2>3, DoWithGuestReturnsInv
  <2>4. CASE DoWithSchedulingGuestReturns(c)
    BY <2>4, DoWithSchedulingGuestReturnsInv
  <2>5. CASE BindingCallReturns(c)
    BY <2>5, BindingCallReturnsInv
  <2>6. ASSUME NEW p \in Pod, DoWithSchedulingGuest(c, p)
        PROVE  PoolInv'
    BY <2>6, DoWithSchedulingGuestInv
  <2>7. ASSUME NEW p \in Pod, DoWithSchedulingGuestFails(c, p)
        PROVE  PoolInv'
    BY <2>7, DoWithSchedulingGuestFailsInv
  <2>8. ASSUME NEW p \in Pod, RunForBinding(c, p) \/ AssociateForBinding(c, p)
        PROVE  PoolInv'
    BY <2>8, GetForBindingInv DEF RunForBinding, AssociateForBinding
  <2>9. ASSUME NEW p \in Pod, GetForBindingPanics(c, p)
        PROVE  PoolInv'
    BY <2>9, PanicInv DEF GetForBindingPanics
  <2>10. ASSUME NEW p \in Pod, FreeFromBinding(c, p)
         PROVE  PoolInv'
    BY <2>10, FreeFromBindingInv
  <2>. QED
    BY <1>2, <2>1, <2>2, <2>3, <2>4, <2>5, <2>6, <2>7, <2>8, <2>9, <2>10
       DEF PoolStep
<1>. QED
  BY <1>1, <1>2 DEF PoolNext

-----------------------------------------------------------------------------
(* The invariant holds in every reachable state of the pool.               *)
LEMMA PoolInvariant == PoolSpec => []PoolInv
<1>. QED
  BY PoolInitInv, PoolNextInv, PTL DEF PoolSpec

(* The fields of guestPool keep their types: the scheduled guest, the      *)
(* binding guests and the free guests are instances that exist.            *)
THEOREM PoolTypes == PoolSpec => []TypeOK
<1>1. PoolInv => TypeOK
  BY DEF PoolInv
<1>. QED
  BY <1>1, PoolInvariant, PTL

(* Whatever calls are made in whatever order, doWithGuest, getForBinding   *)
(* and freeFromBinding never leave a guest in two places...                *)
THEOREM GuestsInOnePlace == PoolSpec => []OnePlace
<1>1. PoolInv => OnePlace
  BY DEF PoolInv
<1>. QED
  BY <1>1, PoolInvariant, PTL

(* ...or in none.                                                          *)
THEOREM GuestsNeverLost == PoolSpec => []NoneLost
<1>1. PoolInv => NoneLost
  BY DEF PoolInv
<1>. QED
  BY <1>1, PoolInvariant, PTL

(* The lock holder runs the guest of its own critical section.             *)
THEOREM LockHolderRunsItsGuest == PoolSpec => []LockHolderRuns
<1>1. PoolInv => LockHolderRuns
  BY DEF PoolInv
<1>. QED
  BY <1>1, PoolInvariant, PTL

-----------------------------------------------------------------------------
(* When no guest is free, scheduled or taken, every guest is bound to a    *)
(* pod of its own, so there are no more guests than pods.                  *)
LEMMA AllBound ==
  ASSUME PoolInv, free = <<>>, scheduled = NoGuest, taken = NoGuest
  PROVE  instanceCounter <= Cardinality(Pod)
<1>. DEFINE podOf == [g \in Guest |-> CHOOSE p \in Pod : binding[p] = g]
<1>1. \A g \in Guest : IsBound(g)
  BY DEF PoolInv, NoneLost, IsFree, Guest, NoGuest
<1>2. \A g \in Guest : podOf[g] \in Pod /\ binding[podOf[g]] = g
  BY <1>1 DEF IsBound
<1>3. podOf \in [Guest -> Pod]
  BY <1>2
<1>4. instanceCounter \in Nat
  BY DEF PoolInv, TypeOK
<1>5. IsFiniteSet(Guest) /\ Cardinality(Guest) = instanceCounter
  BY <1>4, FS_Interval DEF Guest
<1>6. Cardinality(Pod) \in Nat
  BY PodFinite, FS_CardinalityType
<1>7. ASSUME Cardinality(Pod) < Cardinality(Guest)
      PROVE  FALSE
  <2>. HIDE DEF podOf
  <2>1. \E x, y \in Guest : x # y /\ podOf[x] = podOf[y]
    BY <1>3, <1>5, <1>7, PodFinite, FS_PigeonHole
  <2>. QED
    BY <2>1, <1>2
<1>. QED
  BY <1>4, <1>5, <1>6, <1>7

(* A step creates a guest only in that situation.                          *)
LEMMA GrowsWhenAllBound ==
  ASSUME PoolInv, [PoolNext]_poolVars
  PROVE  \/ instanceCounter' = instanceCounter
         \/ /\ instanceCounter' = instanceCounter + 1
            /\ free = <<>> /\ scheduled = NoGuest /\ taken = NoGuest
<1>1. CASE UNCHANGED poolVars
  BY <1>1 DEF poolVars
<1>2. ASSUME NEW c \in Caller, PoolStep(c),
             instanceCounter' # instanceCounter
      PROVE  /\ instanceCounter' = instanceCounter + 1
             /\ free = <<>> /\ scheduled = NoGuest /\ mux = NoCaller
  BY <1>2 DEF PoolStep, DoWithGuest, DoWithGuestFails, DoWithGuestReturns,
     DoWithSchedulingGuest, DoWithSchedulingGuestFails,
     DoWithSchedulingGuestReturns, RunForBinding, AssociateForBinding,
     GetForBinding, GetForBindingPanics, BindingCallReturns, FreeFromBinding,
     NewGuest, NewGuestFails, Lock
<1>3. mux = NoCaller => taken = NoGuest
  BY DEF PoolInv, LockHolderRuns
<1>. QED
  BY <1>1, <1>2, <1>3 DEF PoolNext

(* The pool never holds more than one guest more than there are pods.      *)
THEOREM PoolIsBounded == PoolSpec => []PoolBound
<1>1. PoolInit => PoolBound
  <2>1. Cardinality(Pod) \in Nat
    BY PodFinite, FS_CardinalityType
  <2>. QED
    BY <2>1 DEF PoolInit, PoolBound
<1>2. PoolInv /\ PoolBound /\ [PoolNext]_poolVars => PoolBound'
  <2>. SUFFICES ASSUME PoolInv, PoolBound, [PoolNext]_poolVars
                PROVE  PoolBound'
    OBVIOUS
  <2>1. instanceCounter \in Nat /\ Cardinality(Pod) \in Nat
    BY PodFinite, FS_CardinalityType DEF PoolInv, TypeOK
  <2>. QED
    BY <2>1, AllBound, GrowsWhenAllBound DEF PoolBound
<1>. QED
  BY <1>1, <1>2, PoolInvariant, PTL DEF PoolSpec

(* No step takes a binding guest away from its pod except freeFromBinding, *)
(* which puts it back in the free list.                                    *)
THEOREM BindingStaysUntilFreed == PoolSpec => BindingIsSticky
<1>. DEFINE Sticky ==
       \A p \in Pod : binding[p] # NoGuest /\ binding'[p] # binding[p]
         => /\ binding'[p] = NoGuest
            /\ free' = Append(free, binding[p])
<1>1. ASSUME PoolInv, NEW c \in Caller, PoolStep(c)
      PROVE  Sticky
  <2>1. binding \in [Pod -> Guest \cup {NoGuest}]
    BY <1>1 DEF PoolInv, TypeOK
  <2>2. ASSUME NEW p \in Pod, GetForBinding(c, p)
        PROVE  Sticky
    BY <2>1, <2>2 DEF GetForBinding
  <2>3. ASSUME NEW p \in Pod, FreeFromBinding(c, p)
        PROVE  Sticky
    BY <2>1, <2>3 DEF FreeFromBinding
  <2>4. ASSUME binding' = binding
        PROVE  Sticky
    BY <2>4
  <2>. HIDE DEF Sticky
  <2>. QED
    BY <1>1, <2>2, <2>3, <2>4
       DEF PoolStep, DoWithGuest, DoWithGuestFails, DoWithGuestReturns,
           DoWithSchedulingGuest, DoWithSchedulingGuestFails,
           DoWithSchedulingGuestReturns, RunForBinding, AssociateForBinding,
           GetForBindingPanics, BindingCallReturns
<1>2. PoolInv /\ [PoolNext]_poolVars => [Sticky]_poolVars
  BY <1>1 DEF PoolNext
<1>. QED
  BY <1>2, PoolInvariant, PTL DEF PoolSpec, BindingIsSticky

-----------------------------------------------------------------------------
(* The pool implements GuestOwnership: each step of pool.go is a change of *)
(* owner the abstract specification allows, or none.                       *)
(* What the refinement mapping says of each guest when PoolInv holds.      *)
OwnerFacts ==
  /\ DOMAIN owner = Guest
  /\ owner = [g \in Guest |-> owner[g]]
  /\ \A g \in Guest :
       /\ owner[g] \in {"starting", "scheduling", "free"} \cup Pod
       /\ owner[g] = "starting" <=> g = taken
       /\ owner[g] = "scheduling" <=> g = scheduled
       /\ owner[g] = "free" <=> IsFree(g)
       /\ \A p \in Pod : owner[g] = p <=> binding[p] = g

LEMMA OwnerMapping == PoolInv => OwnerFacts
<1>. SUFFICES ASSUME PoolInv PROVE OwnerFacts
  OBVIOUS
<1>1. DOMAIN owner = Guest /\ owner = [g \in Guest |-> owner[g]]
  BY DEF owner
<1>2. ASSUME NEW g \in Guest
      PROVE  /\ owner[g] \in {"starting", "scheduling", "free"} \cup Pod
             /\ owner[g] = "starting" <=> g = taken
             /\ owner[g] = "scheduling" <=> g = scheduled
             /\ owner[g] = "free" <=> IsFree(g)
             /\ \A p \in Pod : owner[g] = p <=> binding[p] = g
  <2>1. g # NoGuest
    BY DEF PoolInv, TypeOK, Guest, NoGuest
  <2>2. \E o \in Owners(g) : Owners(g) = {o}
    <3>1. IsFree(g) \/ IsBound(g) \/ g = scheduled \/ g = taken
      BY DEF PoolInv, NoneLost
    <3>2. /\ g = taken => ~IsFree(g) /\ ~IsBound(g) /\ g # scheduled
          /\ g = scheduled => ~IsFree(g) /\ ~IsBound(g)
          /\ IsBound(g) => ~IsFree(g)
      BY <2>1 DEF PoolInv, OnePlace, IsBound
    <3>3. \A p, q \in Pod : binding[p] = g /\ binding[q] = g => p = q
      BY <2>1 DEF PoolInv, OnePlace
    <3>. QED
      BY <3>1, <3>2, <3>3 DEF Owners, IsBound
  <2>3. Owners(g) = {owner[g]}
    BY <2>2 DEF owner
  <2>. QED
    BY <2>3, PodNotARole DEF Owners
<1>. QED
  BY <1>1, <1>2 DEF OwnerFacts

LEMMA OwnerMappingNext == PoolInv' => OwnerFacts'
BY OwnerMapping, PTL

(* A guest that stays where it is keeps its owner.                         *)
LEMMA SameOwner ==
  ASSUME OwnerFacts, OwnerFacts', NEW g \in Guest, g \in Guest',
         g = taken' <=> g = taken,
         g = scheduled' <=> g = scheduled,
         IsFree(g)' <=> IsFree(g),
         \A p \in Pod : binding'[p] = g <=> binding[p] = g
  PROVE  owner'[g] = owner[g]
BY DEF OwnerFacts

LEMMA NobodyMoves ==
  ASSUME PoolInv, PoolInv',
         UNCHANGED <<taken, scheduled, binding, free, instanceCounter>>
  PROVE  owner' = owner
BY DEF owner, Owners, Guest, IsFree

(* Exactly one guest changes its owner.                                    *)
LEMMA OneMoves ==
  ASSUME OwnerFacts, OwnerFacts', Guest' = Guest,
         NEW x \in Guest, NEW o, owner'[x] = o,
         \A g \in Guest \ {x} : owner'[g] = owner[g]
  PROVE  Ownership!Give(x, o)
BY DEF OwnerFacts, Ownership!Give

(* A new guest appears, the others keep theirs.                            *)
LEMMA OneAppears ==
  ASSUME PoolInv, OwnerFacts, OwnerFacts', free = <<>>,
         instanceCounter' = instanceCounter + 1,
         NEW o, owner'[instanceCounter'] = o,
         \A g \in Guest : owner'[g] = owner[g]
  PROVE  Ownership!TakeNew(o)
<1>. DEFINE n == instanceCounter + 1
<1>1. /\ instanceCounter \in Nat \ {0} /\ Guest = 1..(n - 1) /\ Guest' = 1..n
      /\ instanceCounter \in Guest
  BY DEF PoolInv, TypeOK, Guest
<1>2. DOMAIN owner = Guest /\ owner' = [g \in 1..n |-> owner'[g]]
  BY <1>1 DEF OwnerFacts
<1>3. owner' = [g \in 1..n |-> IF g = n THEN o ELSE owner[g]]
  BY <1>1, <1>2
<1>4. n \in {1 + i : i \in DOMAIN owner}
  BY <1>1, <1>2
<1>5. Ownership!Unowned("free")
  BY <1>2 DEF Ownership!Unowned, Ownership!Guests, OwnerFacts, IsFree
<1>. QED
  BY <1>1, <1>2, <1>3, <1>4, <1>5 DEF Ownership!TakeNew, Ownership!Guests

-----------------------------------------------------------------------------
LEMMA OwnershipInit == PoolInit => Ownership!Init
<1>. SUFFICES ASSUME PoolInit PROVE owner = [g \in 1..1 |-> "free"]
  BY DEF Ownership!Init
<1>1. OwnerFacts /\ Guest = 1..1
  BY PoolInitInv, OwnerMapping DEF PoolInit, Guest
<1>2. \A g \in 1..1 : g = 1 /\ IsFree(g)
  BY DEF PoolInit, IsFree
<1>. QED
  BY <1>1, <1>2 DEF OwnerFacts

(* What the free list holds after a guest was taken from it or put back.   *)
LEMMA AfterTake ==
  ASSUME PoolInv, free # <<>>, free' = Tail(free)
  PROVE  /\ Head(free) \in Guest /\ IsFree(Head(free))
         /\ \A g \in Guest \ {Head(free)} : IsFree(g)' <=> IsFree(g)
<1>1. free \in Seq(Guest) /\ Distinct(free)
  BY FreeFacts
<1>2. /\ Head(free) \in Guest
      /\ \A x : Has(free, x) <=> x = Head(free) \/ Has(Tail(free), x)
      /\ ~Has(Tail(free), Head(free))
  BY <1>1, TakeHead
<1>3. \A g : (IsFree(g) <=> Has(free, g)) /\ (IsFree(g)' <=> Has(Tail(free), g))
  BY FreeFacts
<1>. QED
  BY <1>2, <1>3

(* doWithGuest takes a guest of the scheduling cycle, a free or a new one. *)
LEMMA DoWithGuestStarts ==
  ASSUME PoolInv, PoolInv', NEW c \in Caller, DoWithGuest(c)
  PROVE  Ownership!Start
<1>. USE DEF NoGuest
<1>1. OwnerFacts /\ OwnerFacts' /\ 0 \notin Guest
  BY OwnerMapping, OwnerMappingNext DEF Guest
<1>2. taken = NoGuest /\ UNCHANGED binding
  BY DEF PoolInv, LockHolderRuns, DoWithGuest, Lock
<1>3. Ownership!Unowned("starting")
  BY <1>1, <1>2 DEF Ownership!Unowned, Ownership!Guests, OwnerFacts
<1>4. CASE scheduled # NoGuest
  <2>1. /\ taken' = scheduled /\ scheduled' = NoGuest
        /\ UNCHANGED <<free, instanceCounter>>
    BY <1>4 DEF DoWithGuest
  <2>2. scheduled \in Guest /\ Guest' = Guest
    BY <1>4, <2>1 DEF PoolInv, TypeOK, Guest
  <2>3. \A g \in Guest \ {scheduled} : owner'[g] = owner[g]
    BY <1>1, <1>2, <2>1, <2>2, SameOwner DEF IsFree
  <2>4. owner[scheduled] = "scheduling" /\ owner'[scheduled] = "starting"
    BY <1>1, <2>1, <2>2 DEF OwnerFacts
  <2>5. Ownership!Give(scheduled, "starting")
    BY <1>1, <2>2, <2>3, <2>4, OneMoves
  <2>. QED
    BY <1>1, <1>3, <2>2, <2>4, <2>5
       DEF Ownership!Start, Ownership!Guests, OwnerFacts
<1>5. CASE scheduled = NoGuest
  <2>1. Ownership!Unowned("scheduling")
    BY <1>1, <1>5 DEF Ownership!Unowned, Ownership!Guests, OwnerFacts
  <2>2. CASE free # <<>>
    <3>1. /\ taken' = Head(free) /\ free' = Tail(free)
          /\ UNCHANGED <<scheduled, instanceCounter>> /\ Guest' = Guest
      BY <1>5, <2>2 DEF DoWithGuest, Guest
    <3>2. /\ Head(free) \in Guest /\ IsFree(Head(free))
          /\ \A g \in Guest \ {Head(free)} : IsFree(g)' <=> IsFree(g)
      BY <2>2, <3>1, AfterTake
    <3>3. \A g \in Guest \ {Head(free)} : owner'[g] = owner[g]
      BY <1>1, <1>2, <3>1, <3>2, SameOwner
    <3>4. owner[Head(free)] = "free" /\ owner'[Head(free)] = "starting"
      BY <1>1, <3>1, <3>2 DEF OwnerFacts
    <3>5. Ownership!Give(Head(free), "starting")
      BY <1>1, <3>1, <3>2, <3>3, <3>4, OneMoves
    <3>. QED
      BY <1>1, <1>3, <2>1, <3>2, <3>4, <3>5
         DEF Ownership!Start, Ownership!TakeFree, Ownership!Guests, OwnerFacts
  <2>3. CASE free = <<>>
    <3>1. /\ instanceCounter' = instanceCounter + 1 /\ taken' = instanceCounter'
          /\ UNCHANGED <<scheduled, free>>
      BY <1>5, <2>3 DEF DoWithGuest, NewGuest
    <3>2. /\ instanceCounter' \in Guest' /\ instanceCounter' \notin Guest
          /\ Guest \subseteq Guest'
      BY <3>1 DEF PoolInv, TypeOK, Guest
    <3>3. \A g \in Guest : owner'[g] = owner[g]
      BY <1>1, <1>2, <3>1, <3>2, SameOwner DEF IsFree
    <3>4. owner'[instanceCounter'] = "starting"
      BY <1>1, <3>1, <3>2 DEF OwnerFacts
    <3>5. Ownership!TakeNew("starting")
      BY <1>1, <2>3, <3>1, <3>3, <3>4, OneAppears
    <3>. QED
      BY <1>3, <2>1, <3>5 DEF Ownership!Start
  <2>. QED
    BY <2>2, <2>3
<1>. QED
  BY <1>4, <1>5

(* doWithSchedulingGuest keeps the scheduled guest or takes one.           *)
LEMMA DoWithSchedulingGuestSchedules ==
  ASSUME PoolInv, PoolInv', NEW c \in Caller, NEW p \in Pod,
         DoWithSchedulingGuest(c, p)
  PROVE  Ownership!Schedule \/ owner' = owner
<1>. USE DEF NoGuest
<1>1. OwnerFacts /\ OwnerFacts' /\ 0 \notin Guest
  BY OwnerMapping, OwnerMappingNext DEF Guest
<1>2. taken = NoGuest /\ UNCHANGED <<binding, taken>>
  BY DEF PoolInv, LockHolderRuns, DoWithSchedulingGuest, Lock
<1>3. Ownership!Unowned("starting")
  BY <1>1, <1>2 DEF Ownership!Unowned, Ownership!Guests, OwnerFacts
<1>4. CASE scheduled # NoGuest
  BY <1>2, <1>4, NobodyMoves DEF DoWithSchedulingGuest
<1>5. CASE scheduled = NoGuest
  <2>1. Ownership!Unowned("scheduling")
    BY <1>1, <1>5 DEF Ownership!Unowned, Ownership!Guests, OwnerFacts
  <2>2. CASE free # <<>>
    <3>1. /\ scheduled' = Head(free) /\ free' = Tail(free)
          /\ UNCHANGED instanceCounter /\ Guest' = Guest
      BY <1>5, <2>2 DEF DoWithSchedulingGuest, Guest
    <3>2. /\ Head(free) \in Guest /\ IsFree(Head(free))
          /\ \A g \in Guest \ {Head(free)} : IsFree(g)' <=> IsFree(g)
      BY <2>2, <3>1, AfterTake
    <3>3. \A g \in Guest \ {Head(free)} : owner'[g] = owner[g]
      BY <1>1, <1>2, <1>5, <3>1, <3>2, SameOwner
    <3>4. owner[Head(free)] = "free" /\ owner'[Head(free)] = "scheduling"
      BY <1>1, <3>1, <3>2 DEF OwnerFacts
    <3>5. Ownership!Give(Head(free), "scheduling")
      BY <1>1, <3>1, <3>2, <3>3, <3>4, OneMoves
    <3>. QED
      BY <1>1, <1>3, <2>1, <3>2, <3>4, <3>5
         DEF Ownership!Schedule, Ownership!TakeFree, Ownership!Guests,
             OwnerFacts
  <2>3. CASE free = <<>>
    <3>1. /\ instanceCounter' = instanceCounter + 1
          /\ scheduled' = instanceCounter' /\ UNCHANGED free
      BY <1>5, <2>3 DEF DoWithSchedulingGuest, NewGuest
    <3>2. /\ instanceCounter' \in Guest' /\ instanceCounter' \notin Guest
          /\ Guest \subseteq Guest'
      BY <3>1 DEF PoolInv, TypeOK, Guest
    <3>3. \A g \in Guest : owner'[g] = owner[g]
      BY <1>1, <1>2, <1>5, <3>1, <3>2, SameOwner DEF IsFree
    <3>4. owner'[instanceCounter'] = "scheduling"
      BY <1>1, <3>1, <3>2 DEF OwnerFacts
    <3>5. Ownership!TakeNew("scheduling")
      BY <1>1, <2>3, <3>1, <3>3, <3>4, OneAppears
    <3>. QED
      BY <1>3, <2>1, <3>5 DEF Ownership!Schedule
  <2>. QED
    BY <2>2, <2>3
<1>. QED
  BY <1>4, <1>5

(* put gives the guest of doWithGuest to the free pool.                    *)
LEMMA DoWithGuestEnds ==
  ASSUME PoolInv, PoolInv', NEW c \in Caller, DoWithGuestReturns(c)
  PROVE  Ownership!Started
<1>. USE DEF NoGuest
<1>1. OwnerFacts /\ OwnerFacts' /\ 0 \notin Guest
  BY OwnerMapping, OwnerMappingNext DEF Guest
<1>2. /\ taken # NoGuest /\ taken' = NoGuest /\ free' = Append(free, taken)
      /\ UNCHANGED <<scheduled, binding, instanceCounter>> /\ Guest' = Guest
  BY DEF DoWithGuestReturns, Guest
<1>3. taken \in Guest /\ ~IsFree(taken)
  BY <1>2 DEF PoolInv, TypeOK, OnePlace
<1>4. \A x : IsFree(x)' <=> x = taken \/ IsFree(x)
  BY <1>2, <1>3, PutBack
<1>5. \A g \in Guest \ {taken} : owner'[g] = owner[g]
  BY <1>1, <1>2, <1>4, SameOwner
<1>6. owner[taken] = "starting" /\ owner'[taken] = "free"
  BY <1>1, <1>2, <1>3, <1>4 DEF OwnerFacts
<1>7. Ownership!Give(taken, "free")
  BY <1>1, <1>2, <1>3, <1>5, <1>6, OneMoves
<1>. QED
  BY <1>1, <1>3, <1>6, <1>7 DEF Ownership!Started, Ownership!Guests, OwnerFacts

(* getForBinding hands the scheduled guest to the pod.                     *)
LEMMA GetForBindingBinds ==
  ASSUME PoolInv, PoolInv', NEW c \in Caller, NEW p \in Pod, GetForBinding(c, p)
  PROVE  Ownership!Bind(p) \/ owner' = owner
<1>. USE DEF NoGuest
<1>1. OwnerFacts /\ OwnerFacts' /\ 0 \notin Guest
  BY OwnerMapping, OwnerMappingNext DEF Guest
<1>2. CASE binding[p] # NoGuest
  BY <1>2, NobodyMoves DEF GetForBinding
<1>3. CASE binding[p] = NoGuest
  <2>1. /\ scheduled # NoGuest /\ scheduled' = NoGuest
        /\ binding' = [binding EXCEPT ![p] = scheduled]
        /\ UNCHANGED <<free, taken, instanceCounter>> /\ Guest' = Guest
    BY <1>3 DEF GetForBinding, Guest
  <2>2. /\ scheduled \in Guest
        /\ \A q \in Pod : binding'[q] = IF q = p THEN scheduled ELSE binding[q]
    BY <2>1 DEF PoolInv, TypeOK
  <2>3. \A g \in Guest \ {scheduled} : owner'[g] = owner[g]
    BY <1>1, <1>3, <2>1, <2>2, SameOwner DEF IsFree
  <2>4. owner[scheduled] = "scheduling" /\ owner'[scheduled] = p
    BY <1>1, <2>1, <2>2 DEF OwnerFacts
  <2>5. Ownership!Give(scheduled, p)
    BY <1>1, <2>1, <2>2, <2>3, <2>4, OneMoves
  <2>6. Ownership!Unowned(p)
    BY <1>1, <1>3 DEF Ownership!Unowned, Ownership!Guests, OwnerFacts
  <2>. QED
    BY <1>1, <2>2, <2>4, <2>5, <2>6
       DEF Ownership!Bind, Ownership!Guests, OwnerFacts
<1>. QED
  BY <1>2, <1>3

(* freeFromBinding gives the pod's guest to the free pool.                 *)
LEMMA FreeFromBindingReleases ==
  ASSUME PoolInv, PoolInv', NEW c \in Caller, NEW p \in Pod,
         FreeFromBinding(c, p)
  PROVE  Ownership!Release(p) \/ owner' = owner
<1>. USE DEF NoGuest
<1>1. OwnerFacts /\ OwnerFacts' /\ 0 \notin Guest
  BY OwnerMapping, OwnerMappingNext DEF Guest
<1>2. CASE binding[p] = NoGuest
  BY <1>2, NobodyMoves DEF FreeFromBinding
<1>3. CASE binding[p] # NoGuest
  <2>. DEFINE x == binding[p]
  <2>1. /\ free' = Append(free, x) /\ binding' = [binding EXCEPT ![p] = NoGuest]
        /\ UNCHANGED <<scheduled, taken, instanceCounter>> /\ Guest' = Guest
    BY <1>3 DEF FreeFromBinding, Guest
  <2>2. /\ x \in Guest /\ ~IsFree(x)
        /\ \A q \in Pod : binding'[q] = IF q = p THEN NoGuest ELSE binding[q]
    BY <1>3, <2>1 DEF PoolInv, TypeOK, OnePlace
  <2>3. \A y : IsFree(y)' <=> y = x \/ IsFree(y)
    BY <2>1, <2>2, PutBack
  <2>. HIDE DEF x
  <2>4. \A g \in Guest \ {x} : owner'[g] = owner[g]
    <3>1. \A g \in Guest \ {x}, q \in Pod : binding'[q] = g <=> binding[q] = g
      BY <1>1, <2>2 DEF x
    <3>. QED
      BY <1>1, <2>1, <2>3, <3>1, SameOwner
  <2>5. owner[x] = p /\ owner'[x] = "free"
    BY <1>1, <2>1, <2>2, <2>3 DEF OwnerFacts, x
  <2>6. Ownership!Give(x, "free")
    BY <1>1, <2>1, <2>2, <2>4, <2>5, OneMoves
  <2>. QED
    BY <1>1, <2>2, <2>5, <2>6
       DEF Ownership!Release, Ownership!Guests, OwnerFacts
<1>. QED
  BY <1>2, <1>3

LEMMA StepOwnership ==
  ASSUME PoolInv, PoolInv', [PoolNext]_poolVars
  PROVE  [Ownership!Next]_owner
<1>1. CASE UNCHANGED poolVars
  BY <1>1, NobodyMoves DEF poolVars
<1>2. ASSUME NEW c \in Caller, PoolStep(c)
      PROVE  Ownership!Next \/ owner' = owner
  <2>1. CASE DoWithGuest(c)
    BY <2>1, DoWithGuestStarts DEF Ownership!Next
  <2>2. CASE DoWithGuestReturns(c)
    BY <2>2, DoWithGuestEnds DEF Ownership!Next
  <2>3. CASE DoWithGuestFails(c) \/ DoWithSchedulingGuestReturns(c)
               \/ BindingCallReturns(c)
    BY <2>3, NobodyMoves
       DEF DoWithGuestFails, NewGuestFails, DoWithSchedulingGuestReturns,
           BindingCallReturns
  <2>4. ASSUME NEW p \in Pod, DoWithSchedulingGuest(c, p)
        PROVE  Ownership!Next \/ owner' = owner
    BY <2>4, DoWithSchedulingGuestSchedules DEF Ownership!Next
  <2>5. ASSUME NEW p \in Pod,
               DoWithSchedulingGuestFails(c, p) \/ GetForBindingPanics(c, p)
        PROVE  owner' = owner
    BY <2>5, NobodyMoves
       DEF DoWithSchedulingGuestFails, NewGuestFails, GetForBindingPanics
  <2>6. ASSUME NEW p \in Pod, RunForBinding(c, p) \/ AssociateForBinding(c, p)
        PROVE  Ownership!Next \/ owner' = owner
    BY <2>6, GetForBindingBinds
       DEF RunForBinding, AssociateForBinding, Ownership!Next
  <2>7. ASSUME NEW p \in Pod, FreeFromBinding(c, p)
        PROVE  Ownership!Next \/ owner' = owner
    BY <2>7, FreeFromBindingReleases DEF Ownership!Next
  <2>. QED
    BY <1>2, <2>1, <2>2, <2>3, <2>4, <2>5, <2>6, <2>7 DEF PoolStep
<1>. QED
  BY <1>1, <1>2 DEF PoolNext

(* pool.go implements GuestOwnership for every set of callers and pods.    *)
THEOREM PoolImplementsOwnership == PoolSpec => OwnershipSpec
<1>. QED
  BY OwnershipInit, StepOwnership, PoolInvariant, PTL
     DEF PoolSpec, OwnershipSpec, Ownership!Spec
=============================================================================
