---------------------------- MODULE GuestOwnership ----------------------------
(***************************************************************************)
(* What guestPool promises, without its lock, its fields or its order:     *)
(* every guest has one owner, a scheduling cycle and a pod's binding cycle *)
(* own at most one guest each, a guest reaches a pod only from the         *)
(* scheduling cycle, leaves it only for the free pool, and a guest is      *)
(* created only when there is none to use.                                 *)
(***************************************************************************)
EXTENDS Naturals

CONSTANTS Pod, Free, Scheduling, Starting

VARIABLE owner    \* the owner of each guest, guests being numbered from 1

Guests == DOMAIN owner

Unowned(o) == \A g \in Guests : owner[g] # o

Give(g, o) == owner' = [owner EXCEPT ![g] = o]

Init == owner = [g \in 1..1 |-> Free]

(* The scheduling cycle, or the call that precedes it, takes a free guest. *)
TakeFree(o) ==
  \E g \in Guests : owner[g] = Free /\ Give(g, o)

(* It gets a new guest when no guest is free.                              *)
TakeNew(o) ==
  /\ Unowned(Free)
  /\ \E n \in {1 + i : i \in Guests} :
       /\ Guests = 1..(n - 1)
       /\ owner' = [g \in 1..n |-> IF g = n THEN o ELSE owner[g]]

Schedule ==
  /\ Unowned(Scheduling) /\ Unowned(Starting)
  /\ TakeFree(Scheduling) \/ TakeNew(Scheduling)

Start ==
  /\ Unowned(Starting)
  /\ \/ \E g \in Guests : owner[g] = Scheduling /\ Give(g, Starting)
     \/ Unowned(Scheduling) /\ (TakeFree(Starting) \/ TakeNew(Starting))

Started ==
  \E g \in Guests : owner[g] = Starting /\ Give(g, Free)

Bind(p) ==
  /\ Unowned(p)
  /\ \E g \in Guests : owner[g] = Scheduling /\ Give(g, p)

Release(p) ==
  \E g \in Guests : owner[g] = p /\ Give(g, Free)

Next ==
  \/ Schedule \/ Start \/ Started
  \/ \E p \in Pod : Bind(p) \/ Release(p)

Spec == Init /\ [][Next]_owner
=============================================================================
