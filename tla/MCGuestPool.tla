----------------------------- MODULE MCGuestPool -----------------------------
(***************************************************************************)
(* The pool on its own, under callers that make any call in any order:     *)
(* more than kube-scheduler does, so what holds here holds for any use.    *)
(***************************************************************************)
EXTENDS GuestPool
=============================================================================
