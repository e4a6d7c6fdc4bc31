----------------------------- MODULE MCGuestCalls -----------------------------
EXTENDS GuestCalls

MCText == {<<>>, <<"a">>, <<NUL>>}

(* No names, an empty one, one twice, and one between two.                 *)
MCNodeNames ==
  {<<>>, << <<>> >>, << <<"a">>, <<"a">> >>, << <<"a">>, <<>>, <<"b", "c">> >>}

(* The words at their limits, and one the host has no resource for.        *)
MCEvent ==
  {[Resource |-> 0, ActionType |-> Half - 1],
   [Resource |-> Half - 1, ActionType |-> 1],
   [Resource |-> 2, ActionType |-> 2]}
=============================================================================
