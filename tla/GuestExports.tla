----------------------------- MODULE GuestExports -----------------------------
(***************************************************************************)
(* Which functions of a guest kube-scheduler gets to call: the interfaces  *)
(* detected from its exports (guest.go), the Go interfaces the masked      *)
(* plugin is left with (mask.go) and the early returns of the handlers     *)
(* (plugin.go).                                                            *)
(***************************************************************************)

(* The bit detectInterfaces sets for an exported function.                 *)
InterfaceOf ==
  [enqueue   |-> "EnqueueExtensions",
   prefilter |-> "PreFilterPlugin",
   addpod    |-> "PreFilterExtensions", removepod |-> "PreFilterExtensions",
   filter    |-> "FilterPlugin",        postfilter |-> "PostFilterPlugin",
   prescore  |-> "PreScorePlugin",      score |-> "ScorePlugin",
   normalizescore |-> "ScoreExtensions",
   reserve   |-> "ReservePlugin",       unreserve |-> "ReservePlugin",
   permit    |-> "PermitPlugin",
   prebind   |-> "PreBindPlugin",       bind |-> "BindPlugin",
   postbind  |-> "PostBindPlugin"]

AllOps == DOMAIN InterfaceOf

detectInterfaces(exports) == {InterfaceOf[op] : op \in exports}

(* The functions behind the methods of each interface of mask.go.  All of  *)
(* PreFilterExtensions are reached through the PreFilterPlugin that every  *)
(* plugin is.                                                              *)
basePlugin == {"enqueue", "prefilter", "addpod", "removepod"}
MainPlugin ==
  [FilterPlugin  |-> {"filter", "postfilter", "addpod", "removepod"},
   ScorePlugin   |-> {"prescore", "score", "normalizescore"},
   ReservePlugin |-> {"reserve", "unreserve"},
   PermitPlugin  |-> {"permit"},
   BindPlugin    |-> {"prebind", "bind", "postbind"}]

Main == DOMAIN MainPlugin

(* The cases of the switch over the main interfaces of a guest, in their   *)
(* order: the interfaces matched, and those the case's struct embeds beside *)
(* basePlugin.                                                             *)
MaskCases ==
  LET F == "FilterPlugin"  S == "ScorePlugin"  R == "ReservePlugin"
      P == "PermitPlugin"  B == "BindPlugin"
  IN {<<{F},             {F}>>,
      <<{F, S},          {F, S}>>,
      <<{F, S, B},       {F, S, B}>>,
      <<{R},             {R}>>,
      <<{P},             {P}>>,
      <<{B},             {B}>>,
      <<{F, R},          {F, R}>>,
      <<{F, P},          {F, P}>>,
      <<{F, B},          {F, B}>>,
      <<{S},             {S}>>,
      <<{S, R},          {S, R}>>,
      <<{S, P},          {S, P}>>,
      <<{S, B},          {S, B}>>,
      <<{R, B},          {R, B}>>,
      <<{P, B},          {P, B}>>,
      <<{F, S, R},       {F, S, R}>>,
      <<{F, S, P},       {F, S, P}>>,
      <<{F, S, B, R},    {F, S, B, R}>>,
      <<{F, S, B, P},    {F, S, B, P}>>,
      <<{S, R, B},       {S, R, B}>>,
      <<{S, P, B},       {S, P, B}>>,
      <<{R, P, B},       {R, P, B}>>,
      <<{F, S, R, B, P}, {F, S, R, P, B}>>}

CasesOf(interfaces) == {c \in MaskCases : c[1] = interfaces \cap Main}

(* A guest that matches no case is refused, unless prefilter is all it has. *)
Maskable(interfaces) ==
  CasesOf(interfaces) # {} \/ interfaces = {"PreFilterPlugin"}

(* Bug: the case of filter, score and bind forgets to embed bindPlugin.    *)
EmbeddedWithoutBind(interfaces) ==
  UNION {c[2] : c \in CasesOf(interfaces)}
    \ IF interfaces \cap Main = {"FilterPlugin", "ScorePlugin", "BindPlugin"}
        THEN {"BindPlugin"} ELSE {}

Embedded(interfaces) == UNION {c[2] : c \in CasesOf(interfaces)}

(* The functions the masked plugin has a method for.                       *)
maskInterfaces(interfaces) ==
  basePlugin \cup UNION {MainPlugin[i] : i \in Embedded(interfaces)}

(* The handlers, and the methods that return an extension, that return     *)
(* early when the bit of their own interface is not set; Filter, Score,    *)
(* Reserve, Unreserve, Permit and Bind rely on the mask alone.             *)
Checked == {"enqueue", "addpod", "removepod", "prefilter", "postfilter",
            "prescore", "normalizescore", "prebind", "postbind"}

(* Bug: PostBind does not check.                                           *)
UnimplementedUnlessPostBind(interfaces, op) ==
  op \in Checked \ {"postbind"} /\ InterfaceOf[op] \notin interfaces

Unimplemented(interfaces, op) ==
  op \in Checked /\ InterfaceOf[op] \notin interfaces

(* The framework's call of op reaches the guest.                           *)
Reaches(interfaces, op) ==
  op \in maskInterfaces(interfaces) /\ ~Unimplemented(interfaces, op)

(* The guest SDK exports these together, from one package.                 *)
Paired(exports) ==
  /\ "reserve" \in exports <=> "unreserve" \in exports
  /\ "addpod" \in exports <=> "removepod" \in exports
=============================================================================
