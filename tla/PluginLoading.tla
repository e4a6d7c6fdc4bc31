---------------------------- MODULE PluginLoading ----------------------------
(***************************************************************************)
(* NewFromConfig (plugin.go) and what it calls: prepareRuntime             *)
(* (runtime.go), newWasmPlugin with its first guest, maskInterfaces; then  *)
(* the framework's calls of the plugin, and its Close.                     *)
(***************************************************************************)
EXTENDS GuestExports

CONSTANT Modules   \* the guests that may be configured: what each exports,
                   \* whether it has a memory and the right signatures

ASSUME ModulesAssumption ==
  Modules \subseteq [exports : SUBSET AllOps, memory : BOOLEAN,
                     signatures : BOOLEAN]

VARIABLES
  module,           \* the guest at the configured URL
  step,             \* how far the plugin is
  err,              \* the function that is returning returns an error
  runtime,          \* its wazero runtime: "none", "open" or "closed"
  guests,           \* the instances the runtime holds
  guestInterfaces,  \* what detectInterfaces returned
  calling           \* the function of the guest the framework last called

loadVars == <<module, step, err, runtime, guests, guestInterfaces, calling>>

LoadInit ==
  /\ module \in Modules
  /\ step = "reading" /\ err = FALSE /\ runtime = "none"
  /\ guests = {} /\ guestInterfaces = {} /\ calling = "none"

(* A runtime takes every instance with it; it may be closed twice.         *)
CloseRuntime == runtime' = "closed" /\ guests' = {}

(* getURL fails before there is a runtime.                                 *)
GetURLFails ==
  /\ step = "reading" /\ step' = "failed"
  /\ UNCHANGED <<module, err, runtime, guests, guestInterfaces, calling>>

NewRuntime ==
  /\ step = "reading" /\ step' = "compiling"
  /\ runtime' = "open"
  /\ UNCHANGED <<module, err, guests, guestInterfaces, calling>>

CompileGuest ==
  /\ step = "compiling"
  /\ err' \in {~module.memory, TRUE}
  /\ step' = IF err' THEN "prepared" ELSE "hosting"
  /\ UNCHANGED <<module, runtime, guests, guestInterfaces, calling>>

(* wasi and the three host modules; the first that fails is the last.      *)
InstantiateHosts ==
  /\ step = "hosting" /\ step' = "prepared"
  /\ err' \in BOOLEAN
  /\ UNCHANGED <<module, runtime, guests, guestInterfaces, calling>>

(* Bug: the deferred function sees the err of before the host modules.     *)
PrepareRuntimeReturnsOpen ==
  /\ step = "prepared"
  /\ step' = IF err THEN "failed" ELSE "detecting"
  /\ \/ ~module.memory /\ CloseRuntime
     \/ module.memory /\ UNCHANGED <<runtime, guests>>
  /\ UNCHANGED <<module, err, guestInterfaces, calling>>

(* The deferred function of prepareRuntime; NewFromConfig returns its      *)
(* error as it is.                                                         *)
PrepareRuntimeReturns ==
  /\ step = "prepared"
  /\ \/ err /\ step' = "failed" /\ CloseRuntime
     \/ ~err /\ step' = "detecting" /\ UNCHANGED <<runtime, guests>>
  /\ UNCHANGED <<module, err, guestInterfaces, calling>>

(* Bug: the exports are kept, and not their interfaces.                    *)
DetectExports ==
  /\ step = "detecting"
  /\ guestInterfaces' = module.exports
  /\ step' = "pooling"
  /\ UNCHANGED <<module, err, runtime, guests, calling>>

DetectInterfaces ==
  /\ step = "detecting"
  /\ \/ /\ module.signatures /\ module.exports # {}
        /\ guestInterfaces' = detectInterfaces(module.exports)
        /\ step' = "pooling" /\ UNCHANGED err
     \/ /\ ~module.signatures \/ module.exports = {}
        /\ err' = TRUE /\ step' = "created" /\ UNCHANGED guestInterfaces
  /\ UNCHANGED <<module, runtime, guests, calling>>

(* newGuest closes the runtime itself when the first guest does not start. *)
NewGuestPool ==
  /\ step = "pooling" /\ step' = "created"
  /\ \/ guests' = {1} /\ UNCHANGED <<err, runtime>>
     \/ err' = TRUE /\ CloseRuntime
  /\ UNCHANGED <<module, guestInterfaces, calling>>

NewWasmPluginReturns ==
  /\ step = "created"
  /\ \/ err /\ step' = "failed" /\ CloseRuntime
     \/ ~err /\ step' = "masking" /\ UNCHANGED <<runtime, guests>>
  /\ UNCHANGED <<module, err, guestInterfaces, calling>>

MaskInterfaces ==
  /\ step = "masking" /\ step' = "masked"
  /\ err' = ~Maskable(guestInterfaces)
  /\ UNCHANGED <<module, runtime, guests, guestInterfaces, calling>>

(* Bug: the error of maskInterfaces is returned without closing.           *)
MaskInterfacesReturnsOpen ==
  /\ step = "masked"
  /\ step' = IF err THEN "failed" ELSE "ready"
  /\ UNCHANGED <<module, err, runtime, guests, guestInterfaces, calling>>

MaskInterfacesReturns ==
  /\ step = "masked"
  /\ \/ err /\ step' = "failed" /\ CloseRuntime
     \/ ~err /\ step' = "ready" /\ UNCHANGED <<runtime, guests>>
  /\ UNCHANGED <<module, err, guestInterfaces, calling>>

(* The framework calls the method behind op.  What the module does not     *)
(* export is a nil wazero function in the guest struct.                    *)
Call(op) ==
  /\ step = "ready"
  /\ Reaches(guestInterfaces, op)
  /\ calling' = op
  /\ step' = IF op \in module.exports THEN "ready" ELSE "crashed"
  /\ UNCHANGED <<module, err, runtime, guests, guestInterfaces>>

Close ==
  /\ step = "ready" /\ step' = "closed"
  /\ CloseRuntime
  /\ UNCHANGED <<module, err, guestInterfaces, calling>>

LoadNext ==
  \/ GetURLFails \/ NewRuntime \/ CompileGuest \/ InstantiateHosts
  \/ PrepareRuntimeReturns \/ DetectInterfaces \/ NewGuestPool
  \/ NewWasmPluginReturns \/ MaskInterfaces \/ MaskInterfacesReturns
  \/ \E op \in AllOps : Call(op)
  \/ Close

LoadSpec == LoadInit /\ [][LoadNext]_loadVars

-----------------------------------------------------------------------------
(* The types of the variables.                                             *)
LoadTypeOK ==
  /\ module.exports \subseteq AllOps
  /\ step \in {"reading", "compiling", "hosting", "prepared", "detecting",
               "pooling", "created", "masking", "masked", "ready", "failed",
               "crashed", "closed"}
  /\ err \in BOOLEAN
  /\ runtime \in {"none", "open", "closed"}
  /\ guests \in {{}, {1}}
  /\ guestInterfaces \subseteq detectInterfaces(AllOps)
  /\ calling \in AllOps \cup {"none"}

(* Whichever error NewFromConfig returns, no runtime and no guest is left  *)
(* behind, as nobody has a plugin to Close (plugin.go:78 "The caller must  *)
(* close the wazero.Runtime to avoid leaking mmapped files"); and none of  *)
(* the functions that may close it does so when there was no error: the    *)
(* plugin, when it is returned, can run its guest.                         *)
NoRuntimeLeak ==
  /\ step \in {"failed", "closed"} => runtime # "open" /\ guests = {}
  /\ step = "ready" /\ calling = "none" => runtime = "open" /\ guests = {1}

(* The framework never makes the plugin call a function the guest lacks,   *)
(* though the mask offers whole groups of methods for one export, and six  *)
(* of the handlers do not look whether the guest has theirs.               *)
NoNilCall ==
  Paired(module.exports) => step # "crashed"

(* A plugin that loads is a Filter, Score, Reserve, Permit or Bind plugin  *)
(* to the framework exactly when its guest is one: none of the 23 cases    *)
(* of the mask forgets an interface or adds one.                           *)
MainExportsOffered ==
  step = "ready" =>
    \A op \in AllOps :
      InterfaceOf[op] \in Main =>
        (Reaches(guestInterfaces, op)
           <=> InterfaceOf[op] \in detectInterfaces(module.exports))
=============================================================================
