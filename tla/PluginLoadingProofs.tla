------------------------- MODULE PluginLoadingProofs -------------------------
(***************************************************************************)
(* The theorems of plugin loading, for every set of configurable guests.   *)
(***************************************************************************)
EXTENDS PluginLoading, TLAPS

(* What the steps of a load know: until an error is being returned the     *)
(* runtime is open, from newGuestPool on with one guest in it, and the     *)
(* plugin works with the interfaces of the module it loaded; what an error *)
(* leaves open is closed by the function that returns it.                  *)
LoadInv ==
  /\ module.exports \subseteq AllOps
  /\ step = "reading" => runtime = "none" /\ guests = {}
  /\ step \in {"compiling", "hosting", "prepared", "detecting", "pooling"}
       => runtime = "open" /\ guests = {}
  /\ (step = "created" /\ ~err) \/ step \in {"masking", "masked", "ready"}
       => runtime = "open" /\ guests = {1}
  /\ (step = "created" /\ ~err) \/ step \in {"pooling", "masking", "masked", "ready"}
       => guestInterfaces = detectInterfaces(module.exports)
  /\ (step = "masked" /\ ~err) \/ step = "ready" => Maskable(guestInterfaces)
  /\ NoRuntimeLeak
  /\ NoNilCall

(* The only interfaces two functions share are those whose functions the   *)
(* SDK exports together.                                                   *)
LEMMA SharedInterface ==
  ASSUME NEW a \in AllOps, NEW b \in AllOps, InterfaceOf[a] = InterfaceOf[b],
         a # b
  PROVE  \/ {a, b} = {"reserve", "unreserve"}
         \/ {a, b} = {"addpod", "removepod"}
BY DEF AllOps, InterfaceOf

(* So a function whose interface was detected is exported.                 *)
LEMMA DetectedIsExported ==
  ASSUME NEW E \in SUBSET AllOps, Paired(E),
         NEW op \in AllOps, InterfaceOf[op] \in detectInterfaces(E)
  PROVE  op \in E
<1>1. PICK x \in E : InterfaceOf[op] = InterfaceOf[x]
  BY DEF detectInterfaces
<1>. QED
  BY <1>1, SharedInterface DEF Paired

(* Each of the 23 cases embeds the interfaces it matches.                  *)
LEMMA CasesAgree ==
  ASSUME NEW c \in MaskCases
  PROVE  c[2] = c[1]
BY DEF MaskCases

LEMMA EmbedsTheGuests ==
  ASSUME NEW I, Maskable(I)
  PROVE  Embedded(I) = I \cap Main
<1>1. \A c \in CasesOf(I) : c[2] = I \cap Main
  BY CasesAgree DEF CasesOf
<1>2. CASE CasesOf(I) # {}
  BY <1>1, <1>2 DEF Embedded
<1>3. CASE CasesOf(I) = {} /\ I = {"PreFilterPlugin"}
  BY <1>3 DEF Embedded, Main, MainPlugin
<1>. QED
  BY <1>2, <1>3 DEF Maskable

(* A main function is behind a method of its own interface only, and its   *)
(* handler does not look for the interface again.                          *)
LEMMA OwnInterface ==
  ASSUME NEW op \in AllOps, InterfaceOf[op] \in Main
  PROVE  /\ op \notin basePlugin \cup Checked
         /\ \A i \in Main : op \in MainPlugin[i] <=> i = InterfaceOf[op]
BY DEF AllOps, InterfaceOf, Main, MainPlugin, basePlugin, Checked

(* A function the framework reaches belongs to an interface of the guest.  *)
LEMMA ReachedIsDetected ==
  ASSUME NEW I, Maskable(I), NEW op \in AllOps, Reaches(I, op)
  PROVE  InterfaceOf[op] \in I
<1>1. CASE op \in Checked
  BY <1>1 DEF Reaches, Unimplemented
<1>2. CASE op \notin Checked
  <2>1. InterfaceOf[op] \in Main
    BY <1>2 DEF AllOps, InterfaceOf, Main, MainPlugin, Checked
  <2>2. PICK i \in I \cap Main : op \in MainPlugin[i]
    BY <2>1, OwnInterface, EmbedsTheGuests DEF Reaches, maskInterfaces
  <2>. QED
    BY <2>1, <2>2, OwnInterface
<1>. QED
  BY <1>1, <1>2

(* Type correctness, for every set of guests.                              *)
THEOREM LoadTypes == LoadSpec => []LoadTypeOK
<1>1. LoadInit => LoadTypeOK
  BY ModulesAssumption DEF LoadInit, LoadTypeOK
<1>2. LoadTypeOK /\ [LoadNext]_loadVars => LoadTypeOK'
  BY DEF LoadTypeOK, LoadNext, loadVars, GetURLFails, NewRuntime,
         CompileGuest, InstantiateHosts, PrepareRuntimeReturns,
         DetectInterfaces, NewGuestPool, NewWasmPluginReturns, MaskInterfaces,
         MaskInterfacesReturns, CloseRuntime, Call, Close, detectInterfaces
<1>. QED
  BY <1>1, <1>2, PTL DEF LoadSpec

LEMMA LoadInvInit == LoadInit => LoadInv
BY ModulesAssumption DEF LoadInit, LoadInv, NoRuntimeLeak, NoNilCall

LEMMA LoadInvNext == LoadInv /\ [LoadNext]_loadVars => LoadInv'
<1>. SUFFICES ASSUME LoadInv, [LoadNext]_loadVars PROVE LoadInv'
  OBVIOUS
<1>. USE DEF LoadInv, NoRuntimeLeak, NoNilCall, CloseRuntime
<1>1. CASE GetURLFails \/ NewRuntime
  BY <1>1 DEF GetURLFails, NewRuntime
<1>2. CASE CompileGuest
  BY <1>2 DEF CompileGuest
<1>3. CASE InstantiateHosts
  BY <1>3 DEF InstantiateHosts
<1>4. CASE PrepareRuntimeReturns
  BY <1>4 DEF PrepareRuntimeReturns
<1>5. CASE DetectInterfaces
  BY <1>5 DEF DetectInterfaces
<1>6. CASE NewGuestPool
  BY <1>6 DEF NewGuestPool
<1>7. CASE NewWasmPluginReturns
  BY <1>7 DEF NewWasmPluginReturns
<1>8. CASE MaskInterfaces
  BY <1>8 DEF MaskInterfaces
<1>9. CASE MaskInterfacesReturns
  BY <1>9 DEF MaskInterfacesReturns
<1>10. ASSUME NEW op \in AllOps, Call(op) PROVE LoadInv'
  <2>1. InterfaceOf[op] \in detectInterfaces(module.exports)
    BY <1>10, ReachedIsDetected DEF Call
  <2>2. Paired(module.exports) => op \in module.exports
    BY <2>1, DetectedIsExported
  <2>. QED
    BY <1>10, <2>2 DEF Call
<1>11. CASE Close
  BY <1>11 DEF Close
<1>12. CASE UNCHANGED loadVars
  BY <1>12 DEF loadVars
<1>. QED
  BY <1>1, <1>2, <1>3, <1>4, <1>5, <1>6, <1>7, <1>8, <1>9, <1>10, <1>11, <1>12
     DEF LoadNext

LEMMA LoadInvariant == LoadSpec => []LoadInv
BY LoadInvInit, LoadInvNext, PTL DEF LoadSpec

(* No error of a load leaves a runtime behind, and no load that succeeds   *)
(* has closed its own.                                                     *)
THEOREM RuntimeNeverLeaks == LoadSpec => []NoRuntimeLeak
<1>1. LoadInv => NoRuntimeLeak
  BY DEF LoadInv
<1>. QED
  BY <1>1, LoadInvariant, PTL

(* Detection by interface and not by function is enough for every guest    *)
(* the SDK can build: no handler calls a function the guest lacks.         *)
THEOREM NoMissingFunction == LoadSpec => []NoNilCall
<1>1. LoadInv => NoNilCall
  BY DEF LoadInv
<1>. QED
  BY <1>1, LoadInvariant, PTL

(* A plugin that loads offers the main functions of its guest and no       *)
(* others, whichever case of the mask it is.                               *)
THEOREM AllMainExportsOffered == LoadSpec => []MainExportsOffered
<1>1. LoadInv => MainExportsOffered
  <2>. SUFFICES ASSUME LoadInv, step = "ready", NEW op \in AllOps,
                       InterfaceOf[op] \in Main
                PROVE  Reaches(guestInterfaces, op)
                         <=> InterfaceOf[op] \in guestInterfaces
    BY DEF MainExportsOffered, LoadInv
  <2>1. Embedded(guestInterfaces) = guestInterfaces \cap Main
    BY EmbedsTheGuests DEF LoadInv
  <2>2. op \in maskInterfaces(guestInterfaces)
          <=> InterfaceOf[op] \in guestInterfaces
    BY <2>1, OwnInterface DEF maskInterfaces
  <2>. QED
    BY <2>2, OwnInterface DEF Reaches, Unimplemented
<1>. QED
  BY <1>1, LoadInvariant, PTL
=============================================================================
