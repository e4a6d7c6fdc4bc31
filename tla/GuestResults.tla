----------------------------- MODULE GuestResults -----------------------------
(***************************************************************************)
(* What a plugin's method returns on its way to the framework.  Numbers go *)
(* in the one 64-bit result of the export, two of 32 bits packed into it;  *)
(* strings, names and events go through host functions into the parameters *)
(* of the call (host.go), from which guest.go takes them.                  *)
(***************************************************************************)
EXTENDS CStrings, Integers

CONSTANTS
  Op,         \* the exports the host calls
  Byte,       \* 2^8 in the code
  WordBytes,  \* the bytes of a 32-bit word
  Reason,     \* the reasons of a status, "" among them
  NodeNames,  \* the lists of names PreFilter may return
  Event,      \* the [Resource, ActionType] a plugin may register for
  MaxEvents   \* bounds how many

(* The values of half the result: Byte to the power of WordBytes.          *)
Powers[i \in 0..WordBytes] == IF i = 0 THEN 1 ELSE Byte * Powers[i - 1]
Half   == Powers[WordBytes]
Uint32 == 0..Half - 1
Int32 == -(Half \div 2)..(Half \div 2 - 1)

(* A byte has an even number of values, a word more than one byte.         *)
ASSUME WordAssumption ==
  /\ Byte \in Nat \ {0} /\ Byte % 2 = 0
  /\ WordBytes \in Nat \ {0, 1}
(* A name is of a node, as the API server admits it: there is no NUL in it. *)
ASSUME NodeNamesAssumption ==
  \A names \in NodeNames :
    /\ names \in Seq(ToSet(names))
    /\ \A name \in ToSet(names) : name \in Seq(ToSet(name)) /\ ~Contains(name, NUL)
ASSUME EventAssumption == Event \subseteq [Resource : Uint32, ActionType : Uint32]

VARIABLES
  calling,  \* the export that runs, NoOp or Panicked
  params,   \* the results host functions set in this call's stack
  said,     \* what the plugin's method returned in the last call
  outcome   \* what its handler returned to the framework

resultVars == <<calling, params, said, outcome>>

NoOp == "none"
Panicked == "panicked"

Success == 0
Error == 1

Nothing ==
  [code |-> Success, reason |-> "", number |-> 0, nodeNames |-> <<>>,
   nominated |-> "", clusterEvents |-> <<>>]

NoParams ==
  [resultStatusReason |-> "", resultNodeNames |-> <<>>,
   resultNominatedNodeName |-> "", resultClusterEvents |-> <<>>]

StatusWithNumber(numbers) ==
  {[Nothing EXCEPT !.code = s.code, !.reason = s.reason, !.number = s.number] :
     s \in [code : Int32, reason : Reason, number : numbers]}

(* The results of each method; a number is a score, a mode or a timeout.   *)
Results(op) ==
  CASE op = "enqueue" ->
         {[Nothing EXCEPT !.clusterEvents = events] :
            events \in BoundedSeq(Event, MaxEvents)}
    [] op = "prefilter" ->
         {[s.status EXCEPT !.nodeNames = s.names] :
            s \in [status : StatusWithNumber({0}), names : NodeNames]}
    [] op = "score"  -> StatusWithNumber(Int32)
    [] op = "permit" -> StatusWithNumber(Uint32)
    [] op = "postfilter" ->
         {[s.status EXCEPT !.nominated = s.name] :
            s \in [status : StatusWithNumber(Int32), name : {"", "node"}]}
    [] op \in {"unreserve", "postbind"} -> {Nothing}
    [] OTHER -> StatusWithNumber({0})

-----------------------------------------------------------------------------
(* Conversions of Go between 32 and 64 bits.                               *)
uint32(i) == i % Half
uint64(i) == i % (Half * Half)
(* Bug: the word is not converted to a signed one.                         *)
int32Unsigned(u) == u % Half

int32(u) == LET low == u % Half
            IN  IF low < Half \div 2 THEN low ELSE low - Half

Shift32(i) == uint64(uint64(i) * Half)

StatusToCode(r) == uint32(r.code)

(* The result on the value stack; 0 where the export has none.  The two    *)
(* halves do not overlap, so that | of them is their sum.                  *)
Returned(op, r) ==
  CASE op \in {"score", "postfilter"} -> uint64(Shift32(r.number) + StatusToCode(r))
    [] op = "permit" -> uint64(Shift32(StatusToCode(r)) + r.number)
    [] OTHER -> StatusToCode(r)

(* A word shifted to the right by i bytes.                                 *)
Shifted(word) ==
  LET shifted[i \in 0..WordBytes] ==
        IF i = 0 THEN word ELSE shifted[i - 1] \div Byte
  IN  shifted

(* A word in little endian, and back from its last byte to its first.      *)
Encoded(word) == [i \in 1..WordBytes |-> Shifted(word)[i - 1] % Byte]

Decoded(b) ==
  LET word[i \in 0..WordBytes] ==
        IF i = 0 THEN 0 ELSE word[i - 1] * Byte + b[WordBytes - i + 1]
  IN  word[WordBytes]

encodeClusterEvents(input) ==
  Concat([i \in DOMAIN input |->
            Encoded(input[i].Resource) \o Encoded(input[i].ActionType)])

sizeEncodedClusterEvent == 2 * WordBytes

(* What is left of an event that is cut short is ignored.  The host names  *)
(* a resource by its number, one it does not know by a name of its own.    *)
decodeClusterEvents(b) ==
  [i \in 1..(Len(b) \div sizeEncodedClusterEvent) |->
     LET at == (i - 1) * sizeEncodedClusterEvent
     IN  [Resource   |-> Decoded(SubSeq(b, at + 1, at + WordBytes)),
          ActionType |-> Decoded(SubSeq(b, at + WordBytes + 1, at + 2 * WordBytes))]]

-----------------------------------------------------------------------------
(* What the handler makes of the result on the stack and of the parameters. *)
(* No names stand for all nodes, no events for the default ones.           *)
NoOutcome == [Nothing EXCEPT !.nodeNames = {}]

Handled(op, stack0, set) ==
  [code |-> CASE op = "permit" -> int32(stack0 \div Half)
              [] op \in {"enqueue", "unreserve", "postbind"} -> Success
              [] OTHER -> int32(stack0),
   number |-> CASE op \in {"score", "postfilter"} -> int32(stack0 \div Half)
                [] op = "permit" -> uint32(stack0)
                [] OTHER -> 0,
   reason |-> set.resultStatusReason,
   nominated |-> set.resultNominatedNodeName,
   nodeNames |-> ToSet(set.resultNodeNames),
   clusterEvents |-> set.resultClusterEvents]

ResultsInit ==
  /\ calling = NoOp
  /\ params = NoParams
  /\ said = Nothing
  /\ outcome = NoOutcome

(* Bug: the parameters are the plugin's and not the call's.                *)
CallShared(op) ==
  /\ calling = NoOp
  /\ calling' = op
  /\ said' = Nothing
  /\ outcome' = NoOutcome
  /\ UNCHANGED params

(* A handler calls an export with a new stack of parameters.               *)
Call(op) ==
  /\ calling = NoOp
  /\ calling' = op
  /\ params' = NoParams
  /\ said' = Nothing
  /\ outcome' = NoOutcome

(* The plugin's method returned r.  Its export calls the host functions of *)
(* the results it has: of a reason, only with a code that is not success,  *)
(* and of names, which traps if all of them are empty.                     *)
MethodReturns(r) ==
  /\ calling \notin {NoOp, Panicked}
  /\ r \in Results(calling)
  /\ r.nodeNames # <<>> => toNULTerminated(r.nodeNames) # <<>>
  /\ said' = r
  /\ params' =
       [params EXCEPT
          !.resultStatusReason =
             IF r.code # Success /\ r.reason # "" THEN r.reason ELSE @,
          !.resultNodeNames =
             IF r.nodeNames # <<>>
               THEN fromNULTerminated(toNULTerminated(r.nodeNames)) ELSE @,
          !.resultNominatedNodeName =
             IF calling = "postfilter" THEN r.nominated ELSE @,
          !.resultClusterEvents =
             IF r.clusterEvents # <<>>
               THEN decodeClusterEvents(encodeClusterEvents(r.clusterEvents)) ELSE @]
  /\ outcome' = Handled(calling, Returned(calling, r), params')
  /\ calling' = NoOp

(* A trap is a status of its own, and a panic where there is no status.    *)
CallTraps ==
  /\ calling \notin {NoOp, Panicked}
  /\ calling' = IF calling = "enqueue" THEN Panicked ELSE NoOp
  /\ outcome' = IF calling \in {"enqueue", "unreserve", "postbind"} THEN NoOutcome
                ELSE [NoOutcome EXCEPT !.code = Error, !.reason = "trap"]
  /\ UNCHANGED <<params, said>>

ResultsNext ==
  \/ \E op \in Op : Call(op)
  \/ \E r \in Results(calling) : MethodReturns(r)
  \/ CallTraps

ResultsSpec == ResultsInit /\ [][ResultsNext]_resultVars

-----------------------------------------------------------------------------
(* The framework gets what the plugin's method returned, whatever was      *)
(* called before, however the values are packed and at the limits of their *)
(* widths: a negative score or code, a timeout beyond int32.  A reason is  *)
(* dropped with success, an empty name always.                             *)
ResultsArrive ==
  calling = NoOp /\ outcome.reason # "trap" =>
    outcome = [said EXCEPT
                 !.reason = IF said.code = Success THEN "" ELSE @,
                 !.nodeNames = ToSet(NonEmpty(@))]
=============================================================================
