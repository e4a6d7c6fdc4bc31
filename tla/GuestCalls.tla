------------------------------ MODULE GuestCalls ------------------------------
(***************************************************************************)
(* The calls a host makes of one guest, one at a time: the plugin's method *)
(* runs, logs as it likes, and returns or traps.  The guest's memory, its  *)
(* log buffer in it, outlives the call; the parameters do not.             *)
(***************************************************************************)
EXTENDS GuestResults, GuestKlog, NormalizeScore

callVars == <<resultVars, klogVars, scoreVars>>

CallsInit == ResultsInit /\ KlogInit /\ ScoreInit

(* The plugin's own code runs: NormalizeScore's until it has an answer.    *)
InMethod == calling \notin {NoOp, Panicked} /\ phase \in {"idle", "scored"}

HostCalls(op) ==
  /\ phase = "idle"
  /\ Call(op)
  /\ IF op = "normalizescore" THEN Normalize ELSE UNCHANGED scoreVars
  /\ UNCHANGED klogVars

MethodLogs ==
  /\ InMethod
  /\ \/ \E fn \in {"log", "logs"}, severity \in {InfoLog, ErrorLog} :
          Start(fn, severity)
     \/ \E s \in Text : Format(s)
     \/ LogEnds \/ LogsEnds
  /\ UNCHANGED <<resultVars, scoreVars>>

(* The scores NormalizeScore returns go first, through a host function.    *)
ScoresReturn ==
  /\ calling = "normalizescore"
  /\ LogReturns
  /\ GuestAnswers \/ GuestHasNone \/ MapToNodeScoreList
  /\ UNCHANGED resultVars

MethodEnds ==
  /\ LogReturns
  /\ calling = "normalizescore" => phase = "listed"
  /\ \E r \in Results(calling) : MethodReturns(r)
  /\ UNCHANGED scoreVars

(* The guest traps, in the midst of a message or not, and stays in the     *)
(* pool with the memory it has.                                            *)
MethodTraps ==
  /\ InMethod
  /\ CallTraps
  /\ KlogTraps \/ LogReturns
  /\ IF calling = "normalizescore" THEN GuestTraps ELSE UNCHANGED scoreVars

(* The handler of NormalizeScore copies what came back.                    *)
HandlerCopies ==
  /\ calling = NoOp
  /\ CopyScores \/ SizeMismatch \/ ScoresTaken
  /\ UNCHANGED <<resultVars, klogVars>>

CallsNext ==
  \/ \E op \in Op : HostCalls(op)
  \/ MethodLogs \/ ScoresReturn \/ MethodEnds \/ MethodTraps \/ HandlerCopies

CallsSpec == CallsInit /\ [][CallsNext]_callVars

-----------------------------------------------------------------------------
(* The types of a call's state: what the handler gives the framework is in *)
(* the range of the Go types, however it was packed, and the messages in   *)
(* progress are no more than MaxDepth.                                     *)
CallTypeOK ==
  /\ calling \in Op \cup {NoOp, Panicked}
  /\ outcome.code \in Int32
  /\ outcome.number \in Int32 \cup Uint32
  /\ logSeverity \in LogSeverity
  /\ messages \in Seq(Message) /\ Len(messages) <= MaxDepth
=============================================================================
