------------------------------ MODULE GuestKlog ------------------------------
(***************************************************************************)
(* The guest's klog (klog/internal/klog.go) and the host functions behind  *)
(* it (host.go).  A message is formatted argument by argument into one     *)
(* buffer that all calls share; an argument may be a fmt.Stringer whose    *)
(* String method, such as that of KObjSliceFn, calls code of the plugin,   *)
(* which may log as well.  Info and Error are log, InfoS and ErrorS logs.  *)
(***************************************************************************)
EXTENDS CStrings

CONSTANTS
  LogSeverity,  \* the severities the plugin may be configured with
  Text,         \* the strings an argument may be formatted to
  MaxArgs,      \* bounds the arguments of a message
  MaxDepth      \* bounds the messages logged while one is formatted

InfoLog == 0
ErrorLog == 2

ASSUME LogSeverityAssumption == LogSeverity \subseteq 0..3
ASSUME TextAssumption == \A s \in Text : s \in Seq(ToSet(s))
ASSUME BoundsAssumption == MaxArgs \in Nat /\ MaxDepth \in Nat \ {0}

VARIABLES
  logSeverity,  \* PluginConfig.LogSeverity, of the host and of its guests
  messages,     \* the messages being formatted, the innermost last
  buf,          \* the buffer they share
  logged        \* the message that just reached the host, or none

klogVars == <<logSeverity, messages, buf, logged>>

NoMessage == [fn |-> "none", severity |-> InfoLog, args |-> <<>>, alone |-> TRUE]

(* alone: no other message was logged while this one was formatted.        *)
Message ==
  [fn : {"log", "logs"}, severity : {InfoLog, ErrorLog},
   args : BoundedSeq(Text, MaxArgs), alone : BOOLEAN]

NotLogged == [of |-> NoMessage, written |-> FALSE, text |-> <<>>]

Current == Last(messages)

(* Fprint's own buffer is written in one piece, and a newline unless one   *)
(* ends it already.                                                        *)
Line(bytes) ==
  IF bytes # <<>> /\ Last(bytes) = "\n" THEN bytes ELSE Append(bytes, "\n")

KlogInit ==
  /\ logSeverity \in LogSeverity
  /\ messages = <<>>
  /\ buf = <<>>
  /\ logged = NotLogged

Disabled(severity) == severity < logSeverity

(* Bug: only InfoS and ErrorS look at the severity.                        *)
StartUnchecked(fn, severity) ==
  /\ Len(messages) < MaxDepth
  /\ fn = "logs" => ~Disabled(severity)
  /\ messages' = Append([i \in DOMAIN messages |->
                           [messages[i] EXCEPT !.alone = FALSE]],
                        [NoMessage EXCEPT !.fn = fn, !.severity = severity])
  /\ buf' = <<>>
  /\ logged' = NotLogged
  /\ UNCHANGED logSeverity

(* Bug: the buffer is not reset.                                           *)
StartNoReset(fn, severity) ==
  /\ Len(messages) < MaxDepth
  /\ ~Disabled(severity)
  /\ messages' = Append([i \in DOMAIN messages |->
                           [messages[i] EXCEPT !.alone = FALSE]],
                        [NoMessage EXCEPT !.fn = fn, !.severity = severity])
  /\ logged' = NotLogged
  /\ UNCHANGED <<logSeverity, buf>>

(* A call of klog that is not disabled, by the plugin or by an argument of *)
(* the current message.  A disabled one does nothing.                      *)
Start(fn, severity) ==
  /\ Len(messages) < MaxDepth
  /\ ~Disabled(severity)
  /\ messages' = Append([i \in DOMAIN messages |->
                           [messages[i] EXCEPT !.alone = FALSE]],
                        [NoMessage EXCEPT !.fn = fn, !.severity = severity])
  /\ buf' = <<>>
  /\ logged' = NotLogged
  /\ UNCHANGED logSeverity

(* The next argument is formatted: by logs into the shared buffer, with    *)
(* its terminator, by log into the buffer of Fprint.                       *)
Format(s) ==
  /\ messages # <<>> /\ Len(Current.args) < MaxArgs
  /\ Current.fn = "logs" => ~Contains(s, NUL)
  /\ messages' = [messages EXCEPT ![Len(messages)].args = Append(@, s)]
  /\ buf' = IF Current.fn = "logs" THEN buf \o Append(s, NUL) ELSE buf
  /\ logged' = NotLogged
  /\ UNCHANGED logSeverity

(* The guest panics while it formats: a value has a NUL, the address of no *)
(* arguments at all is taken, or a String method panics.  Its call ends,   *)
(* and all messages with it; the buffer is what it was.                    *)
KlogTraps ==
  /\ messages # <<>>
  /\ messages' = <<>>
  /\ logged' = NotLogged
  /\ UNCHANGED <<logSeverity, buf>>

(* The host functions: what of a message they write, if anything.          *)
k8sKlogLogFn(severity) == ~(severity > logSeverity)
k8sKlogLogsFn(severity) == ~(severity < logSeverity)

LogEnds ==
  /\ messages # <<>> /\ Current.fn = "log"
  /\ buf' = Line(buf \o Concat(Current.args))
  /\ logged' = [of |-> Current, written |-> k8sKlogLogFn(Current.severity),
                text |-> buf']
  /\ messages' = Front(messages)
  /\ UNCHANGED logSeverity

LogsEnds ==
  /\ messages # <<>> /\ Current.fn = "logs" /\ Current.args # <<>>
  /\ logged' = [of |-> Current, written |-> k8sKlogLogsFn(Current.severity),
                text |-> fromNULTerminated(buf)]
  /\ messages' = Front(messages)
  /\ UNCHANGED <<logSeverity, buf>>

(* The plugin goes on, with nothing being logged.                          *)
LogReturns ==
  /\ messages = <<>>
  /\ logged' = NotLogged
  /\ UNCHANGED <<logSeverity, messages, buf>>

KlogNext ==
  \/ \E fn \in {"log", "logs"}, severity \in {InfoLog, ErrorLog} :
       Start(fn, severity)
  \/ \E s \in Text : Format(s)
  \/ KlogTraps \/ LogEnds \/ LogsEnds \/ LogReturns

KlogSpec == KlogInit /\ [][KlogNext]_klogVars

-----------------------------------------------------------------------------
(* What the host writes is what this call was given: nothing of messages   *)
(* logged before it, nothing of one a trap cut short, and no argument of   *)
(* its own left out but empty ones.  A message logged while another is     *)
(* formatted breaks into that one only.                                    *)
WrittenWhole ==
  logged.written /\ logged.of.alone =>
    logged.text = IF logged.of.fn = "log" THEN Line(Concat(logged.of.args))
                  ELSE NonEmpty(logged.of.args)

(* Nothing below the configured severity is written, by either function,   *)
(* though guest and host each compare it, and not the same way.            *)
NothingBelowSeverity ==
  logged.written => logged.of.severity >= logSeverity

(* A message of the configured severity or above is written: "Error is     *)
(* like Info, except ERROR level" (klog/api/klog.go:49), and severity only *)
(* obviates messages that "won't be written" (host.go:416).                *)
LoggedIsWritten ==
  logged.of # NoMessage /\ logged.of.severity >= logSeverity => logged.written
=============================================================================
