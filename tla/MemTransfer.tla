----------------------------- MODULE MemTransfer -----------------------------
(***************************************************************************)
(* How a guest gets a value from the host (guest/internal/mem/mem.go with  *)
(* scheduler/plugin/mem.go): it passes a buffer and its limit, the host    *)
(* answers the size of the value and writes it if it fits, and the guest   *)
(* calls again with a larger buffer if it did not.  By the second call the *)
(* host may have another value, of another size.                           *)
(***************************************************************************)
EXTENDS Naturals, Sequences

CONSTANTS
  Value,       \* the values the host may be asked for, other than Zero
  Size,        \* the encoded size of each
  Word,        \* those that are numbers of 64 bits
  WordSize,    \* their size (8 in the code)
  FirstLimit,  \* the initial length of readBuf (2048 in the code)
  Zero         \* what a byte of no value holds

ASSUME ValueAssumption == Zero \notin Value
ASSUME SizeAssumption == Size \in [Value -> Nat]
ASSUME LimitAssumption == FirstLimit \in Nat \ {0}
ASSUME WordAssumption ==
  /\ Word \subseteq Value /\ \A w \in Word : Size[w] = WordSize
  /\ WordSize \in 1..FirstLimit

VARIABLES
  readBuf,       \* the shared buffer; a byte of v is the value v
  readBufLimit,
  pending,       \* the call whose first answer did not fit, or Idle
  result,        \* what the last transfer handed to its caller
  asked,         \* the value the host had at its first call
  answered       \* the value it had at the last

memVars == <<readBuf, readBufLimit, pending, result, asked, answered>>

Idle == "idle"

Bytes(v, n) == [i \in 1..n |-> v]

(* marshalIfUnderLimit and writeStringIfUnderLimit: buf after the host     *)
(* wrote v at its start, if it is not larger than limit.                   *)
Written(buf, limit, v) ==
  IF Size[v] > limit THEN buf
  ELSE [i \in DOMAIN buf |-> IF i <= Size[v] THEN v ELSE buf[i]]

MemInit ==
  /\ readBufLimit = FirstLimit
  /\ readBuf = Bytes(Zero, FirstLimit)
  /\ pending = Idle
  /\ result = <<>> /\ asked = Zero /\ answered = Zero

(* The first call of the host function, by Update or by GetString.  The    *)
(* value fits: the caller is handed the buffer up to its size.             *)
Fits(v) ==
  /\ pending = Idle
  /\ Size[v] <= readBufLimit
  /\ asked' = v /\ answered' = v
  /\ readBuf' = Written(readBuf, readBufLimit, v)
  /\ result' = SubSeq(readBuf', 1, Size[v])
  /\ UNCHANGED <<readBufLimit, pending>>

(* Bug: a little more than the value needs.                                *)
UpdateGrowsMore(v) ==
  /\ pending = Idle
  /\ Size[v] > readBufLimit
  /\ asked' = v /\ answered' = v
  /\ readBufLimit' = Size[v] + 1
  /\ readBuf' = Bytes(Zero, Size[v] + 1)
  /\ pending' = "update"
  /\ result' = <<>>

(* Bug: a larger buffer with the old limit.                                *)
UpdateGrowsBufOnly(v) ==
  /\ pending = Idle
  /\ Size[v] > readBufLimit
  /\ asked' = v /\ answered' = v
  /\ readBuf' = Bytes(Zero, Size[v])
  /\ pending' = "update"
  /\ result' = <<>>
  /\ UNCHANGED readBufLimit

(* It does not: Update replaces the shared buffer...                       *)
UpdateGrows(v) ==
  /\ pending = Idle
  /\ Size[v] > readBufLimit
  /\ asked' = v /\ answered' = v
  /\ readBufLimit' = Size[v]
  /\ readBuf' = Bytes(Zero, Size[v])
  /\ pending' = "update"
  /\ result' = <<>>

(* ...and GetString takes one of its own.                                  *)
GetStringAllocates(v) ==
  /\ pending = Idle
  /\ Size[v] > readBufLimit
  /\ asked' = v /\ answered' = v
  /\ pending' = "getString"
  /\ result' = <<>>
  /\ UNCHANGED <<readBuf, readBufLimit>>

(* Bug: the transfer does not end.                                         *)
UpdateAgainAndAgain(v) ==
  /\ pending = "update"
  /\ answered' = v
  /\ readBuf' = Written(readBuf, readBufLimit, v)
  /\ result' = readBuf'
  /\ pending' = "again"
  /\ UNCHANGED <<readBufLimit, asked>>

(* The second call, whose answer is not looked at.                         *)
UpdateAgain(v) ==
  /\ pending = "update"
  /\ answered' = v
  /\ readBuf' = Written(readBuf, readBufLimit, v)
  /\ result' = readBuf'
  /\ pending' = Idle
  /\ UNCHANGED <<readBufLimit, asked>>

(* Bug: the second call is given the shared buffer.                        *)
GetStringAgainShared(v) ==
  /\ pending = "getString"
  /\ answered' = v
  /\ readBuf' = Written(readBuf, readBufLimit, v)
  /\ result' = readBuf'
  /\ pending' = Idle
  /\ UNCHANGED <<readBufLimit, asked>>

GetStringAgain(v) ==
  /\ pending = "getString"
  /\ answered' = v
  /\ result' = Written(Bytes(Zero, Size[asked]), Size[asked], v)
  /\ pending' = Idle
  /\ UNCHANGED <<readBuf, readBufLimit, asked>>

(* rejectWaitingPod: the host writes its answer whatever the limit.        *)
SendAndGetUint64(v) ==
  /\ pending = Idle
  /\ asked' = v /\ answered' = v
  /\ readBuf' = [i \in DOMAIN readBuf |-> IF i <= WordSize THEN v ELSE readBuf[i]]
  /\ result' = SubSeq(readBuf', 1, WordSize)
  /\ UNCHANGED <<readBufLimit, pending>>

(* GetWaitingPod decodes the whole buffer, whatever the host wrote, drops  *)
(* what it decoded and returns nil.                                        *)
GetWaitingPod(v) ==
  /\ pending = Idle
  /\ readBuf' = Written(readBuf, readBufLimit, v)
  /\ UNCHANGED <<readBufLimit, pending, result, asked, answered>>

MemNext ==
  \/ \E v \in Value :
       \/ Fits(v) \/ UpdateGrows(v) \/ GetStringAllocates(v)
       \/ UpdateAgain(v) \/ GetStringAgain(v) \/ GetWaitingPod(v)
  \/ \E v \in Word : SendAndGetUint64(v)

MemSpec == MemInit /\ [][MemNext]_memVars

-----------------------------------------------------------------------------
(* The types of the variables.                                             *)
MemTypeOK ==
  /\ readBuf \in Seq(Value \cup {Zero})
  /\ readBufLimit \in Nat
  /\ pending \in {Idle, "update", "getString"}
  /\ result \in Seq(Value \cup {Zero})
  /\ {asked, answered} \subseteq Value \cup {Zero}

(* The host is never told of more memory than there is: it writes up to    *)
(* the limit without knowing the buffer (scheduler/plugin/mem.go:46 "Bug:  *)
(* caller passed a length outside memory").                                *)
LimitIsLength == readBufLimit = Len(readBuf)

(* What no decoder takes: a zero where a field should start.               *)
Broken(bytes) == \E i \in DOMAIN bytes : bytes[i] = Zero

(* The caller is handed exactly the value the host had at the last call,   *)
(* though the buffer is shared by all calls and holds the rest of earlier, *)
(* longer values; or, when its size changed between the calls, bytes that  *)
(* it cannot decode: never parts of two values, nor part of one unnoticed. *)
ExactValue ==
  pending = Idle /\ asked # Zero =>
    \/ result = Bytes(answered, Size[answered])
    \/ Broken(result) /\ Size[answered] # Size[asked]

(* The shared buffer only grows, to the size of a value that was needed    *)
(* ("this avoids having to garbage collect between larger types").         *)
OnlyGrows ==
  [][/\ readBufLimit' >= readBufLimit
     /\ readBufLimit' # readBufLimit => readBufLimit' = Size[asked']]_memVars
=============================================================================
