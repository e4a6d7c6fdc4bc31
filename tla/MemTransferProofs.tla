-------------------------- MODULE MemTransferProofs --------------------------
(***************************************************************************)
(* The theorems of the buffer protocol, for every set of values, sizes and *)
(* initial buffer.                                                         *)
(***************************************************************************)
EXTENDS MemTransfer, TLAPS

(* A call that has to be made again is for a value that did not fit, and   *)
(* Update has made a new buffer for it.                                    *)
MemInv ==
  /\ MemTypeOK
  /\ LimitIsLength
  /\ ExactValue
  /\ pending # Idle => asked \in Value /\ Size[asked] # 0
  /\ pending = "update" =>
       readBufLimit = Size[asked] /\ readBuf = Bytes(Zero, Size[asked])
  /\ FirstLimit <= readBufLimit

(* What the host does to a buffer that is as long as it was told.          *)
LEMMA WrittenBuffer ==
  ASSUME NEW buf \in Seq(Value \cup {Zero}), NEW v \in Value
  PROVE  /\ Written(buf, Len(buf), v) \in Seq(Value \cup {Zero})
         /\ Len(Written(buf, Len(buf), v)) = Len(buf)
         /\ Size[v] <= Len(buf) =>
              SubSeq(Written(buf, Len(buf), v), 1, Size[v]) = Bytes(v, Size[v])
         /\ Size[v] = Len(buf) =>
              Written(buf, Len(buf), v) = Bytes(v, Size[v])
<1>1. Size[v] \in Nat
  BY SizeAssumption
<1>2. CASE Size[v] > Len(buf)
  BY <1>1, <1>2 DEF Written
<1>3. CASE ~(Size[v] > Len(buf))
  <2>. DEFINE w == [i \in 1..Len(buf) |-> IF i <= Size[v] THEN v ELSE buf[i]]
  <2>1. Written(buf, Len(buf), v) = w
    BY <1>3 DEF Written
  <2>2. w \in Seq(Value \cup {Zero}) /\ Len(w) = Len(buf)
    OBVIOUS
  <2>3. \A i \in 1..Size[v] : i \in 1..Len(buf) /\ w[i] = v
    BY <1>1, <1>3
  <2>. HIDE DEF w
  <2>4. SubSeq(w, 1, Size[v]) = [i \in 1..Size[v] |-> w[i]]
    BY <1>1, <1>3, <2>2
  <2>5. SubSeq(w, 1, Size[v]) = Bytes(v, Size[v])
    BY <2>3, <2>4 DEF Bytes
  <2>6. Size[v] = Len(buf) => SubSeq(w, 1, Size[v]) = w
    BY <2>2
  <2>. QED
    BY <2>1, <2>2, <2>5, <2>6
<1>. QED
  BY <1>2, <1>3

LEMMA BytesType ==
  ASSUME NEW v \in Value \cup {Zero}, NEW n \in Nat
  PROVE  Bytes(v, n) \in Seq(Value \cup {Zero}) /\ Len(Bytes(v, n)) = n
BY DEF Bytes

(* A new buffer shows it when the value is not of the size it was made for. *)
LEMMA WrittenFresh ==
  ASSUME NEW v \in Value, NEW n \in Nat \ {0}, NEW b, b = Written(Bytes(Zero, n), n, v)
  PROVE  /\ b \in Seq(Value \cup {Zero}) /\ Len(b) = n
         /\ b = Bytes(v, Size[v]) \/ (Broken(b) /\ Size[v] # n)
<1>1. Size[v] \in Nat
  BY SizeAssumption
<1>. DEFINE z == Bytes(Zero, n)
<1>2. z \in Seq(Value \cup {Zero}) /\ Len(z) = n /\ DOMAIN z = 1..n
      /\ \A i \in 1..n : z[i] = Zero
  BY BytesType DEF Bytes
<1>. HIDE DEF z
<1>3. b = Written(z, Len(z), v)
  BY <1>2 DEF z
<1>4. b \in Seq(Value \cup {Zero}) /\ Len(b) = n
  BY <1>2, <1>3, WrittenBuffer
<1>5. Size[v] = n => b = Bytes(v, Size[v])
  BY <1>2, <1>3, WrittenBuffer
<1>6. CASE Size[v] > n
  <2>1. b = z
    BY <1>2, <1>3, <1>6 DEF Written
  <2>2. 1 \in DOMAIN b /\ b[1] = Zero
    BY <1>2, <2>1
  <2>. QED
    BY <1>4, <1>6, <2>2, <1>1 DEF Broken
<1>7. CASE Size[v] < n
  <2>1. b = [i \in 1..n |-> IF i <= Size[v] THEN v ELSE z[i]]
    BY <1>1, <1>2, <1>3, <1>7 DEF Written
  <2>2. n \in DOMAIN b /\ b[n] = Zero
    BY <1>1, <1>2, <1>7, <2>1
  <2>. QED
    BY <1>4, <1>7, <2>2, <1>1 DEF Broken
<1>. QED
  BY <1>1, <1>4, <1>5, <1>6, <1>7

LEMMA MemInvInit == MemInit => MemInv
<1>. SUFFICES ASSUME MemInit PROVE MemInv
  OBVIOUS
<1>1. Bytes(Zero, FirstLimit) \in Seq(Value \cup {Zero})
      /\ Len(Bytes(Zero, FirstLimit)) = FirstLimit
  BY BytesType, LimitAssumption
<1>. QED
  BY <1>1, LimitAssumption, ValueAssumption
     DEF MemInit, MemInv, MemTypeOK, LimitIsLength, ExactValue, Idle

(* The host's answer of 64 bits.                                           *)
LEMMA WrittenWord ==
  ASSUME NEW buf \in Seq(Value \cup {Zero}), NEW v \in Word,
         FirstLimit <= Len(buf), NEW b,
         b = [i \in DOMAIN buf |-> IF i <= WordSize THEN v ELSE buf[i]]
  PROVE  /\ b \in Seq(Value \cup {Zero}) /\ Len(b) = Len(buf)
         /\ SubSeq(b, 1, WordSize) = Bytes(v, Size[v])
         /\ SubSeq(b, 1, WordSize) \in Seq(Value \cup {Zero})
<1>1. v \in Value /\ Size[v] = WordSize
  BY WordAssumption
<1>2. WordSize \in Nat /\ FirstLimit \in Nat /\ WordSize <= FirstLimit
  BY WordAssumption, LimitAssumption
<1>3. WordSize <= Len(buf)
  BY <1>2
<1>4. b = Written(buf, Len(buf), v)
  <2>1. ~(Size[v] > Len(buf))
    BY <1>1, <1>2, <1>3
  <2>. QED
    BY <1>1, <2>1 DEF Written
<1>5. SubSeq(b, 1, WordSize) = Bytes(v, Size[v])
  BY <1>1, <1>3, <1>4, WrittenBuffer
<1>6. b \in Seq(Value \cup {Zero}) /\ Len(b) = Len(buf)
  BY <1>1, <1>4, WrittenBuffer
<1>7. Bytes(v, Size[v]) \in Seq(Value \cup {Zero})
  BY <1>1, <1>2, BytesType
<1>. QED
  BY <1>5, <1>6, <1>7

LEMMA MemInvNext == MemInv /\ [MemNext]_memVars => MemInv'
<1>. SUFFICES ASSUME MemInv, [MemNext]_memVars PROVE MemInv'
  OBVIOUS
<1>. USE DEF MemInv, MemTypeOK, LimitIsLength, ExactValue, Idle
<1>1. ASSUME NEW v \in Value, Fits(v) PROVE MemInv'
  <2>1. Size[v] \in Nat /\ Size[v] <= Len(readBuf)
    BY <1>1, SizeAssumption DEF Fits
  <2>2. readBuf' \in Seq(Value \cup {Zero}) /\ Len(readBuf') = readBufLimit'
    BY <1>1, WrittenBuffer DEF Fits
  <2>3. result' = Bytes(v, Size[v])
    BY <1>1, <2>1, WrittenBuffer DEF Fits
  <2>4. result' \in Seq(Value \cup {Zero})
    BY <2>1, <2>3, BytesType
  <2>. QED
    BY <1>1, <2>2, <2>3, <2>4 DEF Fits
<1>2. ASSUME NEW v \in Value, UpdateGrows(v) PROVE MemInv'
  <2>1. Size[v] \in Nat /\ FirstLimit \in Nat
    BY SizeAssumption, LimitAssumption
  <2>2. readBuf' \in Seq(Value \cup {Zero}) /\ Len(readBuf') = Size[v]
    BY <1>2, <2>1, BytesType DEF UpdateGrows
  <2>. QED
    BY <1>2, <2>1, <2>2 DEF UpdateGrows
<1>3. ASSUME NEW v \in Value, GetStringAllocates(v) PROVE MemInv'
  <2>1. Size[v] \in Nat
    BY SizeAssumption
  <2>. QED
    BY <1>3, <2>1 DEF GetStringAllocates
<1>4. ASSUME NEW v \in Value, UpdateAgain(v) PROVE MemInv'
  <2>1. asked \in Value /\ Size[asked] \in Nat \ {0}
    BY <1>4, SizeAssumption DEF UpdateAgain
  <2>2. readBuf' = Written(Bytes(Zero, Size[asked]), Size[asked], v)
    BY <1>4 DEF UpdateAgain
  <2>3. /\ readBuf' \in Seq(Value \cup {Zero}) /\ Len(readBuf') = Size[asked]
        /\ \/ readBuf' = Bytes(v, Size[v])
           \/ Broken(readBuf') /\ Size[v] # Size[asked]
    BY <2>1, <2>2, WrittenFresh
  <2>4. result' = readBuf' /\ readBufLimit' = Size[asked]
        /\ answered' = v /\ asked' = asked /\ pending' = Idle
    BY <1>4 DEF UpdateAgain
  <2>5. /\ result' \in Seq(Value \cup {Zero}) /\ readBufLimit' = Len(readBuf')
        /\ \/ result' = Bytes(answered', Size[answered'])
           \/ Broken(result)' /\ Size[answered'] # Size[asked']
    BY <2>3, <2>4 DEF Broken
  <2>6. FirstLimit <= readBufLimit'
    BY <1>4, <2>4 DEF UpdateAgain
  <2>. QED
    BY <2>1, <2>3, <2>4, <2>5, <2>6
<1>5. ASSUME NEW v \in Value, GetStringAgain(v) PROVE MemInv'
  <2>1. asked \in Value /\ Size[asked] \in Nat \ {0}
    BY <1>5, SizeAssumption DEF GetStringAgain
  <2>2. result' = Written(Bytes(Zero, Size[asked]), Size[asked], v)
    BY <1>5 DEF GetStringAgain
  <2>3. /\ result' \in Seq(Value \cup {Zero})
        /\ \/ result' = Bytes(v, Size[v])
           \/ Broken(result') /\ Size[v] # Size[asked]
    BY <2>1, <2>2, WrittenFresh
  <2>. QED
    BY <1>5, <2>1, <2>3 DEF GetStringAgain, Broken
<1>6. ASSUME NEW v \in Value, GetWaitingPod(v) PROVE MemInv'
  <2>1. readBuf' \in Seq(Value \cup {Zero}) /\ Len(readBuf') = readBufLimit'
    BY <1>6, WrittenBuffer DEF GetWaitingPod
  <2>. QED
    BY <1>6, <2>1 DEF GetWaitingPod, Broken
<1>7. ASSUME NEW v \in Word, SendAndGetUint64(v) PROVE MemInv'
  <2>1. v \in Value
    BY WordAssumption
  <2>2. /\ readBuf' \in Seq(Value \cup {Zero}) /\ Len(readBuf') = readBufLimit'
        /\ result' \in Seq(Value \cup {Zero}) /\ result' = Bytes(v, Size[v])
    BY <1>7, WrittenWord DEF SendAndGetUint64
  <2>. QED
    BY <1>7, <2>1, <2>2 DEF SendAndGetUint64
<1>8. CASE UNCHANGED memVars
  BY <1>8 DEF memVars, Broken
<1>. QED
  BY <1>1, <1>2, <1>3, <1>4, <1>5, <1>6, <1>7, <1>8 DEF MemNext

LEMMA MemInvariant == MemSpec => []MemInv
BY MemInvInit, MemInvNext, PTL DEF MemSpec

(* The variables keep their types, for any values and sizes.               *)
THEOREM TransferTypes == MemSpec => []MemTypeOK
<1>1. MemInv => MemTypeOK
  BY DEF MemInv
<1>. QED
  BY <1>1, MemInvariant, PTL

(* The host always knows how long the shared buffer is.                    *)
THEOREM LimitTellsLength == MemSpec => []LimitIsLength
<1>1. MemInv => LimitIsLength
  BY DEF MemInv
<1>. QED
  BY <1>1, MemInvariant, PTL

(* Update and GetString hand over the value the host had last, or bytes    *)
(* that do not decode, whatever the sizes, whatever the buffer held and    *)
(* whatever became of the value between the calls.                         *)
THEOREM ValuesArriveWhole == MemSpec => []ExactValue
<1>1. MemInv => ExactValue
  BY DEF MemInv
<1>. QED
  BY <1>1, MemInvariant, PTL

(* The shared buffer never shrinks and grows to no more than was needed.   *)
THEOREM BufferOnlyGrows == MemSpec => OnlyGrows
<1>. DEFINE Grows == /\ readBufLimit' >= readBufLimit
                     /\ readBufLimit' # readBufLimit
                          => readBufLimit' = Size[asked']
<1>1. ASSUME MemInv, [MemNext]_memVars PROVE [Grows]_memVars
  BY <1>1, SizeAssumption
     DEF MemInv, MemTypeOK, MemNext, memVars, Fits, UpdateGrows,
         GetStringAllocates, UpdateAgain, GetStringAgain, GetWaitingPod,
         SendAndGetUint64
<1>. QED
  BY <1>1, MemInvariant, PTL DEF MemSpec, OnlyGrows
=============================================================================
