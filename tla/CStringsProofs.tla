---------------------------- MODULE CStringsProofs ----------------------------
(***************************************************************************)
(* What the loops of cstring.go compute, for all strings.  Induction is    *)
(* stated with sets: a set of numbers that has 0, and the successor of     *)
(* each of its numbers, is Nat, because a number it lacked would have a    *)
(* least one.                                                              *)
(***************************************************************************)
EXTENDS CStrings, WellFoundedInduction, SequenceTheorems, TLAPS

Below == {p \in Nat \X Nat : p[1] < p[2]}

LEMMA BelowIsWellFounded == IsWellFoundedOn(Below, Nat)
<1>1. OpToRel(<, Nat) = Below
  BY DEF OpToRel, Below
<1>. QED
  BY <1>1, NatLessThanWellFounded

LEMMA LeastNumber ==
  ASSUME NEW T \in SUBSET Nat, T # {}
  PROVE  \E x \in T : \A y \in T : x <= y
<1>1. PICK x \in T : \A y \in T : ~(<<y, x>> \in Below)
  BY BelowIsWellFounded, WFMin, Zenon
<1>2. \A y \in T : ~(y < x)
  BY <1>1 DEF Below
<1>. QED
  BY <1>2

LEMMA NatInductionSet ==
  ASSUME NEW T \in SUBSET Nat, 0 \in T, \A n \in T : n + 1 \in T
  PROVE  T = Nat
<1>. SUFFICES ASSUME Nat \ T # {} PROVE FALSE
  OBVIOUS
<1>1. PICK x \in Nat \ T : \A y \in Nat \ T : x <= y
  BY LeastNumber
<1>2. x - 1 \in Nat
  BY <1>1
<1>3. x - 1 \in T
  BY <1>1, <1>2
<1>. QED
  BY <1>1, <1>3

(* Up to a bound.                                                          *)
LEMMA UpTo ==
  ASSUME NEW n \in Nat, NEW T,
         0 \in T, \A i \in 1..n : i - 1 \in T => i \in T
  PROVE  \A i \in 0..n : i \in T
<1>. DEFINE U == {i \in Nat : i <= n => i \in T}
<1>1. 0 \in U
  OBVIOUS
<1>2. ASSUME NEW i \in U PROVE i + 1 \in U
  <2>. SUFFICES ASSUME i + 1 <= n PROVE i + 1 \in T
    OBVIOUS
  <2>1. i \in T /\ i + 1 \in 1..n /\ (i + 1) - 1 = i
    OBVIOUS
  <2>. QED
    BY <2>1
<1>3. U = Nat
  <2>. HIDE DEF U
  <2>1. U \in SUBSET Nat
    BY DEF U
  <2>. QED
    BY <1>1, <1>2, <2>1, NatInductionSet
<1>. QED
  BY <1>3

(* A set of sequences that has the empty one and all that are one longer   *)
(* than its members has them all.                                          *)
LEMMA SeqInduction ==
  ASSUME NEW C, NEW T \in SUBSET Seq(C), <<>> \in T,
         \A s \in T, c \in C : Append(s, c) \in T
  PROVE  T = Seq(C)
<1>. DEFINE U == {n \in Nat : \A s \in Seq(C) : Len(s) = n => s \in T}
<1>1. 0 \in U
  <2>1. \A s \in Seq(C) : Len(s) = 0 => s = <<>>
    BY EmptySeq
  <2>. QED
    BY <2>1
<1>2. ASSUME NEW n \in U PROVE n + 1 \in U
  <2>. SUFFICES ASSUME NEW s \in Seq(C), Len(s) = n + 1 PROVE s \in T
    OBVIOUS
  <2>1. s # <<>>
    BY EmptySeq
  <2>2. PICK r \in Seq(C), c \in C : s = Append(r, c)
    BY <2>1, SequenceEmptyOrAppend
  <2>3. Len(r) = n
    BY <2>2
  <2>. QED
    BY <2>2, <2>3
<1>3. U = Nat
  <2>. HIDE DEF U
  <2>1. U \in SUBSET Nat
    BY DEF U
  <2>. QED
    BY <1>1, <1>2, <2>1, NatInductionSet
<1>4. \A s \in Seq(C) : Len(s) \in U
  BY <1>3
<1>. QED
  BY <1>4

-----------------------------------------------------------------------------
(* A loop: from s0, step after step up to the n-th.  There is a function   *)
(* of its states, as the definitions of the loops' results have it.        *)
Steps(n, S) == [(1..n) \X S -> S]

IsLoop(f, s0, n, step, S) ==
  /\ f \in [0..n -> S] /\ f[0] = s0
  /\ \A i \in 1..n : f[i] = step[<<i, f[i - 1]>>]

LEMMA LoopExists ==
  ASSUME NEW S, NEW s0 \in S, NEW n \in Nat, NEW step \in Steps(n, S)
  PROVE  \E f : IsLoop(f, s0, n, step, S)
<1>. DEFINE T == {m \in 0..n : \E f : IsLoop(f, s0, m, step, S)}
<1>1. 0 \in T
  <2>. DEFINE g == [i \in 0..0 |-> s0]
  <2>1. g \in [0..0 -> S] /\ g[0] = s0 /\ \A i \in 1..0 : FALSE
    OBVIOUS
  <2>. HIDE DEF g
  <2>. QED
    BY <2>1 DEF IsLoop
<1>2. ASSUME NEW m \in 1..n, m - 1 \in T PROVE m \in T
  <2>1. PICK f \in [0..(m - 1) -> S] :
          f[0] = s0 /\ \A i \in 1..(m - 1) : f[i] = step[<<i, f[i - 1]>>]
    BY <1>2 DEF IsLoop
  <2>. DEFINE g == [i \in 0..m |-> IF i = m THEN step[<<m, f[m - 1]>>] ELSE f[i]]
  <2>2. step[<<m, f[m - 1]>>] \in S
    BY <2>1 DEF Steps
  <2>3. g \in [0..m -> S]
    BY <2>1, <2>2
  <2>4. g[m] = step[<<m, f[m - 1]>>] /\ \A i \in 0..(m - 1) : g[i] = f[i]
    OBVIOUS
  <2>. HIDE DEF g
  <2>5. g[0] = s0
    BY <2>1, <2>4
  <2>6. ASSUME NEW i \in 1..m PROVE g[i] = step[<<i, g[i - 1]>>]
    <3>1. g[i - 1] = f[i - 1]
      BY <2>4
    <3>2. CASE i = m
      BY <2>4, <3>1, <3>2
    <3>3. CASE i # m
      BY <2>1, <2>4, <3>1, <3>3
    <3>. QED
      BY <3>2, <3>3
  <2>. QED
    BY <2>3, <2>5, <2>6 DEF IsLoop
<1>. HIDE DEF T
<1>3. n \in T
  BY <1>1, <1>2, UpTo
<1>. QED
  BY <1>3 DEF T

(* Two loops that start the same and step the same end the same.           *)
LEMMA LoopsAgree ==
  ASSUME NEW n \in Nat, NEW f, NEW g, f[0] = g[0],
         \A i \in 1..n : f[i - 1] = g[i - 1] => f[i] = g[i]
  PROVE  f[n] = g[n]
<1>. DEFINE T == {i \in 0..n : f[i] = g[i]}
<1>1. 0 \in T /\ \A i \in 1..n : i - 1 \in T => i \in T
  OBVIOUS
<1>. HIDE DEF T
<1>2. n \in T
  BY <1>1, UpTo
<1>. QED
  BY <1>2 DEF T

(* The loops of Concat, NonEmpty and Read.                                 *)
LEMMA ConcatLoop ==
  ASSUME NEW C, NEW strings \in Seq(Seq(C))
  PROVE  \E f : /\ f[0] = <<>>
                /\ \A i \in 1..Len(strings) : f[i] = f[i - 1] \o strings[i]
                /\ Concat(strings) = f[Len(strings)]
<1>. DEFINE n == Len(strings)
            S == Seq(C)
            s0 == <<>>
            Step(i, b) == b \o strings[i]
            loop == CHOOSE f : f = [i \in 0..n |-> IF i = 0 THEN s0 ELSE Step(i, f[i - 1])]
            step == [p \in (1..n) \X S |-> Step(p[1], p[2])]
<1>1. n \in Nat /\ s0 \in S /\ \A i \in 1..n, b \in S : Step(i, b) \in S
  OBVIOUS
<1>2. Concat(strings) = loop[n]
  BY DEF Concat
<1>. HIDE DEF n, S, s0, Step
<1>3. step \in Steps(n, S) /\ \A i \in 1..n, b \in S : step[<<i, b>>] = Step(i, b)
  BY <1>1 DEF Steps
<1>. HIDE DEF step
<1>4. PICK f : IsLoop(f, s0, n, step, S)
  BY <1>1, <1>3, LoopExists
<1>5. f \in [0..n -> S] /\ f[0] = s0 /\ \A i \in 1..n : f[i] = step[<<i, f[i - 1]>>]
  BY <1>4 DEF IsLoop
<1>6. ASSUME NEW i \in 1..n PROVE f[i] = Step(i, f[i - 1])
  <2>1. i - 1 \in 0..n
    BY <1>1
  <2>2. f[i - 1] \in S
    BY <1>5, <2>1
  <2>. QED
    BY <1>3, <1>5, <2>2
<1>7. f = [i \in 0..n |-> IF i = 0 THEN s0 ELSE Step(i, f[i - 1])]
  BY <1>1, <1>5, <1>6
<1>8. loop = [i \in 0..n |-> IF i = 0 THEN s0 ELSE Step(i, loop[i - 1])]
  BY <1>7, Zenon
<1>. HIDE DEF loop
<1>9. loop[0] = s0 /\ \A i \in 1..n : loop[i] = Step(i, loop[i - 1])
  <2>. DEFINE body == [i \in 0..n |-> IF i = 0 THEN s0 ELSE Step(i, loop[i - 1])]
  <2>1. n \in Nat
    BY <1>1
  <2>2. 0 \in 0..n /\ \A i \in 1..n : i \in 0..n /\ i # 0
    BY <2>1
  <2>3. body[0] = s0
    BY <2>2
  <2>4. \A i \in 1..n : body[i] = Step(i, loop[i - 1])
    BY <2>2
  <2>5. loop = body
    BY <1>8
  <2>. HIDE DEF body
  <2>. QED
    BY <2>3, <2>4, <2>5, Zenon
<1>. QED
  BY <1>2, <1>9 DEF n, s0, Step

LEMMA NonEmptyLoop ==
  ASSUME NEW C, NEW strings \in Seq(Seq(C))
  PROVE  \E f : /\ f[0] = <<>>
                /\ \A i \in 1..Len(strings) : f[i] =
                     IF strings[i] = <<>> THEN f[i - 1] ELSE Append(f[i - 1], strings[i])
                /\ NonEmpty(strings) = f[Len(strings)]
<1>. DEFINE n == Len(strings)
            S == Seq(Seq(C))
            s0 == <<>>
            Step(i, b) == IF strings[i] = <<>> THEN b ELSE Append(b, strings[i])
            loop == CHOOSE f : f = [i \in 0..n |-> IF i = 0 THEN s0 ELSE Step(i, f[i - 1])]
            step == [p \in (1..n) \X S |-> Step(p[1], p[2])]
<1>1. n \in Nat /\ s0 \in S /\ \A i \in 1..n, b \in S : Step(i, b) \in S
  OBVIOUS
<1>2. NonEmpty(strings) = loop[n]
  BY DEF NonEmpty
<1>. HIDE DEF n, S, s0, Step
<1>3. step \in Steps(n, S) /\ \A i \in 1..n, b \in S : step[<<i, b>>] = Step(i, b)
  BY <1>1 DEF Steps
<1>. HIDE DEF step
<1>4. PICK f : IsLoop(f, s0, n, step, S)
  BY <1>1, <1>3, LoopExists
<1>5. f \in [0..n -> S] /\ f[0] = s0 /\ \A i \in 1..n : f[i] = step[<<i, f[i - 1]>>]
  BY <1>4 DEF IsLoop
<1>6. ASSUME NEW i \in 1..n PROVE f[i] = Step(i, f[i - 1])
  <2>1. i - 1 \in 0..n
    BY <1>1
  <2>2. f[i - 1] \in S
    BY <1>5, <2>1
  <2>. QED
    BY <1>3, <1>5, <2>2
<1>7. f = [i \in 0..n |-> IF i = 0 THEN s0 ELSE Step(i, f[i - 1])]
  BY <1>1, <1>5, <1>6
<1>8. loop = [i \in 0..n |-> IF i = 0 THEN s0 ELSE Step(i, loop[i - 1])]
  BY <1>7, Zenon
<1>. HIDE DEF loop
<1>9. loop[0] = s0 /\ \A i \in 1..n : loop[i] = Step(i, loop[i - 1])
  <2>. DEFINE body == [i \in 0..n |-> IF i = 0 THEN s0 ELSE Step(i, loop[i - 1])]
  <2>1. n \in Nat
    BY <1>1
  <2>2. 0 \in 0..n /\ \A i \in 1..n : i \in 0..n /\ i # 0
    BY <2>1
  <2>3. body[0] = s0
    BY <2>2
  <2>4. \A i \in 1..n : body[i] = Step(i, loop[i - 1])
    BY <2>2
  <2>5. loop = body
    BY <1>8
  <2>. HIDE DEF body
  <2>. QED
    BY <2>3, <2>4, <2>5, Zenon
<1>. QED
  BY <1>2, <1>9 DEF n, s0, Step

(* What has been read of bytes in C.                                       *)
ReadState(C) == [entries : Seq(Seq(C)), entry : Seq(C)]

LEMMA NothingReadState == ASSUME NEW C PROVE NothingRead \in ReadState(C)
BY EmptySeq DEF NothingRead, ReadState

LEMMA ReadByteState ==
  ASSUME NEW C, NEW read \in ReadState(C), NEW c \in C
  PROVE  ReadByte(read, c) \in ReadState(C)
<1>1. /\ read.entries \in Seq(Seq(C)) /\ read.entry \in Seq(C)
      /\ read = [entries |-> read.entries, entry |-> read.entry]
  BY DEF ReadState
<1>2. /\ Append(read.entry, c) \in Seq(C)
      /\ Append(read.entries, read.entry) \in Seq(Seq(C))
      /\ <<>> \in Seq(C) /\ <<>> \in Seq(Seq(C))
  BY <1>1
<1>. QED
  BY <1>1, <1>2 DEF ReadState, ReadByte, NothingRead

LEMMA ReadLoop ==
  ASSUME NEW C, NEW b \in Seq(C)
  PROVE  \E f : /\ f[0] = NothingRead
                /\ \A i \in 1..Len(b) : f[i] = ReadByte(f[i - 1], b[i])
                /\ Read(b) = f[Len(b)]
<1>. DEFINE n == Len(b)
            S == ReadState(C)
            s0 == NothingRead
            Step(i, x) == ReadByte(x, b[i])
            loop == CHOOSE f : f = [i \in 0..n |-> IF i = 0 THEN s0 ELSE Step(i, f[i - 1])]
            step == [p \in (1..n) \X S |-> Step(p[1], p[2])]
<1>1. n \in Nat /\ s0 \in S /\ \A i \in 1..n, x \in S : Step(i, x) \in S
  BY NothingReadState, ReadByteState
<1>2. Read(b) = loop[n]
  BY DEF Read
<1>. HIDE DEF n, S, s0, Step
<1>3. step \in Steps(n, S) /\ \A i \in 1..n, x \in S : step[<<i, x>>] = Step(i, x)
  BY <1>1 DEF Steps
<1>. HIDE DEF step
<1>4. PICK f : IsLoop(f, s0, n, step, S)
  BY <1>1, <1>3, LoopExists
<1>5. f \in [0..n -> S] /\ f[0] = s0 /\ \A i \in 1..n : f[i] = step[<<i, f[i - 1]>>]
  BY <1>4 DEF IsLoop
<1>6. ASSUME NEW i \in 1..n PROVE f[i] = Step(i, f[i - 1])
  <2>1. i - 1 \in 0..n
    BY <1>1
  <2>2. f[i - 1] \in S
    BY <1>5, <2>1
  <2>. QED
    BY <1>3, <1>5, <2>2
<1>7. f = [i \in 0..n |-> IF i = 0 THEN s0 ELSE Step(i, f[i - 1])]
  BY <1>1, <1>5, <1>6
<1>8. loop = [i \in 0..n |-> IF i = 0 THEN s0 ELSE Step(i, loop[i - 1])]
  BY <1>7, Zenon
<1>. HIDE DEF loop
<1>9. loop[0] = s0 /\ \A i \in 1..n : loop[i] = Step(i, loop[i - 1])
  <2>. DEFINE body == [i \in 0..n |-> IF i = 0 THEN s0 ELSE Step(i, loop[i - 1])]
  <2>1. n \in Nat
    BY <1>1
  <2>2. 0 \in 0..n /\ \A i \in 1..n : i \in 0..n /\ i # 0
    BY <2>1
  <2>3. body[0] = s0
    BY <2>2
  <2>4. \A i \in 1..n : body[i] = Step(i, loop[i - 1])
    BY <2>2
  <2>5. loop = body
    BY <1>8
  <2>. HIDE DEF body
  <2>. QED
    BY <2>3, <2>4, <2>5, Zenon
<1>. QED
  BY <1>2, <1>9 DEF n, s0, Step

-----------------------------------------------------------------------------
(* One string more, or one byte more.                                      *)
LEMMA Appended ==
  ASSUME NEW C, NEW s \in Seq(C), NEW c \in C
  PROVE  /\ Append(s, c) \in Seq(C)
         /\ Len(s) \in Nat /\ Len(Append(s, c)) = Len(s) + 1
         /\ Append(s, c)[Len(s) + 1] = c
         /\ \A i \in 1..Len(s) : i \in 1..Len(Append(s, c)) /\ Append(s, c)[i] = s[i]
BY AppendProperties, LenProperties

LEMMA ConcatEmpty == Concat(<<>>) = <<>>
<1>1. <<>> \in Seq(Seq({})) /\ Len(<<>>) = 0
  BY EmptySeq
<1>. QED
  BY <1>1, ConcatLoop

LEMMA ConcatAppend ==
  ASSUME NEW C, NEW strings \in Seq(Seq(C)), NEW s \in Seq(C)
  PROVE  Concat(Append(strings, s)) = Concat(strings) \o s
<1>. DEFINE more == Append(strings, s)
            n == Len(strings)
<1>1. /\ more \in Seq(Seq(C)) /\ n \in Nat /\ Len(more) = n + 1
      /\ more[n + 1] = s
      /\ \A i \in 1..n : i \in 1..Len(more) /\ more[i] = strings[i]
  BY Appended
<1>2. PICK f : /\ f[0] = <<>>
               /\ \A i \in 1..n : f[i] = f[i - 1] \o strings[i]
               /\ Concat(strings) = f[n]
  BY ConcatLoop
<1>. HIDE DEF more, n
<1>3. PICK g : /\ g[0] = <<>>
               /\ \A i \in 1..Len(more) : g[i] = g[i - 1] \o more[i]
               /\ Concat(more) = g[Len(more)]
  BY <1>1, ConcatLoop
<1>4. \A i \in 1..n : f[i - 1] = g[i - 1] => f[i] = g[i]
  BY <1>1, <1>2, <1>3
<1>5. f[n] = g[n]
  <2>1. n \in Nat /\ f[0] = g[0]
    BY <1>1, <1>2, <1>3
  <2>. QED
    BY <1>4, <2>1, LoopsAgree
<1>6. n + 1 \in 1..Len(more) /\ (n + 1) - 1 = n
  BY <1>1
<1>7. g[n + 1] = g[n] \o s
  BY <1>1, <1>3, <1>6
<1>. QED
  BY <1>1, <1>2, <1>3, <1>5, <1>7 DEF more

LEMMA NonEmptyOfEmpty == NonEmpty(<<>>) = <<>>
<1>1. <<>> \in Seq(Seq({})) /\ Len(<<>>) = 0
  BY EmptySeq
<1>. QED
  BY <1>1, NonEmptyLoop

LEMMA NonEmptyAppend ==
  ASSUME NEW C, NEW strings \in Seq(Seq(C)), NEW s \in Seq(C)
  PROVE  NonEmpty(Append(strings, s)) =
           IF s = <<>> THEN NonEmpty(strings) ELSE Append(NonEmpty(strings), s)
<1>. DEFINE more == Append(strings, s)
            n == Len(strings)
<1>1. /\ more \in Seq(Seq(C)) /\ n \in Nat /\ Len(more) = n + 1
      /\ more[n + 1] = s
      /\ \A i \in 1..n : i \in 1..Len(more) /\ more[i] = strings[i]
  BY Appended
<1>2. PICK f : /\ f[0] = <<>>
               /\ \A i \in 1..n :
                    f[i] = IF strings[i] = <<>> THEN f[i - 1]
                           ELSE Append(f[i - 1], strings[i])
               /\ NonEmpty(strings) = f[n]
  BY NonEmptyLoop
<1>. HIDE DEF more, n
<1>3. PICK g : /\ g[0] = <<>>
               /\ \A i \in 1..Len(more) :
                    g[i] = IF more[i] = <<>> THEN g[i - 1]
                           ELSE Append(g[i - 1], more[i])
               /\ NonEmpty(more) = g[Len(more)]
  BY <1>1, NonEmptyLoop
<1>4. \A i \in 1..n : f[i - 1] = g[i - 1] => f[i] = g[i]
  BY <1>1, <1>2, <1>3
<1>5. f[n] = g[n]
  <2>1. n \in Nat /\ f[0] = g[0]
    BY <1>1, <1>2, <1>3
  <2>. QED
    BY <1>4, <2>1, LoopsAgree
<1>6. n + 1 \in 1..Len(more) /\ (n + 1) - 1 = n
  BY <1>1
<1>7. g[n + 1] = IF s = <<>> THEN g[n] ELSE Append(g[n], s)
  BY <1>1, <1>3, <1>6
<1>. QED
  BY <1>1, <1>2, <1>3, <1>5, <1>7 DEF more

LEMMA ReadEmpty == Read(<<>>) = NothingRead
<1>1. <<>> \in Seq({}) /\ Len(<<>>) = 0
  BY EmptySeq
<1>. QED
  BY <1>1, ReadLoop

LEMMA ReadAppend ==
  ASSUME NEW C, NEW b \in Seq(C), NEW c \in C
  PROVE  Read(Append(b, c)) = ReadByte(Read(b), c)
<1>. DEFINE more == Append(b, c)
            n == Len(b)
<1>1. /\ more \in Seq(C) /\ n \in Nat /\ Len(more) = n + 1
      /\ more[n + 1] = c
      /\ \A i \in 1..n : i \in 1..Len(more) /\ more[i] = b[i]
  BY Appended
<1>2. PICK f : /\ f[0] = NothingRead
               /\ \A i \in 1..n : f[i] = ReadByte(f[i - 1], b[i])
               /\ Read(b) = f[n]
  BY ReadLoop
<1>. HIDE DEF more, n
<1>3. PICK g : /\ g[0] = NothingRead
               /\ \A i \in 1..Len(more) : g[i] = ReadByte(g[i - 1], more[i])
               /\ Read(more) = g[Len(more)]
  BY <1>1, ReadLoop
<1>4. \A i \in 1..n : f[i - 1] = g[i - 1] => f[i] = g[i]
  BY <1>1, <1>2, <1>3
<1>5. f[n] = g[n]
  <2>1. n \in Nat /\ f[0] = g[0]
    BY <1>1, <1>2, <1>3
  <2>. QED
    BY <1>4, <2>1, LoopsAgree
<1>6. n + 1 \in 1..Len(more) /\ (n + 1) - 1 = n
  BY <1>1
<1>7. g[n + 1] = ReadByte(g[n], c)
  BY <1>1, <1>3, <1>6
<1>. QED
  BY <1>1, <1>2, <1>3, <1>5, <1>7 DEF more

(* By induction on the strings, or on the bytes.                           *)
LEMMA ConcatType ==
  ASSUME NEW C, NEW strings \in Seq(Seq(C)) PROVE Concat(strings) \in Seq(C)
<1>. DEFINE T == {x \in Seq(Seq(C)) : Concat(x) \in Seq(C)}
<1>1. <<>> \in T
  BY ConcatEmpty, EmptySeq
<1>2. ASSUME NEW x \in T, NEW s \in Seq(C) PROVE Append(x, s) \in T
  <2>1. Concat(Append(x, s)) = Concat(x) \o s
    BY ConcatAppend
  <2>2. Append(x, s) \in Seq(Seq(C)) /\ Concat(x) \o s \in Seq(C)
    BY Appended, ConcatProperties
  <2>. QED
    BY <2>1, <2>2
<1>. HIDE DEF T
<1>3. T = Seq(Seq(C))
  <2>1. T \in SUBSET Seq(Seq(C))
    BY DEF T
  <2>. QED
    BY <1>1, <1>2, <2>1, SeqInduction
<1>. QED
  BY <1>3 DEF T

LEMMA NonEmptyType ==
  ASSUME NEW C, NEW strings \in Seq(Seq(C)) PROVE NonEmpty(strings) \in Seq(Seq(C))
<1>. DEFINE T == {x \in Seq(Seq(C)) : NonEmpty(x) \in Seq(Seq(C))}
<1>1. <<>> \in T
  BY NonEmptyOfEmpty, EmptySeq
<1>2. ASSUME NEW x \in T, NEW s \in Seq(C) PROVE Append(x, s) \in T
  <2>1. NonEmpty(Append(x, s)) =
          IF s = <<>> THEN NonEmpty(x) ELSE Append(NonEmpty(x), s)
    BY NonEmptyAppend
  <2>2. Append(x, s) \in Seq(Seq(C)) /\ Append(NonEmpty(x), s) \in Seq(Seq(C))
    BY Appended
  <2>. QED
    BY <2>1, <2>2
<1>. HIDE DEF T
<1>3. T = Seq(Seq(C))
  <2>1. T \in SUBSET Seq(Seq(C))
    BY DEF T
  <2>. QED
    BY <1>1, <1>2, <2>1, SeqInduction
<1>. QED
  BY <1>3 DEF T

LEMMA ReadType ==
  ASSUME NEW C, NEW b \in Seq(C) PROVE Read(b) \in ReadState(C)
<1>. DEFINE T == {x \in Seq(C) : Read(x) \in ReadState(C)}
<1>1. <<>> \in T
  BY ReadEmpty, NothingReadState, EmptySeq
<1>2. ASSUME NEW x \in T, NEW c \in C PROVE Append(x, c) \in T
  BY ReadAppend, ReadByteState, Appended
<1>. HIDE DEF T
<1>3. T = Seq(C)
  <2>1. T \in SUBSET Seq(C)
    BY DEF T
  <2>. QED
    BY <1>1, <1>2, <2>1, SeqInduction
<1>. QED
  BY <1>3 DEF T

-----------------------------------------------------------------------------
(* What is written is read.                                                *)
LEMMA TerminatedEmpty == Terminated(<<>>) = <<>>
<1>1. [i \in DOMAIN <<>> |-> Append(<<>>[i], NUL)] = <<>>
  OBVIOUS
<1>. QED
  BY <1>1, ConcatEmpty DEF Terminated

(* Bytes of strings without a NUL, and the NULs that end them.             *)
LEMMA TerminatedAppend ==
  ASSUME NEW C, NEW strings \in Seq(Seq(C)), NEW s \in Seq(C)
  PROVE  /\ Terminated(strings) \in Seq(C \cup {NUL})
         /\ Append(s, NUL) \in Seq(C \cup {NUL})
         /\ Terminated(Append(strings, s)) = Terminated(strings) \o Append(s, NUL)
<1>. DEFINE D == C \cup {NUL}
            ended == [i \in DOMAIN strings |-> Append(strings[i], NUL)]
            more == Append(strings, s)
<1>1. \A x \in Seq(C) : Append(x, NUL) \in Seq(D)
  <2>1. \A x \in Seq(C) : x \in Seq(D)
    BY SeqMonotonic
  <2>. QED
    BY <2>1, Appended
<1>2. ended \in Seq(Seq(D)) /\ Append(s, NUL) \in Seq(D)
  <2>1. \A i \in 1..Len(strings) : Append(strings[i], NUL) \in Seq(D)
    BY <1>1
  <2>. HIDE DEF D
  <2>2. ended \in [1..Len(strings) -> Seq(D)] /\ Len(strings) \in Nat
    BY <2>1
  <2>. QED
    BY <1>1, <2>2 DEF D
<1>3. [i \in DOMAIN more |-> Append(more[i], NUL)] = Append(ended, Append(s, NUL))
  OBVIOUS
<1>. HIDE DEF D, ended, more
<1>4. Terminated(more) = Concat(ended) \o Append(s, NUL)
  BY <1>2, <1>3, ConcatAppend DEF Terminated
<1>5. Terminated(strings) = Concat(ended)
  BY DEF Terminated, ended
<1>. QED
  BY <1>2, <1>4, <1>5, ConcatType DEF D, more

(* A string without a NUL is read whole.                                   *)
LEMMA ReadString ==
  ASSUME NEW C, NUL \notin C, NEW b \in Seq(C \cup {NUL}), NEW s \in Seq(C),
         Read(b).entry = <<>>
  PROVE  Read(b \o s) = [entries |-> Read(b).entries, entry |-> s]
<1>. DEFINE D == C \cup {NUL}
            entries == Read(b).entries
            T == {x \in Seq(C) : Read(b \o x) = [entries |-> entries, entry |-> x]}
<1>1. <<>> \in T
  <2>1. b \o <<>> = b /\ <<>> \in Seq(C)
    BY ConcatEmptySeq, EmptySeq
  <2>2. Read(b) = [entries |-> entries, entry |-> <<>>]
    BY ReadType DEF ReadState
  <2>. QED
    BY <2>1, <2>2
<1>. HIDE DEF D, entries
<1>2. ASSUME NEW x \in T, NEW c \in C PROVE Append(x, c) \in T
  <2>1. x \in Seq(C) /\ x \in Seq(D) /\ c \in D /\ c # NUL /\ b \in Seq(D)
    BY SeqMonotonic DEF D
  <2>2. b \o x \in Seq(D) /\ b \o Append(x, c) = Append(b \o x, c)
    BY <2>1, ConcatProperties
  <2>3. Read(b \o Append(x, c)) = ReadByte([entries |-> entries, entry |-> x], c)
    BY <2>1, <2>2, ReadAppend
  <2>. QED
    BY <2>1, <2>3, Appended DEF ReadByte
<1>. HIDE DEF T
<1>3. T = Seq(C)
  <2>1. T \in SUBSET Seq(C)
    BY DEF T
  <2>. QED
    BY <1>1, <1>2, <2>1, SeqInduction
<1>. QED
  BY <1>3 DEF T, entries

LEMMA ReadTerminated ==
  ASSUME NEW C, NUL \notin C, NEW strings \in Seq(Seq(C))
  PROVE  Read(Terminated(strings)) = [entries |-> NonEmpty(strings), entry |-> <<>>]
<1>. DEFINE T == {x \in Seq(Seq(C)) :
                    Read(Terminated(x)) = [entries |-> NonEmpty(x), entry |-> <<>>]}
<1>1. <<>> \in T
  BY TerminatedEmpty, ReadEmpty, NonEmptyOfEmpty, EmptySeq DEF NothingRead
<1>2. ASSUME NEW x \in T, NEW s \in Seq(C) PROVE Append(x, s) \in T
  <2>. DEFINE D == C \cup {NUL}
              b == Terminated(x)
  <2>1. /\ x \in Seq(Seq(C)) /\ b \in Seq(D)
        /\ Terminated(Append(x, s)) = b \o Append(s, NUL)
        /\ Read(b) = [entries |-> NonEmpty(x), entry |-> <<>>]
    BY TerminatedAppend
  <2>. HIDE DEF b
  <2>2. Read(b \o s) = [entries |-> NonEmpty(x), entry |-> s]
    <3>. HIDE DEF T
    <3>1. b \in Seq(C \cup {NUL})
      BY <2>1
    <3>2. Read(b).entry = <<>> /\ Read(b).entries = NonEmpty(x)
      BY <2>1
    <3>. QED
      BY <3>1, <3>2, ReadString
  <2>. HIDE DEF D
  <2>3. s \in Seq(D) /\ NUL \in D
    BY SeqMonotonic DEF D
  <2>4. b \o s \in Seq(D) /\ b \o Append(s, NUL) = Append(b \o s, NUL)
    BY <2>1, <2>3, ConcatProperties
  <2>5. Read(Append(b \o s, NUL)) = ReadByte([entries |-> NonEmpty(x), entry |-> s], NUL)
    BY <2>2, <2>3, <2>4, ReadAppend
  <2>6. Read(Terminated(Append(x, s))) =
          [entries |-> IF s = <<>> THEN NonEmpty(x) ELSE Append(NonEmpty(x), s),
           entry |-> <<>>]
    BY <2>1, <2>4, <2>5 DEF ReadByte
  <2>7. NonEmpty(Append(x, s)) = IF s = <<>> THEN NonEmpty(x) ELSE Append(NonEmpty(x), s)
    BY <2>1, NonEmptyAppend
  <2>8. Append(x, s) \in Seq(Seq(C))
    BY <2>1, Appended
  <2>. QED
    BY <2>6, <2>7, <2>8
<1>. HIDE DEF T
<1>3. T = Seq(Seq(C))
  <2>1. T \in SUBSET Seq(Seq(C))
    BY DEF T
  <2>. QED
    BY <1>1, <1>2, <2>1, SeqInduction
<1>. QED
  BY <1>3 DEF T

LEMMA NonEmptyTwice ==
  ASSUME NEW C, NEW strings \in Seq(Seq(C))
  PROVE  NonEmpty(NonEmpty(strings)) = NonEmpty(strings)
<1>. DEFINE T == {x \in Seq(Seq(C)) : NonEmpty(NonEmpty(x)) = NonEmpty(x)}
<1>1. <<>> \in T
  BY NonEmptyOfEmpty, EmptySeq
<1>2. ASSUME NEW x \in T, NEW s \in Seq(C) PROVE Append(x, s) \in T
  <2>1. /\ x \in Seq(Seq(C)) /\ Append(x, s) \in Seq(Seq(C))
        /\ NonEmpty(x) \in Seq(Seq(C)) /\ NonEmpty(NonEmpty(x)) = NonEmpty(x)
    BY Appended, NonEmptyType
  <2>2. NonEmpty(Append(x, s)) = IF s = <<>> THEN NonEmpty(x) ELSE Append(NonEmpty(x), s)
    BY <2>1, NonEmptyAppend
  <2>3. s # <<>> => NonEmpty(Append(NonEmpty(x), s)) = Append(NonEmpty(x), s)
    BY <2>1, NonEmptyAppend
  <2>. QED
    BY <2>1, <2>2, <2>3
<1>. HIDE DEF T
<1>3. T = Seq(Seq(C))
  <2>1. T \in SUBSET Seq(Seq(C))
    BY DEF T
  <2>. QED
    BY <1>1, <1>2, <2>1, SeqInduction
<1>. QED
  BY <1>3 DEF T

(* What the guest's toNULTerminated writes, the host's fromNULTerminated   *)
(* reads: the strings that are not empty, in their order, as long as none  *)
(* of them has a NUL.                                                      *)
THEOREM StringsRoundTrip ==
  ASSUME NEW C, NUL \notin C, NEW strings \in Seq(Seq(C))
  PROVE  fromNULTerminated(toNULTerminated(strings)) = NonEmpty(strings)
<1>1. NonEmpty(strings) \in Seq(Seq(C))
  BY NonEmptyType
<1>2. Read(Terminated(NonEmpty(strings))).entries = NonEmpty(NonEmpty(strings))
  BY <1>1, ReadTerminated
<1>. QED
  BY <1>2, NonEmptyTwice DEF fromNULTerminated, toNULTerminated

-----------------------------------------------------------------------------
(* Blocks of one size, one after the other: where each byte of each is.    *)
Blocks(C, size) == {s \in Seq(C) : Len(s) = size}

LEMMA PlaceOfByte ==
  ASSUME NEW size \in Nat, NEW n \in Nat, NEW i \in 1..n, NEW j \in 1..size
  PROVE  (i - 1) * size + j \in 1..n * size
<1>1. i - 1 \in Nat /\ n - i \in Nat /\ n = (i - 1) + (n - i) + 1
  OBVIOUS
<1>2. n * size = (i - 1) * size + (n - i) * size + size
  BY <1>1
<1>3. (i - 1) * size \in Nat /\ (n - i) * size \in Nat
  BY <1>1
<1>4. n * size \in Nat /\ (i - 1) * size + j <= n * size
  BY <1>2, <1>3
<1>. QED
  BY <1>3, <1>4

LEMMA ConcatBlocks ==
  ASSUME NEW C, NEW size \in Nat, NEW blocks \in Seq(Blocks(C, size))
  PROVE  /\ Concat(blocks) \in Seq(C) /\ Len(Concat(blocks)) = Len(blocks) * size
         /\ \A i \in 1..Len(blocks), j \in 1..size :
              Concat(blocks)[(i - 1) * size + j] = blocks[i][j]
<1>. DEFINE B == Blocks(C, size)
            Placed(x) == \A i \in 1..Len(x), j \in 1..size :
                           Concat(x)[(i - 1) * size + j] = x[i][j]
            T == {x \in Seq(B) : Len(Concat(x)) = Len(x) * size /\ Placed(x)}
<1>1. \A x \in Seq(B) : x \in Seq(Seq(C)) /\ Concat(x) \in Seq(C)
  BY SeqMonotonic, ConcatType DEF Blocks
<1>2. <<>> \in T
  <2>1. Concat(<<>>) = <<>> /\ <<>> \in Seq(B) /\ Len(<<>>) = 0
    BY ConcatEmpty, EmptySeq
  <2>2. Len(<<>>) * size = 0 /\ Placed(<<>>)
    BY <2>1
  <2>. QED
    BY <2>1, <2>2
<1>3. ASSUME NEW x \in T, NEW s \in B PROVE Append(x, s) \in T
  <2>. DEFINE n == Len(x)
              y == Append(x, s)
  <2>1. /\ x \in Seq(B) /\ x \in Seq(Seq(C)) /\ s \in Seq(C) /\ Len(s) = size
        /\ Concat(x) \in Seq(C) /\ Len(Concat(x)) = n * size /\ Placed(x)
        /\ Concat(y) = Concat(x) \o s
    BY <1>1, ConcatAppend DEF Blocks
  <2>. HIDE DEF Placed, B
  <2>2. /\ y \in Seq(B) /\ n \in Nat /\ Len(y) = n + 1 /\ y[n + 1] = s
        /\ \A i \in 1..n : y[i] = x[i]
    BY <2>1, Appended
  <2>. HIDE DEF y, n, T
  <2>3. n * size \in Nat /\ (n + 1) * size = n * size + size
    BY <2>2
  <2>4. /\ Len(Concat(y)) = n * size + size
        /\ \A k \in 1..n * size + size :
             Concat(y)[k] = IF k <= n * size THEN Concat(x)[k] ELSE s[k - n * size]
    <3>. DEFINE a == Concat(x)
    <3>1. a \in Seq(C) /\ s \in Seq(C) /\ Len(a) = n * size /\ Len(s) = size
      BY <2>1
    <3>2. Concat(y) = a \o s
      BY <2>1
    <3>. HIDE DEF a
    <3>3. /\ Len(a \o s) = Len(a) + Len(s)
          /\ \A k \in 1..Len(a) + Len(s) :
               (a \o s)[k] = IF k <= Len(a) THEN a[k] ELSE s[k - Len(a)]
      BY <3>1, ConcatProperties
    <3>. QED
      BY <3>1, <3>2, <3>3 DEF a
  <2>5. ASSUME NEW i \in 1..Len(y), NEW j \in 1..size
        PROVE  Concat(y)[(i - 1) * size + j] = y[i][j]
    <3>1. CASE i \in 1..n
      <4>1. (i - 1) * size + j \in 1..n * size
        BY <2>2, <3>1, PlaceOfByte
      <4>2. Concat(y)[(i - 1) * size + j] = Concat(x)[(i - 1) * size + j]
        BY <2>3, <2>4, <4>1
      <4>3. Concat(x)[(i - 1) * size + j] = x[i][j]
        BY <2>1, <3>1 DEF Placed, n
      <4>. QED
        BY <2>2, <3>1, <4>2, <4>3
    <3>2. CASE i = n + 1
      <4>1. (i - 1) * size + j = n * size + j
        BY <2>2, <3>2
      <4>2. n * size + j \in 1..n * size + size /\ ~(n * size + j <= n * size)
        BY <2>3
      <4>3. Concat(y)[n * size + j] = s[(n * size + j) - n * size]
        BY <2>4, <4>2
      <4>4. (n * size + j) - n * size = j
        BY <2>3
      <4>. QED
        BY <2>2, <3>2, <4>1, <4>3, <4>4
    <3>. QED
      BY <2>2, <3>1, <3>2
  <2>. QED
    BY <2>2, <2>3, <2>4, <2>5 DEF T, Placed, y
<1>. HIDE DEF T, B, Placed
<1>4. T = Seq(B)
  <2>1. T \in SUBSET Seq(B)
    BY DEF T
  <2>. QED
    BY <1>2, <1>3, <2>1, SeqInduction
<1>. QED
  BY <1>1, <1>4 DEF T, B, Placed
=============================================================================
