--------------------------- MODULE GuestCallsProofs ---------------------------
(***************************************************************************)
(* The theorems of a guest's calls, for every set of nodes, scores, texts, *)
(* names, events and bounds: the scores of NormalizeScore, the messages of *)
(* klog and the results of the methods, each for its own component and     *)
(* then for the calls that are made of them.                               *)
(***************************************************************************)
EXTENDS GuestCalls, CStringsProofs, FiniteSetTheorems, TLAPS

-----------------------------------------------------------------------------
(* The scores.                                                             *)
Names(order) == {order[i] : i \in DOMAIN order}

(* A list is of the guest's answer: an entry for each of its nodes.        *)
ListsAnswer(list) ==
  /\ Len(list) = Cardinality(DOMAIN answer)
  /\ \A i \in DOMAIN list : /\ list[i].Name \in DOMAIN answer
                            /\ list[i].Score = answer[list[i].Name]
  /\ \A i, j \in DOMAIN list : list[i].Name = list[j].Name => i = j

ScoreInv ==
  /\ ScoreTypeOK
  /\ \A i, j \in DOMAIN nodes : nodes[i] = nodes[j] => i = j
  /\ phase # "normalized" => \A i \in DOMAIN nodes : scores[i].Name = nodes[i]
  /\ answer \in [DOMAIN answer -> Score]
  /\ phase \in {"idle", "scored"} => answer = NoAnswer
  /\ phase \in {"idle", "scored", "answered"} => resultNormalizedScoreList = <<>>
  /\ phase \in {"listed", "normalized"} => ListsAnswer(resultNormalizedScoreList)
  /\ phase = "normalized" =>
       \/ /\ resultNormalizedScoreList = <<>>
          /\ \A i \in DOMAIN nodes : scores[i].Name = nodes[i]
       \/ resultNormalizedScoreList # <<>> /\ scores = resultNormalizedScoreList

(* A list without repetition has as many nodes as places.                  *)
LEMMA NamesOfOrder ==
  ASSUME NEW order \in Seq(Node),
         \A i, j \in DOMAIN order : order[i] = order[j] => i = j
  PROVE  IsFiniteSet(Names(order)) /\ Cardinality(Names(order)) = Len(order)
<1>1. /\ IsFiniteSet(1..Len(order)) /\ Cardinality(1..Len(order)) = Len(order)
      /\ DOMAIN order = 1..Len(order)
  <2>1. Len(order) \in Nat /\ DOMAIN order = 1..Len(order)
    OBVIOUS
  <2>2. /\ IsFiniteSet(1..Len(order))
        /\ Cardinality(1..Len(order)) =
             IF 1 > Len(order) THEN 0 ELSE Len(order) - 1 + 1
    BY <2>1, FS_Interval
  <2>. QED
    BY <2>1, <2>2
<1>. DEFINE R == Names(order)
<1>2. \A i \in 1..Len(order) : order[i] \in R
  BY <1>1 DEF Names
<1>3. \A n \in R : \E i \in 1..Len(order) : order[i] = n
  BY <1>1 DEF Names
<1>. HIDE DEF R
<1>4. order \in [1..Len(order) -> R]
  BY <1>1, <1>2
<1>5. order \in Surjection(1..Len(order), R)
  BY <1>3, <1>4 DEF Surjection
<1>6. order \in Injection(1..Len(order), R)
  BY <1>1, <1>4 DEF Injection, IsInjective
<1>7. IsFiniteSet(R) /\ Cardinality(R) = Cardinality(1..Len(order))
  BY <1>1, <1>5, <1>6, FS_Surjection
<1>. QED
  BY <1>1, <1>7 DEF R

LEMMA OrderedNodes ==
  ASSUME NEW S \in SUBSET Node, NEW order \in Orders(S)
  PROVE  /\ order \in Seq(Node) /\ Len(order) = Cardinality(S)
         /\ DOMAIN order = 1..Cardinality(S)
         /\ \A i \in DOMAIN order : order[i] \in S
         /\ \A i, j \in DOMAIN order : order[i] = order[j] => i = j
<1>1. IsFiniteSet(S) /\ Cardinality(S) \in Nat
  BY NodeAssumption, FS_Subset, FS_CardinalityType
<1>. QED
  BY <1>1 DEF Orders

LEMMA ScoreInitInv == ScoreInit => ScoreInv
<1>. SUFFICES ASSUME ScoreInit PROVE ScoreInv
  OBVIOUS
<1>1. answer \in [DOMAIN answer -> Score] /\ DOMAIN answer = {}
  BY DEF ScoreInit, NoAnswer
<1>. QED
  BY <1>1 DEF ScoreInit, ScoreInv, ScoreTypeOK, Names

LEMMA NormalizeKeeps == ASSUME ScoreInv, Normalize PROVE ScoreInv'
<1>1. PICK S \in SUBSET Node \ {{}}, given \in [Node -> Score] :
        /\ nodes' \in Orders(S)
        /\ scores' = [i \in DOMAIN nodes' |->
                        [Name |-> nodes'[i], Score |-> given[nodes'[i]]]]
  BY DEF Normalize
<1>2. /\ nodes' \in Seq(Node) /\ DOMAIN nodes' = 1..Len(nodes')
      /\ \A i, j \in DOMAIN nodes' : nodes'[i] = nodes'[j] => i = j
  BY <1>1, OrderedNodes
<1>3. scores' \in Seq(NodeScore) /\ Len(scores') = Len(nodes')
  BY <1>1, <1>2 DEF NodeScore
<1>4. \A i \in DOMAIN nodes' : scores'[i].Name = nodes'[i]
  BY <1>1
<1>5. phase' = "scored" /\ answer' = NoAnswer /\ resultNormalizedScoreList' = <<>>
  BY DEF Normalize, ScoreInv
<1>6. answer' \in [DOMAIN answer' -> Score] /\ DOMAIN answer' = {}
  BY <1>5 DEF NoAnswer
<1>. QED
  BY <1>2, <1>3, <1>4, <1>5, <1>6 DEF ScoreInv, ScoreTypeOK

LEMMA GuestAnswersKeeps == ASSUME ScoreInv, GuestAnswers PROVE ScoreInv'
<1>1. /\ phase = "scored" /\ phase' = "answered"
      /\ UNCHANGED <<nodes, scores, resultNormalizedScoreList>>
  BY DEF GuestAnswers
<1>2. /\ answer' \in [DOMAIN answer' -> Score]
      /\ DOMAIN answer' \subseteq Node
  BY DEF GuestAnswers
<1>. QED
  BY <1>1, <1>2 DEF ScoreInv, ScoreTypeOK

(* A call that never got as far as a list has an empty one.                *)
LEMMA EmptyListsNoAnswer ==
  ASSUME answer = NoAnswer PROVE ListsAnswer(<<>>)
BY FS_EmptySet DEF ListsAnswer, NoAnswer

LEMMA GuestHasNoneKeeps == ASSUME ScoreInv, GuestHasNone PROVE ScoreInv'
<1>1. /\ phase = "scored" /\ phase' = "listed"
      /\ UNCHANGED <<nodes, scores, answer, resultNormalizedScoreList>>
  BY DEF GuestHasNone
<1>2. ListsAnswer(resultNormalizedScoreList)
  BY <1>1, EmptyListsNoAnswer DEF ScoreInv
<1>3. ListsAnswer(resultNormalizedScoreList)'
  BY <1>1, <1>2 DEF ListsAnswer
<1>. QED
  BY <1>1, <1>3 DEF ScoreInv, ScoreTypeOK, Names

LEMMA GuestTrapsKeeps == ASSUME ScoreInv, GuestTraps PROVE ScoreInv'
BY DEF ScoreInv, ScoreTypeOK, Names, GuestTraps

LEMMA MapToNodeScoreListKeeps ==
  ASSUME ScoreInv, MapToNodeScoreList PROVE ScoreInv'
<1>1. /\ phase = "answered" /\ phase' = "listed"
      /\ UNCHANGED <<nodes, scores, answer>>
  BY DEF MapToNodeScoreList
<1>2. PICK order \in Orders(DOMAIN answer) :
        resultNormalizedScoreList' =
          [i \in DOMAIN order |->
             [Name |-> order[i], Score |-> answer[order[i]]]]
  BY DEF MapToNodeScoreList
<1>3. DOMAIN answer \in SUBSET Node /\ answer \in [DOMAIN answer -> Score]
  BY DEF ScoreInv, ScoreTypeOK
<1>4. /\ order \in Seq(Node) /\ Len(order) = Cardinality(DOMAIN answer)
      /\ DOMAIN order = 1..Len(order)
      /\ \A i \in DOMAIN order : order[i] \in DOMAIN answer
      /\ \A i, j \in DOMAIN order : order[i] = order[j] => i = j
  BY <1>2, <1>3, OrderedNodes
<1>. DEFINE list == [i \in DOMAIN order |->
                       [Name |-> order[i], Score |-> answer[order[i]]]]
<1>5. list \in Seq(NodeScore) /\ Len(list) = Len(order) /\ DOMAIN list = DOMAIN order
  <2>1. \A i \in 1..Len(order) :
          [Name |-> order[i], Score |-> answer[order[i]]] \in NodeScore
    BY <1>3, <1>4 DEF NodeScore
  <2>2. list \in [1..Len(order) -> NodeScore] /\ Len(order) \in Nat
    BY <1>4, <2>1
  <2>. QED
    BY <1>4, <2>2
<1>6. ListsAnswer(list)
  BY <1>4, <1>5 DEF ListsAnswer
<1>7. ListsAnswer(resultNormalizedScoreList)'
  BY <1>1, <1>2, <1>6 DEF ListsAnswer
<1>8. resultNormalizedScoreList' \in Seq(NodeScore)
  BY <1>2, <1>5
<1>. QED
  BY <1>1, <1>7, <1>8 DEF ScoreInv, ScoreTypeOK, Names

LEMMA CopyScoresKeeps == ASSUME ScoreInv, CopyScores PROVE ScoreInv'
<1>1. /\ phase = "listed" /\ phase' = "normalized"
      /\ Len(scores) = Len(UpdatedScores) /\ scores' = UpdatedScores
      /\ UNCHANGED <<nodes, answer, resultNormalizedScoreList>>
  BY DEF CopyScores
<1>2. UpdatedScores \in Seq(NodeScore)
  BY DEF UpdatedScores, ScoreInv, ScoreTypeOK
<1>3. ListsAnswer(resultNormalizedScoreList)'
  BY <1>1 DEF ScoreInv, ListsAnswer
<1>4. \/ /\ resultNormalizedScoreList' = <<>>
         /\ \A i \in DOMAIN nodes' : scores'[i].Name = nodes'[i]
      \/ resultNormalizedScoreList' # <<>> /\ scores' = resultNormalizedScoreList'
  BY <1>1 DEF ScoreInv, UpdatedScores
<1>5. ScoreTypeOK'
  BY <1>1, <1>2 DEF ScoreInv, ScoreTypeOK
<1>. QED
  BY <1>1, <1>3, <1>4, <1>5 DEF ScoreInv, Names

LEMMA SizeMismatchKeeps == ASSUME ScoreInv, SizeMismatch PROVE ScoreInv'
BY DEF ScoreInv, ScoreTypeOK, Names, SizeMismatch

LEMMA ScoresTakenKeeps == ASSUME ScoreInv, ScoresTaken PROVE ScoreInv'
<1>1. /\ phase' = "idle" /\ nodes' = <<>> /\ scores' = <<>>
      /\ answer' = NoAnswer /\ resultNormalizedScoreList' = <<>>
  BY DEF ScoresTaken
<1>2. answer' \in [DOMAIN answer' -> Score] /\ DOMAIN answer' = {}
  BY <1>1 DEF NoAnswer
<1>. QED
  BY <1>1, <1>2 DEF ScoreInv, ScoreTypeOK, Names

LEMMA ScoreNextInv == ScoreInv /\ [ScoreNext]_scoreVars => ScoreInv'
<1>. SUFFICES ASSUME ScoreInv, [ScoreNext]_scoreVars PROVE ScoreInv'
  OBVIOUS
<1>1. CASE UNCHANGED scoreVars
  BY <1>1 DEF ScoreInv, ScoreTypeOK, Names, ListsAnswer, scoreVars
<1>2. CASE ScoreNext
  BY <1>2, NormalizeKeeps, GuestAnswersKeeps, GuestHasNoneKeeps, GuestTrapsKeeps,
     MapToNodeScoreListKeeps, CopyScoresKeeps, SizeMismatchKeeps,
     ScoresTakenKeeps DEF ScoreNext
<1>. QED
  BY <1>1, <1>2

LEMMA ScoreInvariant == ScoreSpec => []ScoreInv
BY ScoreInitInv, ScoreNextInv, PTL DEF ScoreSpec

(* The names of a list of the answer are all the names of the answer.      *)
LEMMA AllNamesListed ==
  ASSUME ScoreInv, phase = "normalized", resultNormalizedScoreList # <<>>
  PROVE  /\ {scores[i].Name : i \in DOMAIN scores} = DOMAIN answer
         /\ IsFiniteSet(DOMAIN answer) /\ Cardinality(DOMAIN answer) = Len(nodes)
<1>. DEFINE order == [i \in DOMAIN scores |-> scores[i].Name]
<1>1. /\ scores \in Seq(NodeScore) /\ Len(scores) = Len(nodes)
      /\ ListsAnswer(scores)
      /\ DOMAIN answer \subseteq Node
  BY DEF ScoreInv, ScoreTypeOK
<1>2. order \in Seq(Node) /\ Len(order) = Len(scores) /\ DOMAIN order = DOMAIN scores
  <2>1. \A i \in 1..Len(scores) : scores[i].Name \in Node
    <3>1. \A i \in 1..Len(scores) : scores[i] \in NodeScore
      BY <1>1
    <3>. QED
      BY <3>1 DEF NodeScore
  <2>2. order \in [1..Len(scores) -> Node] /\ Len(scores) \in Nat
    BY <1>1, <2>1
  <2>. QED
    BY <1>1, <2>2
<1>3. \A i \in DOMAIN order : order[i] \in DOMAIN answer
  BY <1>1 DEF ListsAnswer
<1>4. \A i, j \in DOMAIN order : order[i] = order[j] => i = j
  BY <1>1 DEF ListsAnswer
<1>5. Names(order) = {scores[i].Name : i \in DOMAIN scores}
  BY <1>2 DEF Names
<1>. HIDE DEF order
<1>6. Names(order) \subseteq DOMAIN answer
  BY <1>3 DEF Names
<1>7. Cardinality(Names(order)) = Len(order)
  BY <1>2, <1>4, NamesOfOrder
<1>8. IsFiniteSet(DOMAIN answer) /\ Cardinality(DOMAIN answer) = Len(order)
  BY <1>1, <1>2, NodeAssumption, FS_Subset DEF ListsAnswer
<1>9. Names(order) = DOMAIN answer
  BY <1>6, <1>7, <1>8, FS_Subset
<1>. QED
  BY <1>1, <1>2, <1>5, <1>8, <1>9

(* An empty list is that of no answer.                                     *)
LEMMA EmptyListIsNoAnswer ==
  ASSUME ScoreInv, phase = "normalized", resultNormalizedScoreList = <<>>
  PROVE  answer = NoAnswer /\ DOMAIN answer = {}
<1>1. Cardinality(DOMAIN answer) = 0
  BY DEF ScoreInv, ListsAnswer
<1>2. IsFiniteSet(DOMAIN answer)
  BY NodeAssumption, FS_Subset DEF ScoreInv, ScoreTypeOK
<1>3. answer \in [{} -> Score]
  BY <1>1, <1>2, FS_EmptySet DEF ScoreInv
<1>. QED
  BY <1>3 DEF NoAnswer

LEMMA ListedAsAnswered == ScoreInv => ScoresAsAnswered
<1>. SUFFICES ASSUME ScoreInv, phase = "normalized" PROVE ScoresAsAnswered
  BY DEF ScoresAsAnswered
<1>1. CASE resultNormalizedScoreList = <<>>
  BY <1>1, EmptyListIsNoAnswer DEF ScoresAsAnswered, ScoreInv
<1>2. CASE resultNormalizedScoreList # <<>>
  <2>1. ListsAnswer(scores)
    BY <1>2 DEF ScoreInv
  <2>2. {scores[i].Name : i \in DOMAIN scores} = DOMAIN answer
    BY <1>2, AllNamesListed
  <2>3. answer # NoAnswer
    <3>1. scores \in Seq(NodeScore) /\ scores # <<>>
      BY <1>2 DEF ScoreInv, ScoreTypeOK
    <3>2. Len(scores) \in Nat /\ Len(scores) # 0 /\ DOMAIN scores = 1..Len(scores)
      BY <3>1
    <3>3. 1 \in DOMAIN scores
      BY <3>2
    <3>. QED
      BY <2>2, <3>3 DEF NoAnswer
  <2>. QED
    BY <2>1, <2>2, <2>3 DEF ScoresAsAnswered, ListsAnswer
<1>. QED
  BY <1>1, <1>2

(* As many names as there are nodes, and only nodes: all of them.          *)
LEMMA ListedAll == ScoreInv => AllOrNothing
<1>. SUFFICES ASSUME ScoreInv, phase = "normalized", DOMAIN answer \subseteq Nodes
              PROVE  DOMAIN answer \in {{}, Nodes}
  BY DEF AllOrNothing
<1>1. CASE resultNormalizedScoreList = <<>>
  BY <1>1, EmptyListIsNoAnswer
<1>2. CASE resultNormalizedScoreList # <<>>
  <2>1. IsFiniteSet(Nodes) /\ Cardinality(Nodes) = Len(nodes)
    BY NamesOfOrder DEF ScoreInv, ScoreTypeOK, Nodes, Names
  <2>2. Cardinality(DOMAIN answer) = Len(nodes)
    BY <1>2, AllNamesListed
  <2>. QED
    BY <2>1, <2>2, FS_Subset
<1>. QED
  BY <1>1, <1>2

(* NormalizeScore's lists are lists of scores, as long as the framework's. *)
THEOREM ScoreTypes == ScoreSpec => []ScoreTypeOK
<1>1. ScoreInv => ScoreTypeOK
  BY DEF ScoreInv
<1>. QED
  BY <1>1, ScoreInvariant, PTL

(* What comes out of NormalizeScore is the guest's answer, name by name.   *)
THEOREM ScoresAreTheAnswer == ScoreSpec => []ScoresAsAnswered
BY ListedAsAnswered, ScoreInvariant, PTL

(* An answer for some of the nodes, with no other name in the place of the *)
(* rest, does not get past the handler.                                    *)
THEOREM ScoresOfAllNodes == ScoreSpec => []AllOrNothing
BY ListedAll, ScoreInvariant, PTL

-----------------------------------------------------------------------------
(* The messages: all of them passed the guest's own comparison.            *)
AnyMessage ==
  [fn : {"log", "logs"}, severity : {InfoLog, ErrorLog},
   args : Seq(Text), alone : BOOLEAN]

SeverityInv ==
  /\ logSeverity \in 0..3
  /\ messages \in Seq(AnyMessage)
  /\ \A i \in DOMAIN messages : messages[i].severity >= logSeverity
  /\ NothingBelowSeverity

LEMMA SeverityInit == KlogInit => SeverityInv
BY LogSeverityAssumption
DEF KlogInit, SeverityInv, NothingBelowSeverity, NotLogged

LEMMA StartKeeps ==
  ASSUME SeverityInv, NEW fn \in {"log", "logs"},
         NEW severity \in {InfoLog, ErrorLog}, Start(fn, severity)
  PROVE  SeverityInv'
<1>. DEFINE others == [i \in DOMAIN messages |->
                         [messages[i] EXCEPT !.alone = FALSE]]
            own == [NoMessage EXCEPT !.fn = fn, !.severity = severity]
<1>1. /\ messages \in Seq(AnyMessage) /\ Len(messages) \in Nat
      /\ DOMAIN messages = 1..Len(messages)
      /\ \A i \in 1..Len(messages) : messages[i] \in AnyMessage
  BY DEF SeverityInv
<1>2. \A i \in 1..Len(messages) : others[i] \in AnyMessage
  BY <1>1 DEF AnyMessage
<1>3. others \in [1..Len(messages) -> AnyMessage]
  BY <1>1, <1>2
<1>4. others \in Seq(AnyMessage) /\ DOMAIN others = 1..Len(messages)
  BY <1>1, <1>3
<1>5. own \in AnyMessage /\ own.severity = severity
  <2>1. NoMessage \in [fn : {"none"}, severity : {InfoLog}, args : Seq(Text),
                       alone : BOOLEAN]
    BY DEF NoMessage
  <2>. QED
    BY <2>1 DEF AnyMessage
<1>6. \A i \in 1..Len(messages) : others[i].severity >= logSeverity
  BY <1>1 DEF SeverityInv, AnyMessage
<1>7. severity >= logSeverity
  BY DEF Start, Disabled, SeverityInv, InfoLog, ErrorLog
<1>8. /\ messages' = Append(others, own) /\ logged' = NotLogged
      /\ logSeverity' = logSeverity
  BY DEF Start
<1>. HIDE DEF others, own
<1>9. \A i \in DOMAIN messages' : messages'[i].severity >= logSeverity
  BY <1>4, <1>5, <1>6, <1>7, <1>8
<1>10. messages' \in Seq(AnyMessage)
  BY <1>4, <1>5, <1>8
<1>. QED
  BY <1>8, <1>9, <1>10 DEF SeverityInv, NothingBelowSeverity, NotLogged

LEMMA FormatKeeps ==
  ASSUME SeverityInv, NEW s \in Text, Format(s) PROVE SeverityInv'
<1>1. /\ messages \in Seq(AnyMessage) /\ Len(messages) \in DOMAIN messages
      /\ messages[Len(messages)] \in AnyMessage
  BY DEF Format, SeverityInv
<1>. DEFINE last == messages[Len(messages)]
            longer == [last EXCEPT !.args = Append(@, s)]
<1>2. longer \in AnyMessage /\ longer.severity = last.severity
  <2>1. Append(last.args, s) \in Seq(Text)
    BY <1>1 DEF AnyMessage
  <2>. QED
    BY <1>1, <2>1 DEF AnyMessage
<1>3. messages' = [messages EXCEPT ![Len(messages)] = longer]
  BY DEF Format
<1>4. logged' = NotLogged /\ logSeverity' = logSeverity
  BY DEF Format
<1>. HIDE DEF longer
<1>5. messages' \in Seq(AnyMessage) /\ DOMAIN messages' = DOMAIN messages
  BY <1>1, <1>2, <1>3
<1>6. \A i \in DOMAIN messages : messages'[i].severity = messages[i].severity
  BY <1>1, <1>2, <1>3
<1>. QED
  BY <1>4, <1>5, <1>6 DEF SeverityInv, NothingBelowSeverity, NotLogged

(* What ends is the innermost message, and the others stay.                *)
LEMMA EndKeeps ==
  ASSUME SeverityInv, LogEnds \/ LogsEnds PROVE SeverityInv'
<1>1. /\ messages \in Seq(AnyMessage) /\ Len(messages) \in DOMAIN messages
      /\ Current.severity >= logSeverity
  BY DEF LogEnds, LogsEnds, SeverityInv, Current, Last
<1>2. /\ messages' = SubSeq(messages, 1, Len(messages) - 1)
      /\ logged'.of = Current /\ logSeverity' = logSeverity
  BY DEF LogEnds, LogsEnds, Front
<1>3. /\ messages' \in Seq(AnyMessage)
      /\ \A i \in DOMAIN messages' : /\ i \in DOMAIN messages
                                      /\ messages'[i] = messages[i]
  BY <1>1, <1>2
<1>. QED
  BY <1>1, <1>2, <1>3 DEF SeverityInv, NothingBelowSeverity

LEMMA SeverityNext == SeverityInv /\ [KlogNext]_klogVars => SeverityInv'
<1>. SUFFICES ASSUME SeverityInv, [KlogNext]_klogVars PROVE SeverityInv'
  OBVIOUS
<1>1. CASE \E fn \in {"log", "logs"}, severity \in {InfoLog, ErrorLog} :
             Start(fn, severity)
  BY <1>1, StartKeeps
<1>2. CASE \E s \in Text : Format(s)
  BY <1>2, FormatKeeps
<1>3. CASE KlogTraps \/ LogReturns
  <2>1. messages' = <<>> /\ logged' = NotLogged /\ logSeverity' = logSeverity
    BY <1>3 DEF KlogTraps, LogReturns
  <2>2. messages' \in Seq(AnyMessage) /\ DOMAIN messages' = {}
    BY <2>1
  <2>3. logged'.written = FALSE
    BY <2>1 DEF NotLogged
  <2>. QED
    BY <2>1, <2>2, <2>3 DEF SeverityInv, NothingBelowSeverity
<1>4. CASE LogEnds \/ LogsEnds
  BY <1>4, EndKeeps
<1>5. CASE UNCHANGED klogVars
  BY <1>5 DEF klogVars, SeverityInv, NothingBelowSeverity
<1>. QED
  BY <1>1, <1>2, <1>3, <1>4, <1>5 DEF KlogNext

(* The host writes no message below the configured severity.               *)
THEOREM Severities == KlogSpec => []NothingBelowSeverity
<1>1. SeverityInv => NothingBelowSeverity
  BY DEF SeverityInv
<1>. QED
  BY <1>1, SeverityInit, SeverityNext, PTL DEF KlogSpec

(* A message that no other broke into is the innermost one, and the buffer *)
(* holds what has been formatted of it.                                    *)
Plain == {s \in Text : ~Contains(s, NUL)}

WholeMessages(some) ==
  /\ some \in Seq(AnyMessage)
  /\ \A i \in DOMAIN some :
       /\ some[i].alone => i = Len(some)
       /\ some[i].fn = "logs" => some[i].args \in Seq(Plain)

BufferHolds(message, bytes) ==
  message.alone =>
    bytes = IF message.fn = "log" THEN <<>> ELSE Terminated(message.args)

HeldInv ==
  /\ logSeverity \in LogSeverity
  /\ WholeMessages(messages)
  /\ messages # <<>> => BufferHolds(Current, buf)
  /\ WrittenWhole

LEMMA Letters ==
  \E C : /\ NUL \notin C /\ Plain \subseteq Seq(C)
         /\ Text \subseteq Seq(C \cup {NUL})
<1>. DEFINE D == UNION {ToSet(s) : s \in Text}
            C == D \ {NUL}
<1>1. NUL \notin C
  OBVIOUS
<1>2. ASSUME NEW s \in Text PROVE ToSet(s) \subseteq C \cup {NUL}
  OBVIOUS
<1>3. ASSUME NEW s \in Plain PROVE ToSet(s) \subseteq C
  <2>1. s \in Text /\ s \in Seq(ToSet(s)) /\ \A i \in 1..Len(s) : s[i] # NUL
    BY TextAssumption DEF Plain, Contains
  <2>2. DOMAIN s = 1..Len(s)
    BY <2>1, LenProperties
  <2>3. NUL \notin ToSet(s)
    BY <2>1, <2>2 DEF ToSet
  <2>. QED
    BY <1>2, <2>1, <2>3
<1>. HIDE DEF C, D
<1>4. Text \subseteq Seq(C \cup {NUL})
  BY <1>2, TextAssumption, SeqMonotonic
<1>5. Plain \subseteq Seq(C)
  BY <1>3, TextAssumption, SeqMonotonic DEF Plain
<1>. QED
  BY <1>1, <1>4, <1>5

(* A new message starts with an empty buffer, and interrupts all others.   *)
LEMMA StartHolds ==
  ASSUME HeldInv, NEW fn \in {"log", "logs"},
         NEW severity \in {InfoLog, ErrorLog}, Start(fn, severity)
  PROVE  HeldInv'
<1>. DEFINE others == [i \in DOMAIN messages |->
                         [messages[i] EXCEPT !.alone = FALSE]]
            own == [NoMessage EXCEPT !.fn = fn, !.severity = severity]
<1>1. /\ messages \in Seq(AnyMessage) /\ Len(messages) \in Nat
      /\ DOMAIN messages = 1..Len(messages)
      /\ \A i \in 1..Len(messages) : messages[i] \in AnyMessage
  BY DEF HeldInv, WholeMessages
<1>2. \A i \in 1..Len(messages) :
        /\ others[i] \in AnyMessage /\ ~others[i].alone
        /\ others[i].fn = "logs" => others[i].args \in Seq(Plain)
  BY <1>1 DEF AnyMessage, HeldInv, WholeMessages
<1>3. others \in [1..Len(messages) -> AnyMessage]
  BY <1>1, <1>2
<1>4. others \in Seq(AnyMessage) /\ Len(others) = Len(messages)
  BY <1>1, <1>3
<1>5. /\ own \in AnyMessage /\ own.args = <<>> /\ own.fn = fn
      /\ <<>> \in Seq(Plain)
  <2>1. /\ NoMessage \in [fn : {"none"}, severity : {InfoLog}, args : Seq(Text),
                          alone : BOOLEAN]
        /\ NoMessage.args = <<>>
    BY EmptySeq DEF NoMessage
  <2>. QED
    BY <2>1, EmptySeq DEF AnyMessage
<1>6. /\ messages' = Append(others, own) /\ buf' = <<>> /\ logged' = NotLogged
      /\ logSeverity' = logSeverity
  BY DEF Start
<1>. HIDE DEF others, own
<1>7. /\ messages' \in Seq(AnyMessage) /\ Len(messages') = Len(messages) + 1
      /\ messages'[Len(messages) + 1] = own
      /\ \A i \in 1..Len(messages) : messages'[i] = others[i]
  BY <1>4, <1>5, <1>6, Appended
<1>8. DOMAIN messages' = 1..Len(messages) + 1
  BY <1>7
<1>9. WholeMessages(messages')
  <2>. SUFFICES ASSUME NEW i \in 1..Len(messages) + 1
                PROVE  /\ messages'[i].alone => i = Len(messages')
                       /\ messages'[i].fn = "logs" => messages'[i].args \in Seq(Plain)
    BY <1>7, <1>8 DEF WholeMessages
  <2>1. CASE i = Len(messages) + 1
    BY <1>5, <1>7, <2>1
  <2>2. CASE i \in 1..Len(messages)
    BY <1>2, <1>7, <2>2
  <2>. QED
    BY <1>1, <2>1, <2>2
<1>10. Current' = own
  BY <1>7 DEF Current, Last
<1>11. BufferHolds(Current', buf')
  BY <1>5, <1>6, <1>10, TerminatedEmpty DEF BufferHolds
<1>. QED
  BY <1>6, <1>9, <1>11 DEF HeldInv, WrittenWhole, NotLogged

(* What is formatted of a message goes where the message is.               *)
LEMMA FormatHolds ==
  ASSUME HeldInv, NEW s \in Text, Format(s) PROVE HeldInv'
<1>1. /\ messages \in Seq(AnyMessage) /\ Len(messages) \in DOMAIN messages
      /\ messages[Len(messages)] \in AnyMessage /\ DOMAIN messages = 1..Len(messages)
      /\ Len(messages) \in Nat
  BY DEF Format, HeldInv, WholeMessages
<1>. DEFINE last == messages[Len(messages)]
            longer == [last EXCEPT !.args = Append(@, s)]
<1>2. /\ Current = last /\ last.args \in Seq(Text) /\ last.fn \in {"log", "logs"}
      /\ last.alone \in BOOLEAN
      /\ last.fn = "logs" => s \in Plain /\ last.args \in Seq(Plain)
  BY <1>1 DEF Format, Current, Last, AnyMessage, Plain, HeldInv, WholeMessages
<1>3. /\ longer \in AnyMessage /\ longer.args = Append(last.args, s)
      /\ longer.fn = last.fn /\ longer.alone = last.alone
  <2>1. Append(last.args, s) \in Seq(Text)
    BY <1>2, Appended
  <2>. QED
    BY <1>1, <2>1 DEF AnyMessage
<1>4. /\ messages' = [messages EXCEPT ![Len(messages)] = longer]
      /\ buf' = IF last.fn = "logs" THEN buf \o Append(s, NUL) ELSE buf
      /\ logged' = NotLogged /\ logSeverity' = logSeverity
  BY <1>2 DEF Format
<1>5. last.fn = "logs" => longer.args \in Seq(Plain)
  BY <1>2, <1>3, Appended
<1>6. last.fn = "logs" =>
        Terminated(longer.args) = Terminated(last.args) \o Append(s, NUL)
  <2>1. PICK C : Plain \subseteq Seq(C)
    BY Letters
  <2>. SUFFICES ASSUME last.fn = "logs"
                PROVE  Terminated(Append(last.args, s))
                         = Terminated(last.args) \o Append(s, NUL)
    BY <1>3
  <2>2. last.args \in Seq(Seq(C)) /\ s \in Seq(C)
    BY <1>2, <2>1, SeqMonotonic
  <2>. QED
    BY <2>2, TerminatedAppend
<1>7. BufferHolds(last, buf)
  BY <1>1, <1>2 DEF HeldInv
<1>. HIDE DEF longer
<1>8. BufferHolds(longer, buf')
  BY <1>2, <1>3, <1>4, <1>6, <1>7 DEF BufferHolds
<1>9. /\ messages' \in Seq(AnyMessage) /\ Len(messages') = Len(messages)
      /\ DOMAIN messages' = 1..Len(messages)
      /\ messages'[Len(messages)] = longer
      /\ \A i \in 1..Len(messages) : i # Len(messages) => messages'[i] = messages[i]
  <2>. DEFINE n == Len(messages)
  <2>1. n \in 1..n /\ longer \in AnyMessage
    BY <1>1, <1>3
  <2>2. /\ [messages EXCEPT ![n] = longer] \in Seq(AnyMessage)
        /\ Len([messages EXCEPT ![n] = longer]) = n
        /\ \A j \in 1..n : [messages EXCEPT ![n] = longer][j] =
                            IF j = n THEN longer ELSE messages[j]
    BY <1>1, <2>1, ExceptSeq
  <2>3. DOMAIN [messages EXCEPT ![n] = longer] = 1..n
    BY <1>1
  <2>. QED
    BY <1>4, <2>1, <2>2, <2>3
<1>10. Current' = longer
  BY <1>9 DEF Current, Last
<1>11. WholeMessages(messages')
  <2>. SUFFICES ASSUME NEW i \in 1..Len(messages)
                PROVE  /\ messages'[i].alone => i = Len(messages)
                       /\ messages'[i].fn = "logs" => messages'[i].args \in Seq(Plain)
    BY <1>9 DEF WholeMessages
  <2>1. CASE i = Len(messages)
    BY <1>3, <1>5, <1>9, <2>1
  <2>2. CASE i # Len(messages)
    BY <1>1, <1>9, <2>2 DEF HeldInv, WholeMessages
  <2>. QED
    BY <2>1, <2>2
<1>. QED
  BY <1>4, <1>8, <1>10, <1>11 DEF HeldInv, WrittenWhole, NotLogged

(* What a message was given is what is written of it.                      *)
LEMMA EndHolds ==
  ASSUME HeldInv, LogEnds \/ LogsEnds PROVE HeldInv'
<1>1. /\ messages \in Seq(AnyMessage) /\ Len(messages) \in Nat \ {0}
      /\ DOMAIN messages = 1..Len(messages)
      /\ Current = messages[Len(messages)] /\ Current \in AnyMessage
      /\ BufferHolds(Current, buf)
      /\ Current.fn = "logs" => Current.args \in Seq(Plain)
  BY DEF LogEnds, LogsEnds, HeldInv, WholeMessages, Current, Last
<1>2. /\ messages' = SubSeq(messages, 1, Len(messages) - 1)
      /\ logged'.of = Current /\ logSeverity' = logSeverity
  BY DEF LogEnds, LogsEnds, Front
<1>3. /\ messages' \in Seq(AnyMessage) /\ Len(messages') = Len(messages) - 1
      /\ DOMAIN messages' = 1..Len(messages) - 1
      /\ \A i \in 1..Len(messages) - 1 : messages'[i] = messages[i]
  BY <1>1, <1>2
<1>4. \A i \in 1..Len(messages) - 1 :
        /\ ~messages'[i].alone
        /\ messages'[i].fn = "logs" => messages'[i].args \in Seq(Plain)
  BY <1>1, <1>3 DEF HeldInv, WholeMessages
<1>5. WholeMessages(messages')
  BY <1>3, <1>4 DEF WholeMessages
<1>6. messages' # <<>> => ~Current'.alone
  BY <1>1, <1>3, <1>4 DEF Current, Last
<1>7. PICK C : /\ NUL \notin C /\ Plain \subseteq Seq(C)
               /\ Text \subseteq Seq(C \cup {NUL})
  BY Letters
<1>8. CASE LogEnds
  <2>1. logged'.text = Line(buf \o Concat(Current.args)) /\ Current.fn = "log"
    BY <1>8 DEF LogEnds
  <2>2. Current.args \in Seq(Seq(C \cup {NUL}))
    BY <1>1, <1>7, SeqMonotonic DEF AnyMessage
  <2>3. <<>> \o Concat(Current.args) = Concat(Current.args)
    BY <2>2, ConcatType, ConcatEmptySeq
  <2>4. Current.alone => buf = <<>>
    BY <1>1, <2>1 DEF BufferHolds
  <2>5. WrittenWhole'
    BY <1>2, <2>1, <2>3, <2>4 DEF WrittenWhole
  <2>. QED
    BY <1>2, <1>5, <1>6, <2>5 DEF HeldInv, BufferHolds
<1>9. CASE LogsEnds
  <2>1. logged'.text = fromNULTerminated(buf) /\ Current.fn = "logs"
    BY <1>9 DEF LogsEnds
  <2>2. Current.args \in Seq(Seq(C))
    BY <1>1, <1>7, <2>1, SeqMonotonic
  <2>3. fromNULTerminated(Terminated(Current.args)) = NonEmpty(Current.args)
    BY <1>7, <2>2, ReadTerminated DEF fromNULTerminated
  <2>4. Current.alone => buf = Terminated(Current.args)
    BY <1>1, <2>1 DEF BufferHolds
  <2>5. WrittenWhole'
    BY <1>2, <2>1, <2>3, <2>4 DEF WrittenWhole
  <2>. QED
    BY <1>2, <1>5, <1>6, <2>5 DEF HeldInv, BufferHolds
<1>. QED
  BY <1>8, <1>9

LEMMA HeldInit == KlogInit => HeldInv
<1>. SUFFICES ASSUME KlogInit PROVE HeldInv
  OBVIOUS
<1>1. messages \in Seq(AnyMessage) /\ DOMAIN messages = {}
  BY EmptySeq DEF KlogInit
<1>. QED
  BY <1>1 DEF KlogInit, HeldInv, WholeMessages, WrittenWhole, NotLogged

LEMMA HeldNext == HeldInv /\ [KlogNext]_klogVars => HeldInv'
<1>. SUFFICES ASSUME HeldInv, [KlogNext]_klogVars PROVE HeldInv'
  OBVIOUS
<1>1. CASE \E fn \in {"log", "logs"}, severity \in {InfoLog, ErrorLog} :
             Start(fn, severity)
  BY <1>1, StartHolds
<1>2. CASE \E s \in Text : Format(s)
  BY <1>2, FormatHolds
<1>3. CASE KlogTraps \/ LogReturns
  <2>1. messages' = <<>> /\ logged' = NotLogged /\ logSeverity' = logSeverity
    BY <1>3 DEF KlogTraps, LogReturns
  <2>2. messages' \in Seq(AnyMessage) /\ DOMAIN messages' = {}
    BY <2>1, EmptySeq
  <2>3. logged'.written = FALSE
    BY <2>1 DEF NotLogged
  <2>. QED
    BY <2>1, <2>2, <2>3 DEF HeldInv, WholeMessages, WrittenWhole
<1>4. CASE LogEnds \/ LogsEnds
  BY <1>4, EndHolds
<1>5. CASE UNCHANGED klogVars
  BY <1>5 DEF klogVars, HeldInv, WholeMessages, BufferHolds, WrittenWhole, Current
<1>. QED
  BY <1>1, <1>2, <1>3, <1>4, <1>5 DEF KlogNext

(* What the host writes of a message is what the plugin gave it, whatever  *)
(* was logged or cut short before, for all texts and depths.               *)
THEOREM MessagesWrittenWhole == KlogSpec => []WrittenWhole
<1>1. HeldInv => WrittenWhole
  BY DEF HeldInv
<1>. QED
  BY <1>1, HeldInit, HeldNext, PTL DEF KlogSpec

(* The messages in progress: no more, and none longer, than the bounds.    *)
KlogTypes ==
  /\ logSeverity \in LogSeverity
  /\ messages \in Seq(Message) /\ Len(messages) <= MaxDepth

LEMMA BoundedTexts ==
  ASSUME NEW args
  PROVE  args \in BoundedSeq(Text, MaxArgs) <=> args \in Seq(Text) /\ Len(args) <= MaxArgs
<1>1. MaxArgs \in Nat
  BY BoundsAssumption
<1>2. ASSUME args \in BoundedSeq(Text, MaxArgs)
      PROVE  args \in Seq(Text) /\ Len(args) <= MaxArgs
  <2>1. PICK m \in 0..MaxArgs : args \in [1..m -> Text]
    BY <1>2 DEF BoundedSeq, SeqOf
  <2>2. m \in Nat /\ m <= MaxArgs
    BY <1>1
  <2>. QED
    BY <2>1, <2>2
<1>3. ASSUME args \in Seq(Text), Len(args) <= MaxArgs
      PROVE  args \in BoundedSeq(Text, MaxArgs)
  <2>1. Len(args) \in 0..MaxArgs /\ args \in [1..Len(args) -> Text]
    BY <1>1, <1>3
  <2>. QED
    BY <2>1 DEF BoundedSeq, SeqOf
<1>. QED
  BY <1>2, <1>3

LEMMA StartTyped ==
  ASSUME KlogTypes, NEW fn \in {"log", "logs"},
         NEW severity \in {InfoLog, ErrorLog}, Start(fn, severity)
  PROVE  KlogTypes'
<1>. DEFINE others == [i \in DOMAIN messages |->
                         [messages[i] EXCEPT !.alone = FALSE]]
            own == [NoMessage EXCEPT !.fn = fn, !.severity = severity]
<1>1. /\ messages \in Seq(Message) /\ Len(messages) \in Nat
      /\ DOMAIN messages = 1..Len(messages)
      /\ \A i \in 1..Len(messages) : messages[i] \in Message
  BY DEF KlogTypes
<1>2. \A i \in 1..Len(messages) : others[i] \in Message
  BY <1>1 DEF Message
<1>3. others \in [1..Len(messages) -> Message]
  BY <1>1, <1>2
<1>4. others \in Seq(Message) /\ Len(others) = Len(messages)
  BY <1>1, <1>3
<1>5. own \in Message
  <2>1. <<>> \in BoundedSeq(Text, MaxArgs)
    <3>1. <<>> \in Seq(Text) /\ Len(<<>>) = 0 /\ 0 <= MaxArgs
      BY EmptySeq, BoundsAssumption
    <3>. QED
      BY <3>1, BoundedTexts
  <2>. QED
    BY <2>1 DEF NoMessage, Message
<1>6. messages' = Append(others, own) /\ Len(messages) < MaxDepth
      /\ logSeverity' = logSeverity
  BY DEF Start
<1>. HIDE DEF others, own
<1>7. messages' \in Seq(Message) /\ Len(messages') = Len(messages) + 1
  BY <1>4, <1>5, <1>6
<1>. QED
  BY <1>1, <1>6, <1>7, BoundsAssumption DEF KlogTypes

LEMMA FormatTyped ==
  ASSUME KlogTypes, NEW s \in Text, Format(s) PROVE KlogTypes'
<1>1. /\ messages \in Seq(Message) /\ Len(messages) \in DOMAIN messages
      /\ messages[Len(messages)] \in Message /\ Current = messages[Len(messages)]
  BY DEF Format, KlogTypes, Current, Last
<1>. DEFINE last == messages[Len(messages)]
            longer == [last EXCEPT !.args = Append(@, s)]
<1>2. last.args \in BoundedSeq(Text, MaxArgs) /\ Len(last.args) < MaxArgs
  BY <1>1 DEF Message, Format
<1>3. Append(last.args, s) \in BoundedSeq(Text, MaxArgs)
  <2>1. last.args \in Seq(Text) /\ Len(last.args) \in Nat
    BY <1>2, BoundedTexts
  <2>2. /\ Append(last.args, s) \in Seq(Text)
        /\ Len(Append(last.args, s)) = Len(last.args) + 1
    BY <2>1
  <2>3. Len(Append(last.args, s)) <= MaxArgs
    BY <1>2, <2>1, <2>2, BoundsAssumption
  <2>. QED
    BY <2>2, <2>3, BoundedTexts
<1>4. longer \in Message
  BY <1>1, <1>3 DEF Message
<1>5. messages' = [messages EXCEPT ![Len(messages)] = longer] /\ logSeverity' = logSeverity
  BY DEF Format
<1>. HIDE DEF longer
<1>6. messages' \in Seq(Message) /\ Len(messages') = Len(messages)
  BY <1>1, <1>4, <1>5
<1>. QED
  BY <1>5, <1>6 DEF KlogTypes

LEMMA WithoutLast ==
  ASSUME NEW S, NEW s \in Seq(S), s # <<>>
  PROVE  /\ SubSeq(s, 1, Len(s) - 1) \in Seq(S)
         /\ Len(SubSeq(s, 1, Len(s) - 1)) = Len(s) - 1
<1>. DEFINE n == Len(s) - 1
            f == [i \in 1..n |-> s[i]]
<1>1. n \in Nat /\ \A i \in 1..n : s[i] \in S
  OBVIOUS
<1>2. SubSeq(s, 1, n) = f
  BY <1>1
<1>3. f \in [1..n -> S]
  BY <1>1
<1>. HIDE DEF n, f
<1>4. f \in Seq(S) /\ Len(f) = n
  BY <1>1, <1>3
<1>. QED
  BY <1>2, <1>4 DEF n

LEMMA KlogTypesNext == KlogTypes /\ [KlogNext]_klogVars => KlogTypes'
<1>. SUFFICES ASSUME KlogTypes, [KlogNext]_klogVars PROVE KlogTypes'
  OBVIOUS
<1>1. CASE \E fn \in {"log", "logs"}, severity \in {InfoLog, ErrorLog} :
             Start(fn, severity)
  BY <1>1, StartTyped
<1>2. CASE \E s \in Text : Format(s)
  BY <1>2, FormatTyped
<1>3. CASE KlogTraps \/ LogReturns
  <2>1. messages' = <<>> /\ logSeverity' = logSeverity
    BY <1>3 DEF KlogTraps, LogReturns
  <2>2. messages' \in Seq(Message) /\ Len(messages') = 0
    BY <2>1, EmptySeq
  <2>. QED
    BY <2>1, <2>2, BoundsAssumption DEF KlogTypes
<1>4. CASE LogEnds \/ LogsEnds
  <2>1. /\ messages' = SubSeq(messages, 1, Len(messages) - 1)
        /\ messages # <<>> /\ logSeverity' = logSeverity
    BY <1>4 DEF LogEnds, LogsEnds, Front
  <2>2. messages \in Seq(Message) /\ Len(messages) \in Nat \ {0}
    BY <2>1 DEF KlogTypes
  <2>3. messages' \in Seq(Message) /\ Len(messages') = Len(messages) - 1
    BY <2>1, <2>2, WithoutLast
  <2>. QED
    BY <2>1, <2>2, <2>3, BoundsAssumption DEF KlogTypes
<1>5. CASE UNCHANGED klogVars
  BY <1>5 DEF klogVars, KlogTypes
<1>. QED
  BY <1>1, <1>2, <1>3, <1>4, <1>5 DEF KlogNext

LEMMA KlogTypesInvariant == KlogSpec => []KlogTypes
<1>1. KlogInit => KlogTypes
  BY EmptySeq, BoundsAssumption DEF KlogInit, KlogTypes
<1>. QED
  BY <1>1, KlogTypesNext, PTL DEF KlogSpec

-----------------------------------------------------------------------------
(* The numbers: how two words are packed into one result and taken out.    *)
LEMMA Divided ==
  ASSUME NEW h \in Nat \ {0}, NEW q \in Int, NEW r \in 0..h-1
  PROVE  (q * h + r) % h = r /\ (q * h + r) \div h = q
<1>. DEFINE n == q * h + r
            d == q - (n \div h)
<1>1. n \in Int
  OBVIOUS
<1>2. n = h * (n \div h) + (n % h) /\ n % h \in 0..h-1 /\ n \div h \in Int
  BY <1>1
<1>3. d \in Int /\ h * d = (n % h) - r
  BY <1>2
<1>4. (n % h) - r < h /\ (n % h) - r > -h
  BY <1>2
<1>5. d < 1
  <2>1. d >= 1 => h * d >= h
    BY <1>3
  <2>. QED
    BY <2>1, <1>3, <1>4
<1>6. d > -1
  <2>1. d <= -1 => h * d <= -h
    BY <1>3
  <2>. QED
    BY <2>1, <1>3, <1>4
<1>. QED
  BY <1>2, <1>3, <1>5, <1>6

(* The powers of Byte up to the values of half a result.                   *)
LEMMA PowersLoop ==
  /\ Powers[0] = 1
  /\ \A i \in 1..WordBytes : Powers[i] = Byte * Powers[i - 1]
<1>. DEFINE n == WordBytes
            S == Nat
            s0 == 1
            Step(i, b) == Byte * b
            loop == CHOOSE f : f = [i \in 0..n |-> IF i = 0 THEN s0 ELSE Step(i, f[i - 1])]
            step == [p \in (1..n) \X S |-> Step(p[1], p[2])]
<1>1. n \in Nat /\ s0 \in S /\ \A i \in 1..n, b \in S : Step(i, b) \in S
  BY WordAssumption
<1>2. Powers = loop
  BY DEF Powers
<1>. HIDE DEF n, S, s0, Step
<1>3. step \in Steps(n, S) /\ \A i \in 1..n, b \in S : step[<<i, b>>] = Step(i, b)
  BY <1>1 DEF Steps
<1>. HIDE DEF step
<1>4. PICK f : IsLoop(f, s0, n, step, S)
  BY <1>1, <1>3, LoopExists
<1>5. f \in [0..n -> S] /\ f[0] = s0 /\ \A i \in 1..n : f[i] = step[<<i, f[i - 1]>>]
  BY <1>4 DEF IsLoop
<1>6. ASSUME NEW i \in 1..n PROVE f[i] = Step(i, f[i - 1])
  <2>1. i - 1 \in 0..n
    BY <1>1
  <2>2. f[i - 1] \in S
    BY <1>5, <2>1
  <2>. QED
    BY <1>3, <1>5, <2>2
<1>7. f = [i \in 0..n |-> IF i = 0 THEN s0 ELSE Step(i, f[i - 1])]
  BY <1>1, <1>5, <1>6
<1>8. loop = [i \in 0..n |-> IF i = 0 THEN s0 ELSE Step(i, loop[i - 1])]
  BY <1>7, Zenon
<1>. HIDE DEF loop
<1>9. loop[0] = s0 /\ \A i \in 1..n : loop[i] = Step(i, loop[i - 1])
  <2>. DEFINE body == [i \in 0..n |-> IF i = 0 THEN s0 ELSE Step(i, loop[i - 1])]
  <2>1. n \in Nat
    BY <1>1
  <2>2. 0 \in 0..n /\ \A i \in 1..n : i \in 0..n /\ i # 0
    BY <2>1
  <2>3. body[0] = s0
    BY <2>2
  <2>4. \A i \in 1..n : body[i] = Step(i, loop[i - 1])
    BY <2>2
  <2>5. loop = body
    BY <1>8
  <2>. HIDE DEF body
  <2>. QED
    BY <2>3, <2>4, <2>5, Zenon
<1>10. Powers[0] = s0 /\ \A i \in 1..n : Powers[i] = Step(i, Powers[i - 1])
  BY <1>2, <1>9, Zenon
<1>. QED
  BY <1>10 DEF n, s0, Step

LEMMA PowersNumbers == \A i \in 0..WordBytes : Powers[i] \in Nat \ {0}
<1>. DEFINE T == {i \in 0..WordBytes : Powers[i] \in Nat \ {0}}
<1>1. 0 \in T
  BY PowersLoop, WordAssumption
<1>2. ASSUME NEW i \in 1..WordBytes, i - 1 \in T PROVE i \in T
  <2>1. Powers[i] = Byte * Powers[i - 1] /\ Powers[i - 1] \in Nat \ {0}
    BY <1>2, PowersLoop
  <2>2. Powers[i] \in Nat /\ Powers[i] # 0
    BY <2>1, WordAssumption
  <2>. QED
    BY <2>2
<1>. HIDE DEF T
<1>3. \A i \in 0..WordBytes : i \in T
  BY <1>1, <1>2, WordAssumption, UpTo
<1>. QED
  BY <1>3 DEF T

LEMMA HalfNumber ==
  /\ Half \in Nat \ {0} /\ Half \div 2 \in Nat /\ 2 * (Half \div 2) = Half
  /\ Half \div 2 >= 2
<1>1. /\ WordBytes \in 1..WordBytes /\ WordBytes - 1 \in 1..WordBytes
      /\ WordBytes - 2 \in 0..WordBytes /\ (WordBytes - 1) - 1 = WordBytes - 2
  BY WordAssumption
<1>2. Half = Byte * Powers[WordBytes - 1] /\ Powers[WordBytes - 1] = Byte * Powers[WordBytes - 2]
  BY <1>1, PowersLoop DEF Half
<1>3. PICK k \in Nat : Byte = 2 * k
  <2>1. Byte = 2 * (Byte \div 2) + (Byte % 2) /\ Byte \div 2 \in Nat
    BY WordAssumption
  <2>. QED
    BY <2>1, WordAssumption
<1>. DEFINE p == Powers[WordBytes - 1]
            q == Powers[WordBytes - 2]
<1>4. p \in Nat \ {0} /\ q \in Nat \ {0} /\ k \in Nat \ {0} /\ p = (2 * k) * q /\ Half = (2 * k) * p
  BY <1>1, <1>2, <1>3, PowersNumbers, WordAssumption
<1>. HIDE DEF p, q
<1>5. k * p \in Nat /\ Half = (k * p) * 2 + 0
  BY <1>4
<1>6. Half \div 2 = k * p
  <2>1. 2 \in Nat \ {0} /\ 0 \in 0..2 - 1 /\ k * p \in Int
    BY <1>5
  <2>2. ((k * p) * 2 + 0) \div 2 = k * p
    BY <2>1, Divided
  <2>. QED
    BY <1>5, <2>2
<1>7. k * p >= 2
  <2>1. p >= 2
    BY <1>4
  <2>2. k * p >= p
    BY <1>4
  <2>. QED
    BY <1>4, <2>1, <2>2
<1>. QED
  BY <1>4, <1>5, <1>6, <1>7

(* A number that fits is itself, and one below 0 is counted from the top.  *)
LEMMA Wrapped ==
  ASSUME NEW h \in Nat \ {0}, NEW i \in -h..h - 1
  PROVE  i % h = IF i >= 0 THEN i ELSE i + h
<1>1. CASE i >= 0
  <2>1. (0 * h + i) % h = i
    BY <1>1, Divided
  <2>. QED
    BY <1>1, <2>1
<1>2. CASE i < 0
  <2>1. i + h \in 0..h - 1 /\ -1 \in Int
    BY <1>2
  <2>2. (-1 * h + (i + h)) % h = i + h
    BY <2>1, Divided
  <2>3. -1 * h + (i + h) = i
    OBVIOUS
  <2>. QED
    BY <1>2, <2>2, <2>3
<1>. QED
  BY <1>1, <1>2

LEMMA SignedWord ==
  ASSUME NEW i \in Int32
  PROVE  uint32(i) \in Uint32 /\ int32(uint32(i)) = i
<1>1. /\ Half \in Nat \ {0} /\ Half \div 2 \in Nat /\ 2 * (Half \div 2) = Half
      /\ i \in -(Half \div 2)..(Half \div 2 - 1)
  BY HalfNumber DEF Int32
<1>2. i % Half = IF i >= 0 THEN i ELSE i + Half
  <2>1. i \in -Half..Half - 1
    BY <1>1
  <2>. QED
    BY <1>1, <2>1, Wrapped
<1>3. i % Half \in 0..Half - 1
  BY <1>1, <1>2
<1>4. (i % Half) % Half = i % Half
  <2>1. i % Half \in -Half..Half - 1 /\ i % Half >= 0
    BY <1>1, <1>3
  <2>. QED
    BY <1>1, <2>1, Wrapped
<1>. QED
  BY <1>1, <1>2, <1>3, <1>4 DEF uint32, int32, Uint32

LEMMA Packed ==
  ASSUME NEW high \in Uint32, NEW low \in Uint32
  PROVE  /\ uint64(high * Half + low) = high * Half + low
         /\ uint32(high * Half + low) = low
         /\ int32(high * Half + low) = int32(low)
         /\ (high * Half + low) \div Half = high
<1>1. Half \in Nat \ {0} /\ high \in 0..Half - 1 /\ low \in 0..Half - 1
  BY HalfNumber DEF Uint32
<1>2. /\ (high * Half + low) % Half = low
      /\ (high * Half + low) \div Half = high
  BY <1>1, Divided
<1>3. low % Half = low
  <2>1. low \in -Half..Half - 1 /\ low >= 0
    BY <1>1
  <2>. QED
    BY <1>1, <2>1, Wrapped
<1>4. high * Half + low \in 0..Half * Half - 1
  <2>1. high * Half >= 0 /\ high * Half <= (Half - 1) * Half
    BY <1>1
  <2>2. (Half - 1) * Half = Half * Half - Half
    BY <1>1
  <2>. QED
    BY <1>1, <2>1, <2>2
<1>5. Half * Half \in Nat \ {0}
  BY <1>1
<1>6. (high * Half + low) % (Half * Half) = high * Half + low
  BY <1>4, <1>5, Wrapped
<1>. QED
  BY <1>2, <1>3, <1>6 DEF uint64, uint32, int32

LEMMA ShiftedHalf ==
  ASSUME NEW i \in Int, i \in -Half..Half - 1
  PROVE  uint32(i) \in Uint32 /\ Shift32(i) = uint32(i) * Half
<1>1. Half \in Nat \ {0} /\ Half * Half \in Nat \ {0} /\ Half <= Half * Half
  BY HalfNumber
<1>2. i % Half = IF i >= 0 THEN i ELSE i + Half
  BY <1>1, Wrapped
<1>3. uint32(i) \in Uint32
  BY <1>1, <1>2 DEF uint32, Uint32
<1>4. uint64(i) = IF i >= 0 THEN i ELSE i + Half * Half
  <2>1. i \in -(Half * Half)..Half * Half - 1
    BY <1>1
  <2>. QED
    BY <1>1, <2>1, Wrapped DEF uint64
<1>5. uint32(i) * Half \in 0..Half * Half - 1
  <2>1. 0 \in Uint32
    BY <1>1 DEF Uint32
  <2>2. uint32(i) * Half >= 0 /\ uint32(i) * Half <= (Half - 1) * Half
    BY <1>1, <1>3 DEF Uint32
  <2>3. (Half - 1) * Half = Half * Half - Half
    BY <1>1
  <2>. QED
    BY <1>1, <1>3, <2>2, <2>3 DEF Uint32
<1>6. uint64(uint64(i) * Half) = uint32(i) * Half
  <2>1. CASE i >= 0
    <3>1. uint64(i) * Half = uint32(i) * Half
      BY <1>2, <1>4, <2>1 DEF uint32
    <3>2. /\ uint64(i) * Half >= 0
          /\ uint64(i) * Half \in -(Half * Half)..Half * Half - 1
      BY <1>1, <1>5, <3>1
    <3>3. (uint64(i) * Half) % (Half * Half) = uint64(i) * Half
      BY <1>1, <3>2, Wrapped
    <3>. QED
      BY <3>1, <3>3 DEF uint64
  <2>2. CASE i < 0
    <3>1. uint64(i) * Half = (Half - 1) * (Half * Half) + uint32(i) * Half
      <4>1. (i + Half * Half) * Half
              = (Half - 1) * (Half * Half) + (i + Half) * Half
        BY <1>1
      <4>. QED
        BY <1>2, <1>4, <2>2, <4>1 DEF uint32
    <3>2. Half - 1 \in Int
      BY <1>1
    <3>3. ((Half - 1) * (Half * Half) + uint32(i) * Half) % (Half * Half)
            = uint32(i) * Half
      BY <1>1, <1>5, <3>2, Divided
    <3>. QED
      BY <3>1, <3>3 DEF uint64
  <2>. QED
    BY <2>1, <2>2
<1>. QED
  BY <1>3, <1>6 DEF Shift32

(* What the methods may return, of the two numbers of a result.            *)
LEMMA NumbersOf ==
  ASSUME NEW op, NEW r \in Results(op)
  PROVE  /\ r.code \in Int32
         /\ op \in {"score", "postfilter"} => r.number \in Int32
         /\ op = "permit" => r.number \in Uint32
         /\ op \notin {"score", "postfilter", "permit"} => r.number = 0
         /\ op \in {"enqueue", "unreserve", "postbind"} => r.code = Success
<1>1. 0 \in Int32
  BY HalfNumber DEF Int32
<1>2. ASSUME NEW numbers, NEW n \in StatusWithNumber(numbers)
      PROVE  /\ n.code \in Int32 /\ n.number \in numbers
             /\ \A x : /\ [n EXCEPT !.nodeNames = x].code = n.code
                      /\ [n EXCEPT !.nodeNames = x].number = n.number
                      /\ [n EXCEPT !.nominated = x].code = n.code
                      /\ [n EXCEPT !.nominated = x].number = n.number
  BY DEF StatusWithNumber, Nothing
<1>3. CASE op \in {"enqueue", "unreserve", "postbind"}
  <2>1. \/ \E events \in BoundedSeq(Event, MaxEvents) :
             r = [Nothing EXCEPT !.clusterEvents = events]
        \/ r = Nothing
    BY <1>3 DEF Results
  <2>2. /\ Nothing.code = Success /\ Nothing.number = 0
        /\ \A events : /\ [Nothing EXCEPT !.clusterEvents = events].code = Success
                       /\ [Nothing EXCEPT !.clusterEvents = events].number = 0
    BY DEF Nothing
  <2>. QED
    BY <1>1, <1>3, <2>1, <2>2 DEF Success
<1>4. CASE op = "prefilter"
  <2>1. PICK n \in StatusWithNumber({0}), names \in NodeNames :
          r = [n EXCEPT !.nodeNames = names]
    BY <1>4 DEF Results
  <2>. QED
    BY <1>2, <1>4, <2>1
<1>5. CASE op \in {"score", "permit"}
  BY <1>2, <1>5 DEF Results
<1>6. CASE op = "postfilter"
  <2>1. PICK n \in StatusWithNumber(Int32), name \in {"", "node"} :
          r = [n EXCEPT !.nominated = name]
    BY <1>6 DEF Results
  <2>. QED
    BY <1>2, <1>6, <2>1
<1>7. CASE op \notin {"enqueue", "unreserve", "postbind", "prefilter", "score",
                     "permit", "postfilter"}
  <2>1. Results(op) = StatusWithNumber({0})
    BY <1>7 DEF Results
  <2>. QED
    BY <1>2, <1>7, <2>1
<1>. QED
  BY <1>3, <1>4, <1>5, <1>6, <1>7

(* The handler reads from the result the numbers that were packed into it. *)
LEMMA NumbersUnpacked ==
  ASSUME NEW op, NEW r \in Results(op), NEW set
  PROVE  /\ Handled(op, Returned(op, r), set).code = r.code
         /\ Handled(op, Returned(op, r), set).number = r.number
<1>. DEFINE result == Returned(op, r)
<1>1. /\ StatusToCode(r) \in Uint32 /\ int32(StatusToCode(r)) = r.code
      /\ StatusToCode(r) = uint32(r.code)
  BY NumbersOf, SignedWord DEF StatusToCode
<1>2. CASE op \in {"score", "postfilter"}
  <2>1. /\ uint32(r.number) \in Uint32 /\ int32(uint32(r.number)) = r.number
        /\ r.number \in Int32
    BY <1>2, NumbersOf, SignedWord
  <2>2. r.number \in Int /\ r.number \in -Half..Half - 1
    BY <2>1, HalfNumber DEF Int32
  <2>3. Shift32(r.number) = uint32(r.number) * Half
    BY <2>2, ShiftedHalf
  <2>4. result = uint64(uint32(r.number) * Half + StatusToCode(r))
    BY <1>2, <2>3 DEF Returned
  <2>5. int32(result) = r.code /\ result \div Half = uint32(r.number)
    BY <1>1, <2>1, <2>4, Packed
  <2>. QED
    BY <1>2, <2>1, <2>5 DEF Handled
<1>3. CASE op = "permit"
  <2>1. r.number \in Uint32
    BY <1>3, NumbersOf
  <2>2. /\ StatusToCode(r) \in Int /\ StatusToCode(r) \in -Half..Half - 1
        /\ StatusToCode(r) >= 0
    BY <1>1, HalfNumber DEF Uint32
  <2>3. uint32(StatusToCode(r)) = StatusToCode(r)
    BY <2>2, HalfNumber, Wrapped DEF uint32
  <2>4. Shift32(StatusToCode(r)) = StatusToCode(r) * Half
    BY <2>2, <2>3, ShiftedHalf
  <2>5. result = uint64(StatusToCode(r) * Half + r.number)
    BY <1>3, <2>4 DEF Returned
  <2>6. uint32(result) = r.number /\ result \div Half = StatusToCode(r)
    BY <1>1, <2>1, <2>5, Packed
  <2>. QED
    BY <1>1, <1>3, <2>6 DEF Handled
<1>4. CASE op \notin {"score", "postfilter", "permit"}
  <2>1. result = StatusToCode(r) /\ r.number = 0
    BY <1>4, NumbersOf DEF Returned
  <2>. QED
    BY <1>1, <1>4, <2>1, NumbersOf DEF Handled
<1>. QED
  BY <1>2, <1>3, <1>4

(* The codec of events: a word byte by byte, and back.                     *)
LEMMA ShiftedLoop ==
  ASSUME NEW word \in Nat
  PROVE  /\ Shifted(word)[0] = word
         /\ \A i \in 1..WordBytes : Shifted(word)[i] = Shifted(word)[i - 1] \div Byte
<1>. DEFINE n == WordBytes
            S == Nat
            s0 == word
            Step(i, b) == b \div Byte
            loop == CHOOSE f : f = [i \in 0..n |-> IF i = 0 THEN s0 ELSE Step(i, f[i - 1])]
            step == [p \in (1..n) \X S |-> Step(p[1], p[2])]
<1>1. n \in Nat /\ s0 \in S /\ \A i \in 1..n, b \in S : Step(i, b) \in S
  BY WordAssumption
<1>2. Shifted(word) = loop
  BY DEF Shifted
<1>. HIDE DEF n, S, s0, Step
<1>3. step \in Steps(n, S) /\ \A i \in 1..n, b \in S : step[<<i, b>>] = Step(i, b)
  BY <1>1 DEF Steps
<1>. HIDE DEF step
<1>4. PICK f : IsLoop(f, s0, n, step, S)
  BY <1>1, <1>3, LoopExists
<1>5. f \in [0..n -> S] /\ f[0] = s0 /\ \A i \in 1..n : f[i] = step[<<i, f[i - 1]>>]
  BY <1>4 DEF IsLoop
<1>6. ASSUME NEW i \in 1..n PROVE f[i] = Step(i, f[i - 1])
  <2>1. i - 1 \in 0..n
    BY <1>1
  <2>2. f[i - 1] \in S
    BY <1>5, <2>1
  <2>. QED
    BY <1>3, <1>5, <2>2
<1>7. f = [i \in 0..n |-> IF i = 0 THEN s0 ELSE Step(i, f[i - 1])]
  BY <1>1, <1>5, <1>6
<1>8. loop = [i \in 0..n |-> IF i = 0 THEN s0 ELSE Step(i, loop[i - 1])]
  BY <1>7, Zenon
<1>. HIDE DEF loop
<1>9. loop[0] = s0 /\ \A i \in 1..n : loop[i] = Step(i, loop[i - 1])
  <2>. DEFINE body == [i \in 0..n |-> IF i = 0 THEN s0 ELSE Step(i, loop[i - 1])]
  <2>1. n \in Nat
    BY <1>1
  <2>2. 0 \in 0..n /\ \A i \in 1..n : i \in 0..n /\ i # 0
    BY <2>1
  <2>3. body[0] = s0
    BY <2>2
  <2>4. \A i \in 1..n : body[i] = Step(i, loop[i - 1])
    BY <2>2
  <2>5. loop = body
    BY <1>8
  <2>. HIDE DEF body
  <2>. QED
    BY <2>3, <2>4, <2>5, Zenon
<1>. QED
  BY <1>2, <1>9 DEF n, s0, Step

LEMMA DecodedLoop ==
  ASSUME NEW b \in [1..WordBytes -> Nat]
  PROVE  \E f : /\ f[0] = 0
                /\ \A i \in 1..WordBytes : f[i] = f[i - 1] * Byte + b[WordBytes - i + 1]
                /\ Decoded(b) = f[WordBytes]
<1>. DEFINE n == WordBytes
            S == Nat
            s0 == 0
            Step(i, x) == x * Byte + b[WordBytes - i + 1]
            loop == CHOOSE f : f = [i \in 0..n |-> IF i = 0 THEN s0 ELSE Step(i, f[i - 1])]
            step == [p \in (1..n) \X S |-> Step(p[1], p[2])]
<1>1. n \in Nat /\ s0 \in S /\ \A i \in 1..n, x \in S : Step(i, x) \in S
  BY WordAssumption
<1>2. Decoded(b) = loop[n]
  BY DEF Decoded
<1>. HIDE DEF n, S, s0, Step
<1>3. step \in Steps(n, S) /\ \A i \in 1..n, x \in S : step[<<i, x>>] = Step(i, x)
  BY <1>1 DEF Steps
<1>. HIDE DEF step
<1>4. PICK f : IsLoop(f, s0, n, step, S)
  BY <1>1, <1>3, LoopExists
<1>5. f \in [0..n -> S] /\ f[0] = s0 /\ \A i \in 1..n : f[i] = step[<<i, f[i - 1]>>]
  BY <1>4 DEF IsLoop
<1>6. ASSUME NEW i \in 1..n PROVE f[i] = Step(i, f[i - 1])
  <2>1. i - 1 \in 0..n
    BY <1>1
  <2>2. f[i - 1] \in S
    BY <1>5, <2>1
  <2>. QED
    BY <1>3, <1>5, <2>2
<1>7. f = [i \in 0..n |-> IF i = 0 THEN s0 ELSE Step(i, f[i - 1])]
  BY <1>1, <1>5, <1>6
<1>8. loop = [i \in 0..n |-> IF i = 0 THEN s0 ELSE Step(i, loop[i - 1])]
  BY <1>7, Zenon
<1>. HIDE DEF loop
<1>9. loop[0] = s0 /\ \A i \in 1..n : loop[i] = Step(i, loop[i - 1])
  <2>. DEFINE body == [i \in 0..n |-> IF i = 0 THEN s0 ELSE Step(i, loop[i - 1])]
  <2>1. n \in Nat
    BY <1>1
  <2>2. 0 \in 0..n /\ \A i \in 1..n : i \in 0..n /\ i # 0
    BY <2>1
  <2>3. body[0] = s0
    BY <2>2
  <2>4. \A i \in 1..n : body[i] = Step(i, loop[i - 1])
    BY <2>2
  <2>5. loop = body
    BY <1>8
  <2>. HIDE DEF body
  <2>. QED
    BY <2>3, <2>4, <2>5, Zenon
<1>. QED
  BY <1>2, <1>9 DEF n, s0, Step

(* Each byte shifted out leaves a word of one byte less.                   *)
LEMMA ShiftedBelow ==
  ASSUME NEW word \in Uint32
  PROVE  \A i \in 0..WordBytes : /\ Shifted(word)[i] \in Nat
                                 /\ Shifted(word)[i] < Powers[WordBytes - i]
<1>. DEFINE at == Shifted(word)
            T == {i \in 0..WordBytes : at[i] \in Nat /\ at[i] < Powers[WordBytes - i]}
<1>1. word \in Nat /\ word < Half
  BY HalfNumber DEF Uint32
<1>2. 0 \in T
  <2>1. at[0] = word /\ WordBytes - 0 = WordBytes
    BY <1>1, ShiftedLoop, WordAssumption
  <2>. QED
    BY <1>1, <2>1, WordAssumption DEF Half
<1>3. ASSUME NEW i \in 1..WordBytes, i - 1 \in T PROVE i \in T
  <2>1. /\ WordBytes - i + 1 \in 1..WordBytes /\ WordBytes - (i - 1) = WordBytes - i + 1
        /\ (WordBytes - i + 1) - 1 = WordBytes - i /\ WordBytes - i \in 0..WordBytes
    BY WordAssumption
  <2>. DEFINE m == at[i - 1]
              q == Powers[WordBytes - i]
  <2>2. /\ at[i] = m \div Byte /\ m \in Nat /\ q \in Nat \ {0}
        /\ m < Byte * q
    BY <1>1, <1>3, <2>1, ShiftedLoop, PowersLoop, PowersNumbers
  <2>. HIDE DEF m, q, at
  <2>3. /\ m = Byte * (m \div Byte) + (m % Byte) /\ m % Byte \in 0..Byte - 1
        /\ m \div Byte \in Nat
    BY <2>2, WordAssumption
  <2>4. m \div Byte < q
    <3>. DEFINE d == m \div Byte
    <3>1. d \in Nat /\ Byte * d < Byte * q
      BY <2>2, <2>3, WordAssumption
    <3>. HIDE DEF d
    <3>2. d >= q => Byte * d >= Byte * q
      BY <2>2, <3>1, WordAssumption
    <3>3. d < q
      BY <2>2, <3>1, <3>2, WordAssumption
    <3>. QED
      BY <3>3 DEF d
  <2>. QED
    BY <2>2, <2>3, <2>4 DEF q
<1>. HIDE DEF T
<1>4. \A i \in 0..WordBytes : i \in T
  BY <1>2, <1>3, WordAssumption, UpTo
<1>. QED
  BY <1>4 DEF T

LEMMA EncodedBytes ==
  ASSUME NEW word \in Uint32
  PROVE  /\ Encoded(word) \in [1..WordBytes -> Nat]
         /\ Encoded(word) \in Blocks(Nat, WordBytes)
<1>1. ASSUME NEW i \in 1..WordBytes PROVE Shifted(word)[i - 1] % Byte \in Nat
  <2>1. i - 1 \in 0..WordBytes
    BY WordAssumption
  <2>2. Shifted(word)[i - 1] \in Nat
    BY <2>1, ShiftedBelow
  <2>. QED
    BY <2>2, WordAssumption
<1>2. Encoded(word) \in [1..WordBytes -> Nat]
  BY <1>1 DEF Encoded
<1>3. WordBytes \in Nat
  BY WordAssumption
<1>4. Encoded(word) \in Seq(Nat) /\ Len(Encoded(word)) = WordBytes
  BY <1>2, <1>3
<1>. QED
  BY <1>2, <1>4 DEF Blocks

(* The bytes taken from the last on, the word is the one shifted so far.   *)
LEMMA WordRoundTrip == ASSUME NEW word \in Uint32 PROVE Decoded(Encoded(word)) = word
<1>. DEFINE at == Shifted(word)
<1>1. word \in Nat /\ WordBytes \in Nat
  BY HalfNumber, WordAssumption DEF Uint32
<1>2. PICK f : /\ f[0] = 0
               /\ \A i \in 1..WordBytes :
                    f[i] = f[i - 1] * Byte + Encoded(word)[WordBytes - i + 1]
               /\ Decoded(Encoded(word)) = f[WordBytes]
  BY EncodedBytes, DecodedLoop
<1>. DEFINE T == {i \in 0..WordBytes : f[i] = at[WordBytes - i]}
<1>3. 0 \in T
  <2>1. WordBytes \in 0..WordBytes /\ WordBytes - WordBytes = 0 /\ WordBytes - 0 = WordBytes
    BY <1>1
  <2>2. at[WordBytes] \in Nat /\ at[WordBytes] < 1
    BY <2>1, ShiftedBelow, PowersLoop
  <2>3. at[WordBytes] = 0
    BY <2>2
  <2>. QED
    BY <1>1, <1>2, <2>1, <2>3
<1>4. ASSUME NEW i \in 1..WordBytes, i - 1 \in T PROVE i \in T
  <2>. DEFINE k == WordBytes - i
  <2>1. k \in 0..WordBytes /\ k + 1 \in 1..WordBytes /\ (k + 1) - 1 = k /\ WordBytes - (i - 1) = k + 1
    BY <1>1
  <2>2. Encoded(word)[k + 1] = at[k] % Byte
    BY <2>1 DEF Encoded
  <2>3. f[i - 1] = at[k] \div Byte
    BY <1>1, <1>4, <2>1, ShiftedLoop
  <2>4. f[i] = (at[k] \div Byte) * Byte + (at[k] % Byte)
    BY <1>2, <2>2, <2>3
  <2>5. at[k] \in Nat
    BY <2>1, ShiftedBelow
  <2>. HIDE DEF at, k
  <2>6. f[i] = at[k]
    BY <2>4, <2>5, WordAssumption
  <2>. QED
    BY <2>6 DEF k
<1>. HIDE DEF T
<1>5. WordBytes \in T
  BY <1>1, <1>3, <1>4, UpTo
<1>6. f[WordBytes] = at[0]
  BY <1>1, <1>5 DEF T
<1>. QED
  BY <1>1, <1>2, <1>6, ShiftedLoop

(* An event is a block of two words.                                       *)
EventBytes(event) == Encoded(event.Resource) \o Encoded(event.ActionType)

LEMMA EventBlock ==
  ASSUME NEW event \in Event
  PROVE  /\ event = [Resource |-> event.Resource, ActionType |-> event.ActionType]
         /\ event.Resource \in Uint32 /\ event.ActionType \in Uint32
         /\ EventBytes(event) \in Blocks(Nat, sizeEncodedClusterEvent)
         /\ \A j \in 1..WordBytes :
              /\ EventBytes(event)[j] = Encoded(event.Resource)[j]
              /\ EventBytes(event)[WordBytes + j] = Encoded(event.ActionType)[j]
<1>1. /\ event = [Resource |-> event.Resource, ActionType |-> event.ActionType]
      /\ event.Resource \in Uint32 /\ event.ActionType \in Uint32
  BY EventAssumption
<1>. DEFINE r == Encoded(event.Resource)
            a == Encoded(event.ActionType)
<1>2. r \in Seq(Nat) /\ a \in Seq(Nat) /\ Len(r) = WordBytes /\ Len(a) = WordBytes
  BY <1>1, EncodedBytes DEF Blocks
<1>3. EventBytes(event) = r \o a
  BY DEF EventBytes
<1>. HIDE DEF r, a
<1>4. /\ r \o a \in Seq(Nat) /\ Len(r \o a) = Len(r) + Len(a)
      /\ \A i \in 1..Len(r) + Len(a) :
           (r \o a)[i] = IF i <= Len(r) THEN r[i] ELSE a[i - Len(r)]
  BY <1>2, ConcatProperties
<1>5. WordBytes \in Nat
  BY WordAssumption
<1>6. EventBytes(event) \in Blocks(Nat, sizeEncodedClusterEvent)
  BY <1>2, <1>3, <1>4, <1>5 DEF Blocks, sizeEncodedClusterEvent
<1>7. \A j \in 1..WordBytes :
        EventBytes(event)[j] = r[j] /\ EventBytes(event)[WordBytes + j] = a[j]
  <2>1. ASSUME NEW j \in 1..WordBytes
        PROVE  EventBytes(event)[j] = r[j] /\ EventBytes(event)[WordBytes + j] = a[j]
    <3>1. /\ j \in 1..Len(r) + Len(a) /\ j <= Len(r)
          /\ WordBytes + j \in 1..Len(r) + Len(a) /\ ~(WordBytes + j <= Len(r))
          /\ (WordBytes + j) - Len(r) = j
      BY <1>2, <1>5
    <3>2. (r \o a)[j] = r[j] /\ (r \o a)[WordBytes + j] = a[(WordBytes + j) - Len(r)]
      BY <1>4, <3>1
    <3>. QED
      BY <1>3, <3>1, <3>2
  <2>. QED
    BY <2>1
<1>. QED
  BY <1>1, <1>6, <1>7 DEF r, a

(* The bytes of a word are found where the decoder looks for them.         *)
LEMMA WordAt ==
  ASSUME NEW bytes \in Seq(Nat), NEW at \in Nat, NEW word \in Uint32,
         \A j \in 1..WordBytes : bytes[at + j] = Encoded(word)[j]
  PROVE  Decoded(SubSeq(bytes, at + 1, at + WordBytes)) = word
<1>1. WordBytes \in Nat /\ Encoded(word) \in Seq(Nat) /\ Len(Encoded(word)) = WordBytes
  BY WordAssumption, EncodedBytes DEF Blocks
<1>. DEFINE found == SubSeq(bytes, at + 1, at + WordBytes)
<1>2. \A i \in at + 1..at + WordBytes : bytes[i] \in Nat
  <2>1. ASSUME NEW i \in at + 1..at + WordBytes PROVE bytes[i] \in Nat
    <3>1. i - at \in 1..WordBytes /\ at + (i - at) = i
      BY <1>1
    <3>2. bytes[i] = Encoded(word)[i - at]
      BY <3>1
    <3>. QED
      BY <3>1, <3>2, EncodedBytes
  <2>. QED
    BY <2>1
<1>3. /\ found \in Seq(Nat)
      /\ Len(found) = IF at + 1 <= at + WordBytes THEN (at + WordBytes) - (at + 1) + 1 ELSE 0
      /\ \A i \in 1..(at + WordBytes) - (at + 1) + 1 : found[i] = bytes[(at + 1) + i - 1]
  <2>1. at + 1 \in Int /\ at + WordBytes \in Int
    BY <1>1
  <2>. QED
    BY <1>2, <2>1, SubSeqProperties
<1>. HIDE DEF found
<1>4. Len(found) = WordBytes
  BY <1>1, <1>3
<1>5. \A i \in 1..WordBytes : found[i] = Encoded(word)[i]
  <2>1. ASSUME NEW i \in 1..WordBytes PROVE found[i] = Encoded(word)[i]
    <3>1. i \in 1..(at + WordBytes) - (at + 1) + 1 /\ (at + 1) + i - 1 = at + i
      BY <1>1
    <3>. QED
      BY <1>3, <3>1
  <2>. QED
    BY <2>1
<1>6. found = Encoded(word)
  BY <1>1, <1>3, <1>4, <1>5, SeqEqual
<1>. QED
  BY <1>6, WordRoundTrip DEF found

(* The events a plugin registers for are the ones the host decodes, for    *)
(* all resources and action types of the width of a word.                  *)
THEOREM EventsRoundTrip ==
  ASSUME NEW input \in Seq(Event)
  PROVE  decodeClusterEvents(encodeClusterEvents(input)) = input
<1>. DEFINE n == Len(input)
            size == sizeEncodedClusterEvent
            blocks == [i \in DOMAIN input |-> EventBytes(input[i])]
            bytes == Concat(blocks)
<1>1. /\ n \in Nat /\ DOMAIN input = 1..n /\ \A i \in 1..n : input[i] \in Event
      /\ input = [i \in 1..n |-> input[i]]
  BY LenProperties
<1>2. WordBytes \in Nat \ {0} /\ size = 2 * WordBytes /\ size \in Nat \ {0}
  BY WordAssumption DEF sizeEncodedClusterEvent
<1>3. encodeClusterEvents(input) = bytes
  BY DEF encodeClusterEvents, EventBytes
<1>. HIDE DEF n, size
<1>4. blocks \in Seq(Blocks(Nat, size)) /\ Len(blocks) = n
  <2>1. \A i \in 1..n : EventBytes(input[i]) \in Blocks(Nat, size)
    BY <1>1, EventBlock DEF size
  <2>2. blocks \in [1..n -> Blocks(Nat, size)]
    BY <1>1, <2>1
  <2>. QED
    BY <1>1, <2>2
<1>5. /\ bytes \in Seq(Nat) /\ Len(bytes) = n * size
      /\ \A i \in 1..n, j \in 1..size : bytes[(i - 1) * size + j] = EventBytes(input[i])[j]
  <2>1. \A i \in 1..n : blocks[i] = EventBytes(input[i])
    BY <1>1
  <2>. HIDE DEF blocks
  <2>2. size \in Nat /\ blocks \in Seq(Blocks(Nat, size))
    BY <1>2, <1>4
  <2>3. Concat(blocks) \in Seq(Nat)
    BY <2>2, ConcatBlocks
  <2>4. Len(Concat(blocks)) = Len(blocks) * size
    BY <2>2, ConcatBlocks
  <2>5. \A i \in 1..Len(blocks), j \in 1..size :
             Concat(blocks)[(i - 1) * size + j] = blocks[i][j]
    BY <2>2, ConcatBlocks
  <2>. QED
    BY <1>4, <2>1, <2>3, <2>4, <2>5
<1>. HIDE DEF bytes
<1>6. Len(bytes) \div size = n
  <2>1. n \in Int /\ 0 \in 0..size - 1 /\ n * size + 0 = n * size
    BY <1>1, <1>2
  <2>2. (n * size + 0) \div size = n
    BY <1>2, <2>1, Divided
  <2>. QED
    BY <1>5, <2>1, <2>2
<1>7. ASSUME NEW i \in 1..n
      PROVE  LET at == (i - 1) * size
             IN  [Resource   |-> Decoded(SubSeq(bytes, at + 1, at + WordBytes)),
                  ActionType |-> Decoded(SubSeq(bytes, at + WordBytes + 1,
                                                at + 2 * WordBytes))]
                 = input[i]
  <2>. DEFINE at == (i - 1) * size
              event == input[i]
  <2>1. at \in Nat
    BY <1>1, <1>2
  <2>2. event \in Event
    BY <1>1
  <2>3. \A j \in 1..size : bytes[at + j] = EventBytes(event)[j]
    BY <1>5
  <2>. HIDE DEF at, event
  <2>4. \A j \in 1..WordBytes : bytes[at + j] = Encoded(event.Resource)[j]
    BY <1>2, <2>2, <2>3, EventBlock
  <2>5. ASSUME NEW j \in 1..WordBytes
        PROVE  bytes[(at + WordBytes) + j] = Encoded(event.ActionType)[j]
    <3>1. WordBytes + j \in 1..size /\ (at + WordBytes) + j = at + (WordBytes + j)
      BY <1>2, <2>1
    <3>. QED
      BY <2>2, <2>3, <3>1, EventBlock
  <2>6. Decoded(SubSeq(bytes, at + 1, at + WordBytes)) = event.Resource
    BY <1>5, <2>1, <2>2, <2>4, EventBlock, WordAt
  <2>7. at + WordBytes \in Nat /\ (at + WordBytes) + WordBytes = at + 2 * WordBytes
    BY <1>2, <2>1
  <2>8. Decoded(SubSeq(bytes, (at + WordBytes) + 1, (at + WordBytes) + WordBytes))
          = event.ActionType
    BY <1>5, <2>2, <2>5, <2>7, EventBlock, WordAt
  <2>9. event = [Resource |-> event.Resource, ActionType |-> event.ActionType]
    BY <2>2, EventBlock
  <2>. QED
    BY <2>6, <2>7, <2>8, <2>9 DEF at, event
<1>8. decodeClusterEvents(bytes) = [i \in 1..n |-> input[i]]
  BY <1>6, <1>7, Zenon DEF decodeClusterEvents, size
<1>. QED
  BY <1>1, <1>3, <1>8

(* What a method returns, whatever it is.                                  *)
AnyResult ==
  [code : Int32, reason : Reason \cup {""}, number : Int32 \cup Uint32,
   nodeNames : NodeNames \cup {<<>>}, nominated : {"", "node"},
   clusterEvents : Seq(Event)]

LEMMA ResultsAreResults ==
  ASSUME NEW op, NEW r \in Results(op)
  PROVE  r \in AnyResult /\ (op # "postfilter" => r.nominated = "")
<1>1. 0 \in Int32 /\ Success = 0
  BY HalfNumber DEF Int32, Success
<1>2. Nothing \in AnyResult /\ Nothing.nominated = "" /\ <<>> \in Seq(Event)
  BY <1>1, EmptySeq DEF Nothing, AnyResult
<1>3. ASSUME NEW numbers \in SUBSET (Int32 \cup Uint32), NEW t \in StatusWithNumber(numbers)
      PROVE  t \in AnyResult /\ t.nominated = ""
  <2>1. PICK c \in [code : Int32, reason : Reason, number : numbers] :
          t = [Nothing EXCEPT !.code = c.code, !.reason = c.reason, !.number = c.number]
    BY DEF StatusWithNumber
  <2>2. /\ c.code \in Int32 /\ c.reason \in Reason \cup {""}
        /\ c.number \in Int32 \cup Uint32
    OBVIOUS
  <2>. QED
    BY <1>2, <2>1, <2>2 DEF AnyResult
<1>4. Int32 \in SUBSET (Int32 \cup Uint32) /\ Uint32 \in SUBSET (Int32 \cup Uint32)
      /\ {0} \in SUBSET (Int32 \cup Uint32)
  BY <1>1
<1>5. CASE op = "enqueue"
  <2>1. PICK events \in BoundedSeq(Event, MaxEvents) :
          r = [Nothing EXCEPT !.clusterEvents = events]
    BY <1>5 DEF Results
  <2>2. events \in Seq(Event)
    BY DEF BoundedSeq, SeqOf
  <2>. QED
    BY <1>2, <2>1, <2>2 DEF AnyResult
<1>6. CASE op = "prefilter"
  <2>1. PICK t \in StatusWithNumber({0}), names \in NodeNames :
          r = [t EXCEPT !.nodeNames = names]
    BY <1>6 DEF Results
  <2>2. t \in AnyResult /\ t.nominated = ""
    BY <1>3, <1>4
  <2>. QED
    BY <2>1, <2>2 DEF AnyResult
<1>7. CASE op = "postfilter"
  <2>1. PICK t \in StatusWithNumber(Int32), name \in {"", "node"} :
          r = [t EXCEPT !.nominated = name]
    BY <1>7 DEF Results
  <2>2. t \in AnyResult
    BY <1>3, <1>4
  <2>. QED
    BY <1>7, <2>1, <2>2 DEF AnyResult
<1>8. CASE op \in {"unreserve", "postbind"}
  BY <1>2, <1>8 DEF Results
<1>9. CASE op \notin {"enqueue", "prefilter", "postfilter", "unreserve", "postbind"}
  <2>1. \/ r \in StatusWithNumber(Int32) \/ r \in StatusWithNumber(Uint32)
        \/ r \in StatusWithNumber({0})
    BY <1>9 DEF Results
  <2>. QED
    BY <1>3, <1>4, <2>1
<1>. QED
  BY <1>5, <1>6, <1>7, <1>8, <1>9

(* The names that arrive are those that were returned, without empty ones. *)
LEMMA NamesRoundTrip ==
  ASSUME NEW names \in NodeNames \cup {<<>>}
  PROVE  (IF names # <<>> THEN fromNULTerminated(toNULTerminated(names)) ELSE <<>>)
           = NonEmpty(names)
<1>1. CASE names = <<>>
  BY <1>1, NonEmptyOfEmpty
<1>2. CASE names # <<>>
  <2>. DEFINE C == UNION {ToSet(name) : name \in ToSet(names)}
  <2>1. /\ names \in Seq(ToSet(names))
        /\ \A name \in ToSet(names) : name \in Seq(ToSet(name)) /\ ~Contains(name, NUL)
    BY <1>2, NodeNamesAssumption
  <2>2. \A name \in ToSet(names) : ToSet(name) \subseteq C /\ NUL \notin ToSet(name)
    <3>1. ASSUME NEW name \in ToSet(names) PROVE NUL \notin ToSet(name)
      <4>1. name \in Seq(ToSet(name)) /\ \A i \in 1..Len(name) : name[i] # NUL
        BY <2>1 DEF Contains
      <4>2. DOMAIN name = 1..Len(name)
        BY <4>1, LenProperties
      <4>. QED
        BY <4>1, <4>2 DEF ToSet
    <3>. QED
      BY <3>1, Zenon
  <2>3. NUL \notin C
    BY <2>2
  <2>. HIDE DEF C
  <2>4. ToSet(names) \subseteq Seq(C)
    BY <2>1, <2>2, SeqMonotonic
  <2>5. names \in Seq(Seq(C))
    BY <2>1, <2>4, SeqMonotonic
  <2>. QED
    BY <1>2, <2>3, <2>5, StringsRoundTrip
<1>. QED
  BY <1>1, <1>2

(* While a method runs, its call has no results yet.                       *)
ArriveInv ==
  /\ calling \notin {NoOp, Panicked} => params = NoParams /\ said = Nothing
  /\ ResultsArrive

(* The parameters after the export's calls of host functions.              *)
Written(op, r) ==
  [NoParams EXCEPT
     !.resultStatusReason =
        IF r.code # Success /\ r.reason # "" THEN r.reason ELSE @,
     !.resultNodeNames =
        IF r.nodeNames # <<>>
          THEN fromNULTerminated(toNULTerminated(r.nodeNames)) ELSE @,
     !.resultNominatedNodeName =
        IF op = "postfilter" THEN r.nominated ELSE @,
     !.resultClusterEvents =
        IF r.clusterEvents # <<>>
          THEN decodeClusterEvents(encodeClusterEvents(r.clusterEvents)) ELSE @]

IsResult(r) ==
  r = [code |-> r.code, reason |-> r.reason, number |-> r.number,
       nodeNames |-> r.nodeNames, nominated |-> r.nominated,
       clusterEvents |-> r.clusterEvents]

LEMMA ReplacedFields ==
  ASSUME NEW r, IsResult(r), NEW reason, NEW names
  PROVE  /\ [r EXCEPT !.reason = reason, !.nodeNames = names]
              = [code |-> r.code, reason |-> reason, number |-> r.number,
                 nodeNames |-> names, nominated |-> r.nominated,
                 clusterEvents |-> r.clusterEvents]
         /\ [r EXCEPT !.nodeNames = names]
              = [code |-> r.code, reason |-> r.reason, number |-> r.number,
                 nodeNames |-> names, nominated |-> r.nominated,
                 clusterEvents |-> r.clusterEvents]
<1>. DEFINE t == [r EXCEPT !.reason = reason]
<1>1. t = [code |-> r.code, reason |-> reason, number |-> r.number,
           nodeNames |-> r.nodeNames, nominated |-> r.nominated,
           clusterEvents |-> r.clusterEvents]
  BY DEF IsResult
<1>2. [r EXCEPT !.reason = reason, !.nodeNames = names] = [t EXCEPT !.nodeNames = names]
  BY Zenon
<1>. HIDE DEF t
<1>3. [t EXCEPT !.nodeNames = names]
        = [code |-> r.code, reason |-> reason, number |-> r.number,
           nodeNames |-> names, nominated |-> r.nominated,
           clusterEvents |-> r.clusterEvents]
  BY <1>1
<1>4. [r EXCEPT !.nodeNames = names]
        = [code |-> r.code, reason |-> r.reason, number |-> r.number,
           nodeNames |-> names, nominated |-> r.nominated,
           clusterEvents |-> r.clusterEvents]
  BY DEF IsResult
<1>. QED
  BY <1>2, <1>3, <1>4

(* What the handler makes of a result is the result.                       *)
LEMMA HandledResult ==
  ASSUME NEW op, NEW r \in Results(op)
  PROVE  Handled(op, Returned(op, r), Written(op, r)) =
           [r EXCEPT !.reason = IF r.code = Success THEN "" ELSE @,
                     !.nodeNames = ToSet(NonEmpty(@))]
<1>. DEFINE set == Written(op, r)
            h == Handled(op, Returned(op, r), set)
<1>1. r \in AnyResult /\ (op # "postfilter" => r.nominated = "")
  BY ResultsAreResults
<1>0. r.nodeNames \in NodeNames \cup {<<>>} /\ r.clusterEvents \in Seq(Event)
  BY <1>1 DEF AnyResult
<1>2. h.code = r.code /\ h.number = r.number
  BY NumbersUnpacked
<1>3. /\ set.resultStatusReason = IF r.code # Success /\ r.reason # "" THEN r.reason ELSE ""
      /\ set.resultNodeNames =
           IF r.nodeNames # <<>> THEN fromNULTerminated(toNULTerminated(r.nodeNames)) ELSE <<>>
      /\ set.resultNominatedNodeName = IF op = "postfilter" THEN r.nominated ELSE ""
      /\ set.resultClusterEvents =
           IF r.clusterEvents # <<>>
             THEN decodeClusterEvents(encodeClusterEvents(r.clusterEvents)) ELSE <<>>
  BY DEF NoParams, Written
<1>4. h = [code |-> h.code, reason |-> set.resultStatusReason, number |-> h.number,
           nodeNames |-> ToSet(set.resultNodeNames),
           nominated |-> set.resultNominatedNodeName,
           clusterEvents |-> set.resultClusterEvents]
  BY DEF Handled
<1>5. set.resultStatusReason = IF r.code = Success THEN "" ELSE r.reason
  BY <1>3
<1>6. set.resultNominatedNodeName = r.nominated
  BY <1>1, <1>3
<1>7. set.resultNodeNames = NonEmpty(r.nodeNames)
  BY <1>3, <1>0, NamesRoundTrip, Zenon
<1>8. set.resultClusterEvents = r.clusterEvents
  BY <1>3, <1>0, EventsRoundTrip
<1>. HIDE DEF h, set
<1>9. h = [code |-> r.code, reason |-> IF r.code = Success THEN "" ELSE r.reason,
           number |-> r.number, nodeNames |-> ToSet(NonEmpty(r.nodeNames)),
           nominated |-> r.nominated, clusterEvents |-> r.clusterEvents]
  BY <1>2, <1>4, <1>5, <1>6, <1>7, <1>8, Zenon
<1>10. IsResult(r)
  BY <1>1 DEF AnyResult, IsResult
<1>11. [r EXCEPT !.reason = IF r.code = Success THEN "" ELSE @,
                 !.nodeNames = ToSet(NonEmpty(@))]
         = [code |-> r.code, reason |-> IF r.code = Success THEN "" ELSE r.reason,
            number |-> r.number, nodeNames |-> ToSet(NonEmpty(r.nodeNames)),
            nominated |-> r.nominated, clusterEvents |-> r.clusterEvents]
  BY <1>10, ReplacedFields, ZenonT(60)
<1>. QED
  BY <1>9, <1>11 DEF h, set

(* A call that has begun, and one of a method without a status that ended  *)
(* with a trap, have neither a result nor an outcome.                      *)
LEMMA NothingArrives ==
  NoOutcome = [Nothing EXCEPT !.reason = IF Nothing.code = Success THEN "" ELSE @,
                              !.nodeNames = ToSet(NonEmpty(@))]
<1>1. ToSet(NonEmpty(<<>>)) = {}
  BY NonEmptyOfEmpty DEF ToSet
<1>2. Nothing.nodeNames = <<>> /\ Nothing.code = Success /\ Nothing.reason = ""
  BY DEF Nothing
<1>0. IsResult(Nothing)
  BY DEF Nothing, IsResult
<1>3. [Nothing EXCEPT !.reason = "", !.nodeNames = {}]
        = [code |-> Nothing.code, reason |-> "", number |-> Nothing.number,
           nodeNames |-> {}, nominated |-> Nothing.nominated,
           clusterEvents |-> Nothing.clusterEvents]
  BY <1>0, ReplacedFields, ZenonT(60)
<1>4. [Nothing EXCEPT !.nodeNames = {}]
        = [code |-> Nothing.code, reason |-> Nothing.reason, number |-> Nothing.number,
           nodeNames |-> {}, nominated |-> Nothing.nominated,
           clusterEvents |-> Nothing.clusterEvents]
  BY <1>0, ReplacedFields, ZenonT(60)
<1>. QED
  BY <1>1, <1>2, <1>3, <1>4, Zenon DEF NoOutcome

LEMMA ArriveNext == ArriveInv /\ [ResultsNext]_resultVars => ArriveInv'
<1>. SUFFICES ASSUME ArriveInv, [ResultsNext]_resultVars PROVE ArriveInv'
  OBVIOUS
<1>1. ASSUME NEW op \in Op, Call(op) PROVE ArriveInv'
  <2>1. params' = NoParams /\ said' = Nothing /\ outcome' = NoOutcome
    BY <1>1 DEF Call
  <2>. QED
    BY <2>1, NothingArrives DEF ArriveInv, ResultsArrive
<1>2. ASSUME NEW r \in Results(calling), MethodReturns(r) PROVE ArriveInv'
  <2>1. /\ said' = r /\ calling' = NoOp /\ params = NoParams
        /\ outcome' = Handled(calling, Returned(calling, r), params')
    BY <1>2 DEF MethodReturns, ArriveInv
  <2>2. params' = Written(calling, r)
    BY <1>2, <2>1 DEF MethodReturns, Written
  <2>3. outcome' = [r EXCEPT !.reason = IF r.code = Success THEN "" ELSE @,
                             !.nodeNames = ToSet(NonEmpty(@))]
    BY <2>1, <2>2, HandledResult, Zenon
  <2>. QED
    BY <2>1, <2>3 DEF ArriveInv, ResultsArrive
<1>3. CASE CallTraps
  <2>1. said' = Nothing /\ calling' \in {NoOp, Panicked}
    BY <1>3 DEF CallTraps, ArriveInv
  <2>2. outcome' = NoOutcome \/ outcome'.reason = "trap"
    <3>1. [NoOutcome EXCEPT !.code = Error, !.reason = "trap"].reason = "trap"
      BY DEF NoOutcome, Nothing
    <3>. QED
      BY <1>3, <3>1, Zenon DEF CallTraps
  <2>. QED
    BY <2>1, <2>2, NothingArrives DEF ArriveInv, ResultsArrive
<1>4. CASE UNCHANGED resultVars
  BY <1>4 DEF resultVars, ArriveInv, ResultsArrive
<1>. QED
  BY <1>1, <1>2, <1>3, <1>4 DEF ResultsNext

(* All of a result arrives, whatever the width of a word, the names, the   *)
(* events and the calls before.                                            *)
THEOREM ResultsReachFramework == ResultsSpec => []ResultsArrive
<1>1. ResultsInit => ArriveInv
  BY NothingArrives DEF ResultsInit, ArriveInv, ResultsArrive
<1>2. ArriveInv => ResultsArrive
  BY DEF ArriveInv
<1>. QED
  BY <1>1, <1>2, ArriveNext, PTL DEF ResultsSpec

(* The numbers the framework gets are of the Go types they have there.     *)
ResultTypes ==
  /\ calling \in Op \cup {NoOp, Panicked}
  /\ outcome.code \in Int32 /\ outcome.number \in Int32 \cup Uint32

LEMMA NoOutcomeTypes ==
  /\ NoOutcome.code \in Int32 /\ NoOutcome.number \in Int32
  /\ [NoOutcome EXCEPT !.code = Error, !.reason = "trap"].code \in Int32
  /\ [NoOutcome EXCEPT !.code = Error, !.reason = "trap"].number \in Int32
<1>1. 0 \in Int32 /\ 1 \in Int32
  BY HalfNumber DEF Int32
<1>. QED
  BY <1>1 DEF NoOutcome, Nothing, Success, Error

LEMMA ResultTypesNext == ResultTypes /\ [ResultsNext]_resultVars => ResultTypes'
<1>. SUFFICES ASSUME ResultTypes, [ResultsNext]_resultVars PROVE ResultTypes'
  OBVIOUS
<1>1. ASSUME NEW op \in Op, Call(op) PROVE ResultTypes'
  <2>1. calling' = op /\ outcome' = NoOutcome
    BY <1>1 DEF Call
  <2>. QED
    BY <2>1, NoOutcomeTypes, Zenon DEF ResultTypes
<1>2. ASSUME NEW r \in Results(calling), MethodReturns(r) PROVE ResultTypes'
  <2>1. /\ calling' = NoOp
        /\ outcome' = Handled(calling, Returned(calling, r), params')
    BY <1>2 DEF MethodReturns
  <2>2. outcome'.code = r.code /\ outcome'.number = r.number
    BY <2>1, NumbersUnpacked, Zenon
  <2>3. r.code \in Int32 /\ r.number \in Int32 \cup Uint32
    <3>1. r \in AnyResult
      BY ResultsAreResults, Zenon
    <3>. QED
      BY <3>1 DEF AnyResult
  <2>. QED
    BY <2>1, <2>2, <2>3 DEF ResultTypes
<1>3. CASE CallTraps
  <2>1. /\ calling' \in {NoOp, Panicked}
        /\ \/ outcome' = NoOutcome
           \/ outcome' = [NoOutcome EXCEPT !.code = Error, !.reason = "trap"]
    BY <1>3, Zenon DEF CallTraps
  <2>. QED
    BY <2>1, NoOutcomeTypes, Zenon DEF ResultTypes
<1>4. CASE UNCHANGED resultVars
  BY <1>4 DEF resultVars, ResultTypes
<1>. QED
  BY <1>1, <1>2, <1>3, <1>4 DEF ResultsNext

LEMMA ResultTypesInvariant == ResultsSpec => []ResultTypes
<1>1. ResultsInit => ResultTypes
  BY NoOutcomeTypes, Zenon DEF ResultsInit, ResultTypes
<1>. QED
  BY <1>1, ResultTypesNext, PTL DEF ResultsSpec

-----------------------------------------------------------------------------
(* The composition: each step of a call is one of its parts, or none.      *)
LEMMA CallsStep ==
  CallsNext => /\ [ResultsNext]_resultVars
               /\ [KlogNext]_klogVars
               /\ [ScoreNext]_scoreVars
<1>. SUFFICES ASSUME CallsNext
              PROVE  /\ [ResultsNext]_resultVars
                     /\ [KlogNext]_klogVars
                     /\ [ScoreNext]_scoreVars
  OBVIOUS
<1>1. ASSUME NEW op \in Op, HostCalls(op)
      PROVE  /\ ResultsNext /\ UNCHANGED klogVars
             /\ Normalize \/ UNCHANGED scoreVars
  BY <1>1 DEF HostCalls, ResultsNext
<1>2. CASE MethodLogs
  BY <1>2 DEF MethodLogs, KlogNext
<1>3. CASE ScoresReturn
  BY <1>3 DEF ScoresReturn, KlogNext, ScoreNext
<1>4. CASE MethodEnds
  BY <1>4 DEF MethodEnds, KlogNext, ResultsNext
<1>5. CASE MethodTraps
  BY <1>5 DEF MethodTraps, KlogNext, ResultsNext, ScoreNext
<1>6. CASE HandlerCopies
  BY <1>6 DEF HandlerCopies, ScoreNext
<1>. QED
  BY <1>1, <1>2, <1>3, <1>4, <1>5, <1>6 DEF CallsNext, ScoreNext

(* The calls a host makes are calls as each of the three parts has them,   *)
(* however the plugin logs, answers and traps.                             *)
THEOREM CallsAreTheirParts == CallsSpec => ResultsSpec /\ KlogSpec /\ ScoreSpec
<1>1. CallsInit => ResultsInit /\ KlogInit /\ ScoreInit
  BY DEF CallsInit
<1>2. [CallsNext]_callVars => /\ [ResultsNext]_resultVars
                              /\ [KlogNext]_klogVars
                              /\ [ScoreNext]_scoreVars
  <2>1. UNCHANGED callVars => UNCHANGED <<resultVars, klogVars, scoreVars>>
    BY DEF callVars
  <2>. QED
    BY <2>1, CallsStep
<1>. QED
  BY <1>1, <1>2, PTL DEF CallsSpec, ResultsSpec, KlogSpec, ScoreSpec

(* The types of a call's state, of its three parts together.               *)
THEOREM CallTypes == CallsSpec => []CallTypeOK
<1>1. ResultTypes /\ KlogTypes => CallTypeOK
  BY DEF ResultTypes, KlogTypes, CallTypeOK
<1>. QED
  BY <1>1, CallsAreTheirParts, ResultTypesInvariant, KlogTypesInvariant, PTL

(* The scores a call brings past the handler are the guest's answer, which *)
(* leaves no node out without another name in its place; no call has a     *)
(* message written that its severity forbids or that is not whole, and     *)
(* none ends with another result than its method's.                        *)
THEOREM CallsKeepTheirPromises ==
  CallsSpec => [](/\ ScoresAsAnswered /\ AllOrNothing
                  /\ NothingBelowSeverity /\ WrittenWhole /\ ResultsArrive)
BY CallsAreTheirParts, ScoresAreTheAnswer, ScoresOfAllNodes, Severities,
   MessagesWrittenWhole, ResultsReachFramework, PTL
=============================================================================
