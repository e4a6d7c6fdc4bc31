---------------------------- MODULE NormalizeScore ----------------------------
(***************************************************************************)
(* The scores of a pod on their way through a guest's NormalizeScore: the  *)
(* framework's list becomes a map (host.go), the guest answers another     *)
(* map, and the host makes a list of it, in whatever order Go ranges over  *)
(* the map, that the handler copies into the framework's list (plugin.go). *)
(***************************************************************************)
EXTENDS Integers, Sequences, FiniteSets

CONSTANTS
  Node,    \* the names a node may have, and a guest may answer
  Score    \* the scores a plugin may give

ASSUME NodeAssumption == IsFiniteSet(Node)
ASSUME ScoreAssumption == Score \subseteq Int

VARIABLES
  nodes,       \* the nodes the framework scores, in its order
  scores,      \* the NodeScoreList the framework passes
  phase,       \* "idle", "scored", "answered", "listed", "normalized", "panicked"
  answer,      \* what the guest's NormalizeScore returned: a map
  resultNormalizedScoreList

scoreVars == <<nodes, scores, phase, answer, resultNormalizedScoreList>>

NodeScore == [Name : Node, Score : Score]

(* The lists without repetition of the nodes in S.                         *)
Orders(S) ==
  {order \in [1..Cardinality(S) -> S] :
     \A i, j \in 1..Cardinality(S) : order[i] = order[j] => i = j}

NoAnswer == [n \in {} |-> 0]

ScoreInit ==
  /\ nodes = <<>> /\ scores = <<>>
  /\ phase = "idle"
  /\ answer = NoAnswer
  /\ resultNormalizedScoreList = <<>>

(* The framework passes the scores of some nodes.                          *)
Normalize ==
  /\ phase = "idle"
  /\ \E S \in SUBSET Node \ {{}} : nodes' \in Orders(S)
  /\ \E given \in [Node -> Score] :
       scores' = [i \in DOMAIN nodes' |->
                    [Name |-> nodes'[i], Score |-> given[nodes'[i]]]]
  /\ phase' = "scored"
  /\ UNCHANGED <<answer, resultNormalizedScoreList>>

(* The user's function returns a map of any names to scores: the nodes it  *)
(* was given, some of them, or others; the host looks at none of them...   *)
GuestAnswers ==
  /\ phase = "scored"
  /\ \E S \in SUBSET Node : answer' \in [S -> Score]
  /\ phase' = "answered"
  /\ UNCHANGED <<nodes, scores, resultNormalizedScoreList>>

(* ...or the guest has no such function and sends nothing.                 *)
GuestHasNone ==
  /\ phase = "scored"
  /\ phase' = "listed"
  /\ UNCHANGED <<nodes, scores, answer, resultNormalizedScoreList>>

(* A trap leaves no list to fall back from, and the sizes differ.          *)
GuestTraps ==
  /\ phase = "scored"
  /\ phase' = "panicked"
  /\ UNCHANGED <<nodes, scores, answer, resultNormalizedScoreList>>

(* Bug: every entry is the first of the map.                               *)
MapToNodeScoreListFirst ==
  /\ phase = "answered"
  /\ \E order \in Orders(DOMAIN answer) :
       resultNormalizedScoreList' =
         [i \in DOMAIN order |->
            [Name |-> order[1], Score |-> answer[order[1]]]]
  /\ phase' = "listed"
  /\ UNCHANGED <<nodes, scores, answer>>

MapToNodeScoreList ==
  /\ phase = "answered"
  /\ \E order \in Orders(DOMAIN answer) :
       resultNormalizedScoreList' =
         [i \in DOMAIN order |->
            [Name |-> order[i], Score |-> answer[order[i]]]]
  /\ phase' = "listed"
  /\ UNCHANGED <<nodes, scores, answer>>

(* guest.normalizeScore: an empty list stands for no implementation.       *)
UpdatedScores ==
  IF resultNormalizedScoreList = <<>> THEN scores
  ELSE resultNormalizedScoreList

(* Bug: a shorter list is copied as far as it goes.                        *)
CopyScoresPartly ==
  /\ phase = "listed"
  /\ scores' = [i \in DOMAIN scores |->
                  IF i \in DOMAIN UpdatedScores THEN UpdatedScores[i]
                  ELSE scores[i]]
  /\ phase' = "normalized"
  /\ UNCHANGED <<nodes, answer, resultNormalizedScoreList>>

(* Bug: the list is replaced, whatever its size.                           *)
ReplaceScores ==
  /\ phase = "listed"
  /\ scores' = UpdatedScores
  /\ phase' = "normalized"
  /\ UNCHANGED <<nodes, answer, resultNormalizedScoreList>>

CopyScores ==
  /\ phase = "listed"
  /\ Len(scores) = Len(UpdatedScores)
  /\ scores' = UpdatedScores
  /\ phase' = "normalized"
  /\ UNCHANGED <<nodes, answer, resultNormalizedScoreList>>

SizeMismatch ==
  /\ phase = "listed"
  /\ Len(scores) # Len(UpdatedScores)
  /\ phase' = "panicked"
  /\ UNCHANGED <<nodes, scores, answer, resultNormalizedScoreList>>

(* The framework has its scores, and the call's parameters are garbage.    *)
ScoresTaken ==
  /\ phase = "normalized"
  /\ phase' = "idle"
  /\ nodes' = <<>> /\ scores' = <<>>
  /\ answer' = NoAnswer
  /\ resultNormalizedScoreList' = <<>>

ScoreNext ==
  \/ Normalize \/ GuestAnswers \/ GuestHasNone \/ GuestTraps
  \/ MapToNodeScoreList \/ CopyScores \/ SizeMismatch \/ ScoresTaken

ScoreSpec == ScoreInit /\ [][ScoreNext]_scoreVars

-----------------------------------------------------------------------------
(* The types of the variables.                                             *)
ScoreTypeOK ==
  /\ nodes \in Seq(Node)
  /\ scores \in Seq(NodeScore) /\ Len(scores) = Len(nodes)
  /\ phase \in {"idle", "scored", "answered", "listed", "normalized", "panicked"}
  /\ DOMAIN answer \subseteq Node
  /\ resultNormalizedScoreList \in Seq(NodeScore)

(* The names of the nodes the framework passed.                            *)
Nodes == {nodes[i] : i \in DOMAIN nodes}

(* What comes out of NormalizeScore is the guest's answer, name by name,   *)
(* whatever the order of the map: each of its names once, with the score   *)
(* it has there, and no other.  Without an answer each node stays where it *)
(* was.                                                                    *)
ScoresAsAnswered ==
  phase = "normalized" =>
    IF answer = NoAnswer
    THEN \A i \in DOMAIN nodes : scores[i].Name = nodes[i]
    ELSE /\ \A i, j \in DOMAIN scores :
              scores[i].Name = scores[j].Name => i = j
         /\ {scores[i].Name : i \in DOMAIN scores} = DOMAIN answer
         /\ \A i \in DOMAIN scores : scores[i].Score = answer[scores[i].Name]

(* The scheduler does not go on with an answer that leaves a node out,     *)
(* unless it names something that is not a node in its place: the handler  *)
(* compares the sizes only.                                                *)
AllOrNothing ==
  phase = "normalized" /\ DOMAIN answer \subseteq Nodes
    => DOMAIN answer \in {{}, Nodes}

=============================================================================
