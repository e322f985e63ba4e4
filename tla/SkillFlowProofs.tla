---------------------------- MODULE SkillFlowProofs ----------------------------
(***************************************************************************)
(* Proofs about SkillFlow, for any number of users, languages, answers and   *)
(* traits: the loop of the test, whom the robot looks at, whose answers      *)
(* count, when it idles, and the vectors the conversation is entered with.   *)
(***************************************************************************)
EXTENDS SkillFlow, FiniteSetTheorems, TLAPS

(* The score of a trait is a fold over its two questions, a recursive        *)
(* function on the subsets of a set, of which only two elements are needed.  *)
Picked(s) == CHOOSE q \in s : TRUE
Rest(s) == s \ {Picked(s)}

SumsUp(iter, score, set) ==
    iter = [s \in SUBSET set |->
              IF s = {} THEN 0 ELSE score[Picked(s)] + iter[Rest(s)]]

LEMMA PairFacts ==
  ASSUME NEW a, NEW b, a # b
  PROVE  /\ \A s \in SUBSET {a, b} : s = {} \/ s = {a} \/ s = {b} \/ s = {a, b}
         /\ {a} # {} /\ {b} # {} /\ {a, b} # {} /\ {a} # {b} /\ {a, b} # {a} /\ {a, b} # {b}
         /\ Picked({a}) = a /\ Rest({a}) = {}
         /\ Picked({b}) = b /\ Rest({b}) = {}
         /\ \/ Picked({a, b}) = a /\ Rest({a, b}) = {b}
            \/ Picked({a, b}) = b /\ Rest({a, b}) = {a}
<1>1. Picked({a}) \in {a} /\ Picked({b}) \in {b} /\ Picked({a, b}) \in {a, b}
  BY DEF Picked
<1>2. Picked({a}) = a /\ Picked({b}) = b /\ (Picked({a, b}) = a \/ Picked({a, b}) = b)
  BY <1>1
<1>3. /\ {a} \ {a} = {} /\ {b} \ {b} = {}
      /\ {a, b} \ {a} = {b} /\ {a, b} \ {b} = {a}
  OBVIOUS
<1>4. Rest({a}) = {} /\ Rest({b}) = {}
  BY <1>2, <1>3, Zenon DEF Rest
<1>5. \/ Picked({a, b}) = a /\ Rest({a, b}) = {b}
      \/ Picked({a, b}) = b /\ Rest({a, b}) = {a}
  BY <1>2, <1>3, Zenon DEF Rest
<1>6. /\ \A s \in SUBSET {a, b} : s = {} \/ s = {a} \/ s = {b} \/ s = {a, b}
      /\ {a} # {} /\ {b} # {} /\ {a, b} # {} /\ {a} # {b} /\ {a, b} # {a} /\ {a, b} # {b}
  OBVIOUS
<1> QED
  BY <1>2, <1>4, <1>5, <1>6, Zenon

(* Whatever satisfies the recursive equation adds the two scores, ...        *)
LEMMA SumOfTwo ==
  ASSUME NEW a, NEW b, a # b, NEW score \in [{a, b} -> Int],
         NEW iter, SumsUp(iter, score, {a, b})
  PROVE  iter[{a, b}] = score[a] + score[b]
<1>1. score[a] \in Int /\ score[b] \in Int
  OBVIOUS
<1>2. \A s \in SUBSET {a, b} : s # {} => iter[s] = score[Picked(s)] + iter[Rest(s)]
  BY DEF SumsUp
<1>3. iter[{}] = 0
  BY DEF SumsUp
<1>4. /\ Picked({a}) = a /\ Rest({a}) = {}
      /\ Picked({b}) = b /\ Rest({b}) = {}
      /\ \/ Picked({a, b}) = a /\ Rest({a, b}) = {b}
         \/ Picked({a, b}) = b /\ Rest({a, b}) = {a}
  BY PairFacts, Zenon
<1>5. /\ iter[{a}] = score[Picked({a})] + iter[Rest({a})]
      /\ iter[{b}] = score[Picked({b})] + iter[Rest({b})]
      /\ iter[{a, b}] = score[Picked({a, b})] + iter[Rest({a, b})]
  BY <1>2
<1>6. iter[{a}] = score[a] + iter[{}] /\ iter[{b}] = score[b] + iter[{}]
  BY <1>4, <1>5, Zenon
<1>7. iter[{a}] = score[a] /\ iter[{b}] = score[b]
  BY <1>1, <1>3, <1>6
<1>8. \/ iter[{a, b}] = score[a] + iter[{b}]
      \/ iter[{a, b}] = score[b] + iter[{a}]
  BY <1>4, <1>5, Zenon
<1> QED
  BY <1>1, <1>7, <1>8

(* ... and something satisfies it: the table of its values.                  *)
LEMMA SumExists ==
  ASSUME NEW a, NEW b, a # b, NEW score \in [{a, b} -> Int]
  PROVE  \E iter : SumsUp(iter, score, {a, b})
<1> DEFINE table == [s \in SUBSET {a, b} |-> IF s = {} THEN 0
                                             ELSE IF s = {a} THEN score[a]
                                             ELSE IF s = {b} THEN score[b]
                                             ELSE score[a] + score[b]]
<1>1. /\ table[{}] = 0 /\ table[{a}] = score[a] /\ table[{b}] = score[b]
      /\ table[{a, b}] = score[a] + score[b]
  BY PairFacts
<1>2. score[a] \in Int /\ score[b] \in Int
  OBVIOUS
<1> HIDE DEF table
<1>3. table[{a}] = score[a] + table[{}] /\ table[{b}] = score[b] + table[{}]
  BY <1>1, <1>2
<1>4. /\ table[{a, b}] = score[a] + table[{b}]
      /\ table[{a, b}] = score[b] + table[{a}]
  BY <1>1, <1>2
<1>5. \A s \in SUBSET {a, b} :
         table[s] = IF s = {} THEN 0 ELSE score[Picked(s)] + table[Rest(s)]
  <2>1. table[{a}] = score[Picked({a})] + table[Rest({a})]
    BY <1>3, PairFacts, Zenon
  <2>2. table[{b}] = score[Picked({b})] + table[Rest({b})]
    BY <1>3, PairFacts, Zenon
  <2>3. table[{a, b}] = score[Picked({a, b})] + table[Rest({a, b})]
    BY <1>4, PairFacts, Zenon
  <2> SUFFICES ASSUME NEW s \in SUBSET {a, b}
               PROVE  table[s] = IF s = {} THEN 0 ELSE score[Picked(s)] + table[Rest(s)]
    OBVIOUS
  <2>4. s = {} \/ s = {a} \/ s = {b} \/ s = {a, b}
    BY PairFacts, Zenon
  <2> QED
    BY <1>1, <2>1, <2>2, <2>3, <2>4, PairFacts, Zenon
<1>6. SumsUp(table, score, {a, b})
  BY <1>5 DEF SumsUp, table
<1> QED
  BY <1>6

(* MapThenSumSet, unfolded for the two questions of a trait.                 *)
LEMMA ScoreOfTwo ==
  ASSUME NEW answers, NEW a, NEW b, a # b,
         Scored(a, answers[a]) \in Int, Scored(b, answers[b]) \in Int
  PROVE  MapThenSumSet(LAMBDA q : Scored(q, answers[q]), {a, b})
            = Scored(a, answers[a]) + Scored(b, answers[b])
<1> DEFINE score == [q \in {a, b} |-> Scored(q, answers[q])]
           Unfolded(iter) == iter = [s \in SUBSET {a, b} |->
                     IF s = {} THEN 0
                     ELSE Scored(CHOOSE q \in s : TRUE, answers[CHOOSE q \in s : TRUE])
                            + iter[s \ {CHOOSE q \in s : TRUE}]]
           sums == CHOOSE iter : Unfolded(iter)
<1>1. MapThenSumSet(LAMBDA q : Scored(q, answers[q]), {a, b}) = sums[{a, b}]
  BY DEF MapThenSumSet, MapThenFoldSet
<1>2. \A s \in SUBSET {a, b} : s # {} =>
         score[Picked(s)] = Scored(Picked(s), answers[Picked(s)])
  BY DEF Picked
<1>3. \A iter : SumsUp(iter, score, {a, b}) <=> Unfolded(iter)
  BY <1>2 DEF SumsUp, Picked, Rest
<1>4. score \in [{a, b} -> Int]
  OBVIOUS
<1>5. score[a] = Scored(a, answers[a]) /\ score[b] = Scored(b, answers[b])
  OBVIOUS
<1> HIDE DEF score, Unfolded
<1>6. Unfolded(sums)
  BY <1>3, <1>4, SumExists
<1>7. SumsUp(sums, score, {a, b})
  BY <1>3, <1>6
<1> HIDE DEF sums
<1>8. \A iter : SumsUp(iter, score, {a, b}) => iter[{a, b}] = score[a] + score[b]
  BY <1>4, SumOfTwo, Zenon
<1>9. sums[{a, b}] = score[a] + score[b]
  BY <1>7, <1>8, Zenon
<1> QED
  BY <1>1, <1>5, <1>9, Zenon

LEMMA MedianBounds == /\ median \in [TraitIds -> 444 .. 540]
                      /\ stdDev \in [TraitIds -> 107 .. 145]
<1> SUFFICES ASSUME NEW i \in TraitIds
             PROVE  /\ <<444, 523, 540, 483, 538>>[i] \in 444 .. 540
                    /\ <<145, 111, 132, 142, 107>>[i] \in 107 .. 145
  BY DEF median, stdDev
<1>1. i = 1 \/ i = 2 \/ i = 3 \/ i = 4 \/ i = 5
  BY TraitsAssumption DEF TraitIds
<1> QED
  BY <1>1

(* groupBy puts exactly two questions to a trait, one of them reversed.      *)
LEMMA QuestionsOfTrait ==
  ASSUME NEW i \in TraitIds
  PROVE  /\ i \in Questions /\ i + Traits \in Questions /\ i # i + Traits
         /\ {q \in Questions : q % Traits = i % Traits} = {i, i + Traits}
         /\ \/ i % 2 = 1 /\ (i + Traits) % 2 = 0
            \/ i % 2 = 0 /\ (i + Traits) % 2 = 1
<1> USE DEF Questions, TraitIds
<1>1. CASE Traits = 1
  BY <1>1
<1>2. CASE Traits = 3
  BY <1>2
<1>3. CASE Traits = 5
  BY <1>3
<1> QED
  BY <1>1, <1>2, <1>3, TraitsAssumption

(* For every one of the complete tests the code computes the published score *)
(* (ComputePersonalityUseCase.kt): grouping, fold, average and reversal.      *)
THEOREM CompleteTestScore ==
  ASSUME NEW answers \in [Questions -> Scale], NEW i \in TraitIds
  PROVE  /\ computePersonalityVector(answers)[i] = TipiScore(answers, i)
         /\ TipiScore(answers, i) \in 100 .. 700
<1> DEFINE j == i + Traits
           group == {q \in DOMAIN answers : q % Traits = i % Traits}
<1>1. i \in Questions /\ j \in Questions /\ i # j /\ group = {i, j}
  BY QuestionsOfTrait
<1>2. answers[i] \in 1 .. 7 /\ answers[j] \in 1 .. 7
  BY <1>1 DEF Scale
<1>3. Cardinality({i, j}) = 2
  <2>1. {i, j} = {i} \cup {j} /\ j \notin {i}
    BY <1>1
  <2>2. IsFiniteSet({i}) /\ Cardinality({i}) = 1
    BY FS_Singleton
  <2>3. Cardinality({i} \cup {j}) = Cardinality({i}) + 1
    BY <2>1, <2>2, FS_AddElement
  <2> QED
    BY <2>1, <2>2, <2>3
<1>4. MapThenSumSet(LAMBDA q : Scored(q, answers[q]), {i, j})
         = Scored(i, answers[i]) + Scored(j, answers[j])
  <2>1. Scored(i, answers[i]) \in Int /\ Scored(j, answers[j]) \in Int
    BY <1>2 DEF Scored
  <2> HIDE DEF j
  <2> QED
    BY <1>1, <2>1, ScoreOfTwo, Zenon
<1>5. computePersonalityVector(answers)[i]
         = (100 * (Scored(i, answers[i]) + Scored(j, answers[j]))) \div 2
  BY <1>1, <1>3, <1>4 DEF computePersonalityVector
<1>6. Scored(i, answers[i]) + Scored(j, answers[j])
         = answers[DirectQuestion[i]] + 8 - answers[ReversedQuestion[i]]
  <2>1. (i % 2 = 1 /\ j % 2 = 0) \/ (i % 2 = 0 /\ j % 2 = 1)
    BY QuestionsOfTrait
  <2>2. /\ DirectQuestion[i] = IF i % 2 = 1 THEN i ELSE j
        /\ ReversedQuestion[i] = IF i % 2 = 1 THEN j ELSE i
    BY DEF DirectQuestion, ReversedQuestion
  <2> HIDE DEF j
  <2> QED
    BY <1>2, <2>1, <2>2 DEF Scored
<1>7. Scored(i, answers[i]) + Scored(j, answers[j]) \in 2 .. 14
  BY <1>2, QuestionsOfTrait DEF Scored
<1> QED
  BY <1>5, <1>6, <1>7 DEF TipiScore

(* The mirror of a vector is displaced as far to the other side.             *)
LEMMA MirrorIsOpposite ==
  ASSUME NEW v \in [TraitIds -> Int], NEW i \in TraitIds \ {Conscientiousness}
  PROVE  Displacement(symmetricVector(v), i) = -Displacement(v, i)
<1>1. symmetricVector(v)[i] = 2 * median[i] - v[i]
  BY DEF symmetricVector
<1> QED
  BY <1>1, MedianBounds DEF Displacement

LEMMA MirrorRange ==
  ASSUME NEW v \in [TraitIds -> 0 .. 700]
  PROVE  symmetricVector(v) \in [TraitIds -> 0 .. 1080]
<1>1. ASSUME NEW i \in TraitIds PROVE symmetricVector(v)[i] \in 0 .. 1080
  <2>1. 2 * median[i] \in 0 .. 1080 /\ 2 * median[i] - v[i] \in 0 .. 1080
    <3> DEFINE Medians == 444 .. 540
               Scores  == 0 .. 700
               Mirrors == 0 .. 1080
    <3>1. median[i] \in Medians /\ v[i] \in Scores
      BY MedianBounds
    <3>2. \A m \in Medians, n \in Scores : 2 * m \in Mirrors /\ 2 * m - n \in Mirrors
      OBVIOUS
    <3> HIDE DEF Medians, Scores, Mirrors
    <3>3. 2 * median[i] \in Mirrors /\ 2 * median[i] - v[i] \in Mirrors
      BY <3>1, <3>2, Zenon
    <3> QED
      BY <3>3, Zenon DEF Mirrors
  <2> QED
    BY <2>1 DEF symmetricVector
<1> QED
  BY <1>1 DEF symmetricVector

(* What Conversation can be entered with.                                    *)
LEMMA VectorsOfTest ==
  ASSUME NEW answers, answers = NoAnswers \/ answers \in [Questions -> Scale],
         NEW v, v = ComputePersonality(answers)
  PROVE  /\ v \in [TraitIds -> 0 .. 700]
         /\ symmetricVector(v) \in [TraitIds -> 0 .. 1080]
         /\ answers = NoAnswers => v = median
         /\ answers # NoAnswers => \A i \in TraitIds : v[i] = TipiScore(answers, i)
<1>1. DOMAIN NoAnswers = {} /\ 1 \in Questions
  BY TraitsAssumption DEF NoAnswers, Questions
<1>2. ASSUME answers = NoAnswers
      PROVE  v = median /\ v \in [TraitIds -> 0 .. 700]
  <2>1. v = median
    BY <1>1, <1>2 DEF ComputePersonality
  <2> QED
    BY <2>1, MedianBounds DEF median
<1>3. ASSUME answers \in [Questions -> Scale]
      PROVE  /\ v \in [TraitIds -> 0 .. 700] /\ answers # NoAnswers
             /\ \A i \in TraitIds : v[i] = TipiScore(answers, i)
  <2>1. v = computePersonalityVector(answers) /\ answers # NoAnswers
    BY <1>1, <1>3 DEF ComputePersonality
  <2>2. \A i \in TraitIds : v[i] = TipiScore(answers, i) /\ v[i] \in 100 .. 700
    BY <1>3, <2>1, CompleteTestScore
  <2>3. v = [i \in TraitIds |-> v[i]]
    BY <2>1 DEF computePersonalityVector
  <2>4. v \in [TraitIds -> 0 .. 700]
    BY <2>2, <2>3
  <2> QED
    BY <2>1, <2>2, <2>4
<1>4. v \in [TraitIds -> 0 .. 700]
  BY <1>2, <1>3
<1>5. symmetricVector(v) \in [TraitIds -> 0 .. 1080]
  BY <1>4, MirrorRange
<1> QED
  BY <1>2, <1>3, <1>4, <1>5
----------------------------------------------------------------------------

(* Which question can be open in which state.  Without it an answer could    *)
(* come in Idle, or a yes in the middle of the test.                         *)
QuestionFitsState ==
    /\ state \in {"Init", "Idle", "TestSkip", "Conversation"} => asking = "none"
    /\ state = "TestCore" => asking = "test"

(* One step per action, here and below.                                      *)
LEMMA QuestionFitsStateKept ==
  ASSUME QuestionFitsState, [Next]_vars
  PROVE  QuestionFitsState'
<1> USE DEF QuestionFitsState, YesNoQuestions,
            userVars, testVars, loopVars
<1>1. CASE Start
  BY <1>1 DEF Start, GotoGreeting, GotoIdle
<1>2. ASSUME NEW u \in Users, UserEnters(u) PROVE QuestionFitsState'
  BY <1>2 DEF UserEnters, GotoGreeting
<1>3. ASSUME NEW u \in Users, UserLeaves(u) PROVE QuestionFitsState'
  BY <1>3 DEF UserLeaves, GotoIdle, idleVars
<1>4. CASE AskAgain
  BY <1>4 DEF AskAgain
<1>5. CASE AnswerYes
  BY <1>5 DEF AnswerYes, StartTest
<1>6. CASE AnswerNo
  BY <1>6 DEF AnswerNo, GotoIdle
<1>7. CASE SkipTest
  BY <1>7 DEF SkipTest, Converse
<1>8. CASE AnswerQuestion
  BY <1>8 DEF AnswerQuestion, Hear, Converse
<1>9. CASE UNCHANGED vars
  BY <1>9 DEF vars
<1> QED
  BY <1>1, <1>2, <1>3, <1>4, <1>5, <1>6, <1>7, <1>8, <1>9 DEF Next

(* The loop never goes beyond the questions of the test.                     *)
LoopInv == /\ EachQuestionOnce
           /\ state = "TestCore" => questionsToAsk \subseteq Questions

(* The question answered leaves the questions to ask as it gets its response. *)
LEMMA LoopKept ==
  ASSUME QuestionFitsState, LoopInv, [Next]_vars
  PROVE  LoopInv'
<1> USE DEF QuestionFitsState, LoopInv, EachQuestionOnce, YesNoQuestions,
            NoAnswers, userVars, testVars, loopVars
<1>1. CASE Start
  BY <1>1 DEF Start, GotoGreeting, GotoIdle
<1>2. ASSUME NEW u \in Users, UserEnters(u) PROVE LoopInv'
  BY <1>2 DEF UserEnters, GotoGreeting
<1>3. ASSUME NEW u \in Users, UserLeaves(u) PROVE LoopInv'
  BY <1>3 DEF UserLeaves, GotoIdle, idleVars
<1>4. CASE AskAgain
  BY <1>4 DEF AskAgain
<1>5. CASE AnswerYes
  BY <1>5 DEF AnswerYes, StartTest
<1>6. CASE AnswerNo
  BY <1>6 DEF AnswerNo, GotoIdle
<1>7. CASE SkipTest
  BY <1>7 DEF SkipTest, Converse
<1>8. CASE AnswerQuestion
  BY <1>8 DEF AnswerQuestion, Hear, Converse
<1>9. CASE UNCHANGED vars
  BY <1>9 DEF vars
<1> QED
  BY <1>1, <1>2, <1>3, <1>4, <1>5, <1>6, <1>7, <1>8, <1>9 DEF Next

(* Until Init is left nobody is looked at.                                   *)
AttendanceInv == AttendsSomeonePresent /\ (state = "Init" => attended = Nobody)

(* The robot turns to somebody else before it is left looking at no one.     *)
LEMMA AttendanceKept ==
  ASSUME QuestionFitsState, AttendanceInv, [Next]_vars
  PROVE  AttendanceInv'
<1> USE DEF QuestionFitsState, AttendanceInv, AttendsSomeonePresent, YesNoQuestions,
            userVars, testVars, loopVars
<1>1. CASE Start
  BY <1>1 DEF Start, GotoGreeting, GotoIdle
<1>2. ASSUME NEW u \in Users, UserEnters(u) PROVE AttendanceInv'
  BY <1>2 DEF UserEnters, GotoGreeting
<1>3. ASSUME NEW u \in Users, UserLeaves(u) PROVE AttendanceInv'
  BY <1>3 DEF UserLeaves, GotoIdle, idleVars
<1>4. CASE AskAgain
  BY <1>4 DEF AskAgain
<1>5. CASE AnswerYes
  BY <1>5 DEF AnswerYes, StartTest
<1>6. CASE AnswerNo
  BY <1>6 DEF AnswerNo, GotoIdle
<1>7. CASE SkipTest
  BY <1>7 DEF SkipTest, Converse
<1>8. CASE AnswerQuestion
  BY <1>8 DEF AnswerQuestion, Hear, Converse
<1>9. CASE UNCHANGED vars
  BY <1>9 DEF vars
<1> QED
  BY <1>1, <1>2, <1>3, <1>4, <1>5, <1>6, <1>7, <1>8, <1>9 DEF Next

(* Nobody is left in Idle but by a refusal.                                  *)
LEMMA RefusalKept ==
  ASSUME QuestionFitsState, NobodyIsOverlooked, [Next]_vars
  PROVE  NobodyIsOverlooked'
<1> USE DEF QuestionFitsState, NobodyIsOverlooked, YesNoQuestions,
            userVars, testVars, loopVars
<1>1. CASE Start
  BY <1>1 DEF Start, GotoGreeting, GotoIdle
<1>2. ASSUME NEW u \in Users, UserEnters(u) PROVE NobodyIsOverlooked'
  BY <1>2 DEF UserEnters, GotoGreeting
<1>3. ASSUME NEW u \in Users, UserLeaves(u) PROVE NobodyIsOverlooked'
  BY <1>3 DEF UserLeaves, GotoIdle, idleVars
<1>4. CASE AskAgain
  BY <1>4 DEF AskAgain
<1>5. CASE AnswerYes
  BY <1>5 DEF AnswerYes, StartTest
<1>6. CASE AnswerNo
  BY <1>6 DEF AnswerNo, GotoIdle
<1>7. CASE SkipTest
  BY <1>7 DEF SkipTest, Converse
<1>8. CASE AnswerQuestion
  BY <1>8 DEF AnswerQuestion, Hear, Converse
<1>9. CASE UNCHANGED vars
  BY <1>9 DEF vars
<1> QED
  BY <1>1, <1>2, <1>3, <1>4, <1>5, <1>6, <1>7, <1>8, <1>9 DEF Next

IInv == /\ QuestionFitsState /\ LoopInv
        /\ AttendanceInv /\ NobodyIsOverlooked

LEMMA IInvHolds == Spec => []IInv
<1>1. Init => IInv
  BY DEF Init, IInv, QuestionFitsState, LoopInv, EachQuestionOnce, AttendanceInv,
         AttendsSomeonePresent, NobodyIsOverlooked
<1>2. IInv /\ [Next]_vars => IInv'
  BY QuestionFitsStateKept, LoopKept, AttendanceKept, RefusalKept DEF IInv
<1> QED
  BY <1>1, <1>2, PTL DEF Spec

(* In whatever order the questions come and whatever is asked again, each is *)
(* answered exactly once (TestCore.kt:14-22).                                *)
THEOREM EachQuestionIsAskedOnce == Spec => []EachQuestionOnce
  BY IInvHolds, PTL DEF IInv, LoopInv

(* However many users come and go, the robot looks at one who is there       *)
(* (BaseWOCatchAll.kt:23-39).                                                *)
THEOREM RobotLooksAtSomeone == Spec => []AttendsSomeonePresent
  BY IInvHolds, PTL DEF IInv, AttendanceInv

(* The robot idles only in front of those who were there at a refusal        *)
(* (Greeting.kt:24), whoever came, left or was asked since.                  *)
THEOREM IdleOnlyAfterRefusal == Spec => []NobodyIsOverlooked
  BY IInvHolds, PTL DEF IInv
----------------------------------------------------------------------------
(* The types, and the vectors the conversation is entered with.              *)

PlaceTypes == /\ state \in {"Init", "Idle", "Conversation"} \cup Dialogue
              /\ asking \in {"none", "test"} \cup YesNoQuestions
              /\ present \subseteq Users
              /\ attended \in Users \cup {Nobody}
              /\ language \in Languages

FlagTypes == virtual \in BOOLEAN /\ refused \subseteq present

TestTypes == /\ question \in Questions \cup {0}
             /\ questionsToAsk \subseteq Questions
             /\ DOMAIN responses \subseteq Questions
             /\ responses \in [DOMAIN responses -> Scale]

(* In Conversation the responses are those the vectors were computed from:   *)
(* of the complete test, or none.                                            *)
VectorInv ==
    /\ user \in Vectors /\ furhat \in Vectors
    /\ state = "Conversation" =>
          /\ responses = NoAnswers \/ responses \in [Questions -> Scale]
          /\ user = ComputePersonality(responses)
          /\ furhat \in {user, symmetricVector(user)}

LEMMA PlaceTypesKept ==
  ASSUME PlaceTypes, [Next]_vars
  PROVE  PlaceTypes'
<1> USE FlowAssumption DEF PlaceTypes, Dialogue, YesNoQuestions,
            userVars, testVars, loopVars
<1>1. CASE Start
  BY <1>1 DEF Start, GotoGreeting, GotoIdle
<1>2. ASSUME NEW u \in Users, UserEnters(u) PROVE PlaceTypes'
  BY <1>2 DEF UserEnters, GotoGreeting
<1>3. ASSUME NEW u \in Users, UserLeaves(u) PROVE PlaceTypes'
  BY <1>3 DEF UserLeaves, GotoIdle, idleVars
<1>4. CASE AskAgain
  BY <1>4 DEF AskAgain
<1>5. CASE AnswerYes
  BY <1>5 DEF AnswerYes, StartTest
<1>6. CASE AnswerNo
  BY <1>6 DEF AnswerNo, GotoIdle
<1>7. CASE SkipTest
  BY <1>7 DEF SkipTest, Converse
<1>8. CASE AnswerQuestion
  BY <1>8 DEF AnswerQuestion, Hear, Converse
<1>9. CASE UNCHANGED vars
  BY <1>9 DEF vars
<1> QED
  BY <1>1, <1>2, <1>3, <1>4, <1>5, <1>6, <1>7, <1>8, <1>9 DEF Next

LEMMA TestTypesKept ==
  ASSUME PlaceTypes, TestTypes, QuestionFitsState, LoopInv, [Next]_vars
  PROVE  TestTypes'
<1> USE FlowAssumption DEF TestTypes, NoAnswers, userVars, testVars, loopVars
<1>1. CASE Start
  BY <1>1 DEF Start, GotoGreeting, GotoIdle
<1>2. ASSUME NEW u \in Users, UserEnters(u) PROVE TestTypes'
  BY <1>2 DEF UserEnters, GotoGreeting
<1>3. ASSUME NEW u \in Users, UserLeaves(u) PROVE TestTypes'
  BY <1>3 DEF UserLeaves, GotoIdle, idleVars
<1>4. CASE AskAgain
  BY <1>4 DEF AskAgain
<1>5. CASE AnswerYes
  BY <1>5 DEF AnswerYes, StartTest
<1>6. CASE AnswerNo
  BY <1>6 DEF AnswerNo, GotoIdle
<1>7. CASE SkipTest
  BY <1>7 DEF SkipTest, Converse
<1>8. CASE AnswerQuestion
  <2>1. question \in Questions
    BY <1>8 DEF AnswerQuestion, LoopInv, EachQuestionOnce
  <2>2. PICK a \in Answers, l \in Languages : Hear(a, l)
    BY <1>8 DEF AnswerQuestion
  <2>3. /\ DOMAIN responses' = DOMAIN responses \cup {question}
        /\ responses' \in [DOMAIN responses \cup {question} -> Scale]
    BY <2>2 DEF Hear, textAnswerToNum
  <2>4. question' \in Questions \cup {0}
    BY <1>8 DEF AnswerQuestion, Converse
  <2> QED
    BY <1>8, <2>1, <2>3, <2>4 DEF AnswerQuestion, PlaceTypes
<1>9. CASE UNCHANGED vars
  BY <1>9 DEF vars
<1> QED
  BY <1>1, <1>2, <1>3, <1>4, <1>5, <1>6, <1>7, <1>8, <1>9 DEF Next

LEMMA FlagTypesKept ==
  ASSUME FlagTypes, [Next]_vars
  PROVE  FlagTypes'
<1> USE Zenon DEF FlagTypes, userVars
<1>1. CASE Start
  BY <1>1 DEF Start, GotoGreeting, GotoIdle
<1>2. ASSUME NEW u \in Users, UserEnters(u) PROVE FlagTypes'
  BY <1>2 DEF UserEnters, GotoGreeting
<1>3. ASSUME NEW u \in Users, UserLeaves(u) PROVE FlagTypes'
  BY <1>3 DEF UserLeaves, GotoIdle, idleVars
<1>4. CASE AskAgain
  BY <1>4 DEF AskAgain
<1>5. CASE AnswerYes
  BY <1>5 DEF AnswerYes, StartTest
<1>6. CASE AnswerNo
  BY <1>6 DEF AnswerNo, GotoIdle
<1>7. CASE SkipTest
  BY <1>7 DEF SkipTest, Converse
<1>8. CASE AnswerQuestion
  BY <1>8 DEF AnswerQuestion, Hear, Converse
<1>9. CASE UNCHANGED vars
  BY <1>9 DEF vars
<1> QED
  BY <1>1, <1>2, <1>3, <1>4, <1>5, <1>6, <1>7, <1>8, <1>9 DEF Next

LEMMA ConverseMakesVectors ==
  ASSUME NEW answers, answers = NoAnswers \/ answers \in [Questions -> Scale], Converse(answers)
  PROVE  /\ user' \in Vectors /\ furhat' \in Vectors
         /\ user' = ComputePersonality(answers)
         /\ furhat' \in {user', symmetricVector(user')}
<1> DEFINE v == ComputePersonality(answers)
<1> DEFINE Entered == [TraitIds -> 0 .. 1080]
<1>1. v \in Entered /\ symmetricVector(v) \in Entered
  <2>1. v \in [TraitIds -> 0 .. 700]
    BY VectorsOfTest
  <2>2. [TraitIds -> 0 .. 700] \subseteq Entered
    OBVIOUS
  <2> QED
    BY <2>1, <2>2, VectorsOfTest
<1>2. Vectors = {NoVector} \cup Entered
  BY DEF Vectors
<1>3. user' = v /\ furhat' \in {user', symmetricVector(user')}
  BY DEF Converse
<1> HIDE DEF v, Entered
<1>4. v \in Vectors /\ symmetricVector(v) \in Vectors
  BY <1>1, <1>2, Zenon
<1> QED
  BY <1>3, <1>4 DEF v

LEMMA VectorsKept ==
  ASSUME QuestionFitsState, LoopInv, TestTypes, TestTypes', VectorInv, [Next]_vars
  PROVE  VectorInv'
<1> USE DEF QuestionFitsState, VectorInv, YesNoQuestions,
            userVars, testVars, loopVars
<1>0. NoVector \in Vectors
  BY DEF Vectors
<1>1. CASE Start
  BY <1>0, <1>1 DEF Start, GotoGreeting, GotoIdle
<1>2. ASSUME NEW u \in Users, UserEnters(u) PROVE VectorInv'
  BY <1>0, <1>2 DEF UserEnters, GotoGreeting
<1>3. ASSUME NEW u \in Users, UserLeaves(u) PROVE VectorInv'
  BY <1>0, <1>3 DEF UserLeaves, GotoIdle, idleVars
<1>4. CASE AskAgain
  BY <1>0, <1>4 DEF AskAgain
<1>5. CASE AnswerYes
  BY <1>0, <1>5 DEF AnswerYes, StartTest
<1>6. CASE AnswerNo
  BY <1>0, <1>6 DEF AnswerNo, GotoIdle
<1>7. CASE SkipTest
  BY <1>7, ConverseMakesVectors DEF SkipTest, Converse
<1>8. CASE AnswerQuestion
  <2>1. CASE questionsToAsk' # {}
    BY <1>8, <2>1 DEF AnswerQuestion
  <2>2. CASE questionsToAsk' = {}
    <3>1. questionsToAsk = {question} /\ question \in Questions
      BY <1>8, <2>2 DEF AnswerQuestion, LoopInv, EachQuestionOnce
    <3>2. DOMAIN responses' = Questions
      BY <1>8, <3>1 DEF AnswerQuestion, Hear, LoopInv, EachQuestionOnce
    <3>3. responses' \in [Questions -> Scale]
      BY <3>2 DEF TestTypes
    <3>4. Converse(responses')
      BY <1>8, <2>2 DEF AnswerQuestion
    <3> QED
      BY <3>3, <3>4, ConverseMakesVectors
  <2> QED
    BY <2>1, <2>2
<1>9. CASE UNCHANGED vars
  BY <1>9 DEF vars
<1> QED
  BY <1>1, <1>2, <1>3, <1>4, <1>5, <1>6, <1>7, <1>8, <1>9 DEF Next

FlowInv == /\ PlaceTypes /\ FlagTypes /\ TestTypes /\ VectorInv
           /\ QuestionFitsState /\ LoopInv

LEMMA FlowInvHolds == Spec => []FlowInv
<1>1. Init => FlowInv
  <2>1. Init => PlaceTypes /\ TestTypes
    BY FlowAssumption DEF Init, PlaceTypes, TestTypes, NoAnswers
  <2>2. Init => FlagTypes
    BY Zenon DEF Init, FlagTypes
  <2>3. Init => VectorInv
    BY DEF Init, VectorInv, Vectors
  <2>4. Init => QuestionFitsState /\ LoopInv
    BY DEF Init, QuestionFitsState, LoopInv, EachQuestionOnce
  <2> QED
    BY <2>1, <2>2, <2>3, <2>4 DEF FlowInv
<1>2. FlowInv /\ [Next]_vars => FlowInv'
  <2> SUFFICES ASSUME FlowInv, [Next]_vars PROVE FlowInv'
    OBVIOUS
  <2>1. PlaceTypes' /\ FlagTypes' /\ TestTypes' /\ QuestionFitsState' /\ LoopInv'
    BY PlaceTypesKept, FlagTypesKept, TestTypesKept, QuestionFitsStateKept, LoopKept DEF FlowInv
  <2> QED
    BY <2>1, VectorsKept DEF FlowInv
<1> QED
  BY <1>1, <1>2, PTL DEF Spec

(* Whoever comes, leaves or answers, the flow stays within its states, a     *)
(* response is one of the seven of the scale (textAnswerToNum never misses   *)
(* the language, AskTestQuestion.kt), and both vectors stay in range.        *)
THEOREM FlowIsTyped == Spec => []TypeOK
<1>1. FlowInv => TypeOK
  <2> SUFFICES ASSUME FlowInv PROVE TypeOK
    OBVIOUS
  <2>1. \A q \in DOMAIN responses : responses[q] \in Scale
    BY DEF FlowInv, TestTypes
  <2> QED
    BY <2>1, Zenon DEF FlowInv, PlaceTypes, FlagTypes, TestTypes, VectorInv, TypeOK
<1> QED
  BY <1>1, FlowInvHolds, PTL

(* For each number of traits that Personality knows, the conversation is     *)
(* entered with the published score of the complete test, or the median      *)
(* after a skipped one, and with that vector or its mirror for the robot.    *)
THEOREM ConversationFollowsTheTest == Spec => []PersonalityFollowsTheTest
<1>1. FlowInv => PersonalityFollowsTheTest
  <2> SUFFICES ASSUME FlowInv, state = "Conversation" PROVE PersonalityFollowsTheTest
    BY DEF PersonalityFollowsTheTest
  <2>1. /\ responses = NoAnswers \/ responses \in [Questions -> Scale]
        /\ user = ComputePersonality(responses)
        /\ furhat = user \/ furhat = symmetricVector(user)
    BY DEF FlowInv, VectorInv
  <2>2. /\ user \in [TraitIds -> 0 .. 700]
        /\ responses = NoAnswers => user = median
        /\ responses # NoAnswers => \A i \in TraitIds : user[i] = TipiScore(responses, i)
    BY <2>1, VectorsOfTest
  <2>3. furhat = symmetricVector(user) =>
           \A i \in TraitIds \ {Conscientiousness} :
              Displacement(furhat, i) = -Displacement(user, i)
    BY <2>2, MirrorIsOpposite
  <2>4. responses # NoAnswers => DOMAIN responses = Questions
    BY <2>1
  <2> QED
    BY <2>1, <2>2, <2>3, <2>4, Zenon DEF PersonalityFollowsTheTest
<1> QED
  BY <1>1, FlowInvHolds, PTL
=============================================================================
