------------------------------- MODULE SkillFlow -------------------------------
(***************************************************************************)
(* The states of the skill from Init to Conversation, with the partial       *)
(* states they include, while users enter, leave and answer in one language  *)
(* or another.  The Furhat runtime is external: handlers run one at a time,  *)
(* what a called state (a question) does not handle goes to its caller, and  *)
(* a goto leaves both.                                                       *)
(***************************************************************************)
EXTENDS Personality

CONSTANTS Users,       \* people who can come in front of the robot, MAX_NUMBER_OF_USERS
          Languages,   \* some of SUPPORTED_LANGUAGES
          Answers      \* answers given to a question of the test

ASSUME FlowAssumption == /\ Answers \subseteq Scale
                         /\ {"italian", "spanish"} \subseteq Languages

VARIABLES state,        \* current state of the flow
          asking,       \* the called state: a yes-no question, one of the test, or none
          present,      \* users in front of the robot
          attended,     \* the user the robot looks at
          virtual,      \* furhat.isVirtual()
          language,     \* Localization.lastLanguage
          question, questionsToAsk, responses,   \* the locals of TestCore
          user, furhat,   \* clientPersonality and furhatPersonality of Conversation
          refused       \* those present who were there when the dialogue was refused

userVars == <<present, attended, virtual, refused>>
loopVars == <<question, questionsToAsk>>
testVars == <<loopVars, responses>>
idleVars == <<state, asking, loopVars, attended, user, furhat>>
vars == <<state, asking, userVars, language, testVars, user, furhat>>

Nobody    == "nobody"
NoVector  == <<>>
NoAnswers == [q \in {} |-> 0]
Dialogue  == {"Greeting", "TestStart", "TestCore", "TestSkip"}

YesNoQuestions == {"intro_furhat", "ready_for_questions", "ready_to_start"}

Init == /\ state = "Init"
        /\ asking = "none"
        /\ present \in SUBSET Users
        /\ attended = Nobody
        /\ virtual \in BOOLEAN
        /\ language = "italian"
        /\ question = 0
        /\ questionsToAsk = {}
        /\ responses = NoAnswers
        /\ user = NoVector
        /\ furhat = NoVector
        /\ refused = {}

GotoGreeting == state' = "Greeting" /\ asking' = "intro_furhat"

GotoIdle == /\ state' = "Idle"
            /\ asking' = "none"
            /\ question' = 0
            /\ questionsToAsk' = {}
            /\ attended' = Nobody
            /\ user' = NoVector
            /\ furhat' = NoVector

(* Init: a virtual robot talks to nobody in particular.                      *)
Start ==
    /\ state = "Init"
    /\ \/ virtual /\ GotoGreeting /\ UNCHANGED <<attended, loopVars, user, furhat>>
       \/ ~virtual /\ attended' \in present /\ GotoGreeting /\ UNCHANGED <<loopVars, user, furhat>>
       \/ ~virtual /\ present = {} /\ GotoIdle
    /\ UNCHANGED <<present, virtual, refused, language, responses>>

UserEnters(u) ==
    /\ state # "Init"
    /\ u \notin present
    /\ present' = present \cup {u}
    /\ \/ state = "Idle" /\ attended' = u /\ GotoGreeting
       \/ /\ state # "Idle"
          /\ attended' = IF attended = Nobody THEN u ELSE attended
          /\ UNCHANGED <<state, asking>>
    /\ UNCHANGED <<virtual, refused, language, testVars, user, furhat>>

(* Slip: the dialogue ends when the user it is with leaves.                  *)
AttendedUserLeaves(u) ==
    /\ state # "Init"
    /\ u \in present
    /\ present' = present \ {u}
    /\ \/ state # "Idle" /\ attended = u /\ GotoIdle
       \/ (state = "Idle" \/ attended # u) /\ UNCHANGED idleVars
    /\ refused' = refused \ {u}
    /\ UNCHANGED <<virtual, language, responses>>

(* Slip: the robot glances at whoever leaves, even at the one it looks at.   *)
UserLeavesAtAGlance(u) ==
    /\ state # "Init"
    /\ u \in present
    /\ present' = present \ {u}
    /\ \/ state # "Idle" /\ present' = {} /\ GotoIdle
       \/ (state = "Idle" \/ present' # {}) /\ UNCHANGED idleVars
    /\ refused' = refused \ {u}
    /\ UNCHANGED <<virtual, language, responses>>

(* The handler of BaseWOCatchAll, which Idle does not include.               *)
UserLeaves(u) ==
    /\ state # "Init"
    /\ u \in present
    /\ present' = present \ {u}
    /\ \/ state # "Idle" /\ present' = {} /\ GotoIdle
       \/ /\ state # "Idle" /\ present' # {}
          /\ attended' \in IF attended = u THEN present' ELSE {attended}
          /\ UNCHANGED <<state, asking, loopVars, user, furhat>>
       \/ state = "Idle" /\ UNCHANGED idleVars
    /\ refused' = refused \ {u}
    /\ UNCHANGED <<virtual, language, responses>>

----------------------------------------------------------------------------
(* Answers.  Every handler sets the output language first.                   *)

(* Slip: a change of language starts the test anew.                          *)
AskAgainFromTheStart ==
    /\ asking # "none"
    /\ language' \in Languages
    /\ questionsToAsk' = IF state = "TestCore" THEN Questions ELSE {}
    /\ responses' = NoAnswers
    /\ UNCHANGED <<state, asking, userVars, question, user, furhat>>

(* Silence, an answer that is not understood, a change of language (reentry  *)
(* of the question) or "maybe" (Listening, and its answer is raised again).  *)
AskAgain ==
    /\ asking # "none"
    /\ language' \in Languages
    /\ UNCHANGED <<state, asking, userVars, testVars, user, furhat>>

(* TestCore.onEntry up to its first question.                                *)
StartTest == /\ questionsToAsk' = Questions
             /\ asking' = "test"
             /\ question' \in Questions
             /\ responses' = NoAnswers
         
(* onResponse<Yes> of YN, where Spanish "si" passes for Italian.             *)
AnswerYes ==
    /\ asking \in YesNoQuestions
    /\ \E l \in Languages : language' = IF l = "spanish" THEN "italian" ELSE l
    /\ \/ /\ asking = "intro_furhat"
          /\ state' = "TestStart"
          /\ asking' = "ready_for_questions"
          /\ UNCHANGED testVars
       \/ /\ asking = "ready_for_questions"
          /\ asking' = "ready_to_start"
          /\ UNCHANGED <<state, testVars>>
       \/ /\ asking = "ready_to_start"
          /\ state' = "TestCore"
          /\ StartTest
    /\ UNCHANGED <<present, attended, virtual, refused, user, furhat>>

AnswerNo ==
    /\ asking \in YesNoQuestions
    /\ language' \in Languages
    /\ \/ /\ asking = "intro_furhat"
          /\ GotoIdle
          /\ refused' = present
       \/ /\ asking # "intro_furhat"
          /\ state' = "TestSkip"
          /\ asking' = "none"
          /\ UNCHANGED <<attended, refused, loopVars, user, furhat>>
    /\ UNCHANGED <<present, virtual, responses>>

(* Conversation(vector) through TestEnd; Random decides on the mirror.       *)
Converse(answers) ==
    /\ state' = "Conversation"
    /\ asking' = "none"
    /\ question' = 0
    /\ user' = ComputePersonality(answers)
    /\ furhat' \in {user', symmetricVector(user')}

SkipTest ==
    /\ state = "TestSkip"
    /\ Converse(NoAnswers)
    /\ responses' = NoAnswers
    /\ UNCHANGED <<userVars, language, questionsToAsk>>

(* textAnswerToNum: the answer is looked up among those of lastLanguage.     *)
textAnswerToNum(answer, spokenIn, lastLanguage) ==
    IF spokenIn = lastLanguage THEN answer ELSE 0

(* Slip: the number is looked up before the language is changed.             *)
HearBeforeChange(answer, spokenIn) ==
    /\ language' = spokenIn
    /\ responses' = [q \in DOMAIN responses \cup {question} |->
                        IF q = question THEN textAnswerToNum(answer, spokenIn, language)
                                      ELSE responses[q]]

(* onResponse<PersonalityTestAnswers> of AskTestQuestion.  It does not look  *)
(* at who spoke: anyone in front of the robot may give the answer.           *)
Hear(answer, spokenIn) ==
    /\ language' = spokenIn
    /\ responses' = [q \in DOMAIN responses \cup {question} |->
                        IF q = question THEN textAnswerToNum(answer, spokenIn, language')
                                      ELSE responses[q]]

(* Slip: the question stays among those to ask.                              *)
AnswerQuestionOnceMore ==
    /\ state = "TestCore"
    /\ \E a \in Answers, l \in Languages : Hear(a, l)
    /\ questionsToAsk' \in {questionsToAsk, questionsToAsk \ {question}}
    /\ IF questionsToAsk' # {}
         THEN question' \in questionsToAsk' /\ UNCHANGED <<state, asking, user, furhat>>
         ELSE Converse(responses')
    /\ UNCHANGED userVars

(* The loop of TestCore: the response is kept, and the next question asked   *)
(* or, after the last, the conversation entered.                             *)
AnswerQuestion ==
    /\ state = "TestCore"
    /\ \E a \in Answers, l \in Languages : Hear(a, l)
    /\ questionsToAsk' = questionsToAsk \ {question}
    /\ IF questionsToAsk' # {}
         THEN question' \in questionsToAsk' /\ UNCHANGED <<state, asking, user, furhat>>
         ELSE Converse(responses')
    /\ UNCHANGED userVars

Next == \/ Start
        \/ \E u \in Users : UserEnters(u) \/ UserLeaves(u)
        \/ AskAgain \/ AnswerYes \/ AnswerNo \/ AnswerQuestion
        \/ SkipTest

Spec == Init /\ [][Next]_vars

(* The robot goes on by itself, and someone it has asked answers in the end. *)
FairSpec == /\ Spec
            /\ WF_vars(Start) /\ WF_vars(SkipTest)
            /\ WF_vars(AnswerYes \/ AnswerNo) /\ WF_vars(AnswerQuestion)
----------------------------------------------------------------------------

Vectors == {NoVector} \cup [TraitIds -> 0 .. 1080]

TypeOK == /\ state \in {"Init", "Idle", "Conversation"} \cup Dialogue
          /\ asking \in {"none", "test"} \cup YesNoQuestions
          /\ question \in Questions \cup {0}
          /\ present \subseteq Users
          /\ attended \in Users \cup {Nobody}
          /\ virtual \in BOOLEAN /\ refused \subseteq present
          /\ language \in Languages
          /\ questionsToAsk \subseteq Questions
          /\ DOMAIN responses \subseteq Questions
          /\ \A q \in DOMAIN responses : responses[q] \in Scale
          /\ user \in Vectors /\ furhat \in Vectors

(* The loop of TestCore (TestCore.kt:14-22), whatever is re-entered, repeated *)
(* or abandoned on the way: the question put is one still to ask, and        *)
(* exactly the questions no longer to ask have a response.                   *)
EachQuestionOnce ==
    state = "TestCore" => /\ question \in questionsToAsk
                          /\ DOMAIN responses = Questions \ questionsToAsk

(* The vector Conversation is entered with is the published score of the     *)
(* complete test, or the median when it was skipped, and the robot's is the  *)
(* same or, conscientiousness apart, its mirror image (PersonalityVector.kt). *)
PersonalityFollowsTheTest ==
    state = "Conversation" =>
        /\ IF responses = NoAnswers
             THEN user = median
             ELSE /\ DOMAIN responses = Questions
                  /\ \A i \in TraitIds : user[i] = TipiScore(responses, i)
        /\ \/ furhat = user
           \/ \A i \in TraitIds \ {Conscientiousness} :
                 Displacement(furhat, i) = -Displacement(user, i)

(* Out of Idle the robot looks at someone who is there (a virtual one may    *)
(* look at nobody), however users come and go (BaseWOCatchAll.kt:23-39).     *)
AttendsSomeonePresent ==
    state \notin {"Init", "Idle"} =>
        attended \in present \/ (virtual /\ attended = Nobody)

(* The robot idles only in front of people who were there when the dialogue  *)
(* was refused (Greeting.kt:24): one who came since, or was there while a    *)
(* test or a conversation broke off, is spoken to.                           *)
NobodyIsOverlooked == state = "Idle" => present \subseteq refused

(* Silence, misunderstandings and changes of language or of user do not keep *)
(* a dialogue from reaching the conversation or Idle.                        *)
DialogueGoesOn == state \in Dialogue ~> state \in {"Conversation", "Idle"}
=============================================================================
