CONSTANTS
    Traits = 3
    Users = {u1, u2}
    Languages = {"italian", "spanish"}
    Answers = {2, 7}
SPECIFICATION FairSpec
INVARIANTS TypeOK EachQuestionOnce PersonalityFollowsTheTest AttendsSomeonePresent
           
PROPERTY DialogueGoesOn
