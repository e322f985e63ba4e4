CONSTANT MaxTurns = 2
SPECIFICATION FairSpec
INVARIANTS TypeOK ReplySpokenOnce AnswersFitUnlessOneWasMissed LastConnectionIsClosed
PROPERTY RequestsEnd
