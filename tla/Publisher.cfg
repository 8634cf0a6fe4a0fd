SPECIFICATION Spec
PROPERTY KeepsContract
PROPERTY AnsweredSendEnds
