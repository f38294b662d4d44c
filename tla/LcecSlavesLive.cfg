SPECIFICATION FairSpec
PROPERTY RequestsAreAnswered
