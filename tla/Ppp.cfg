CONSTANT MaxRetries = 2
SPECIFICATION FairSpec
INVARIANTS OpenMeansOpen NobodyWaitsInVain
PROPERTY GivesUp
