\* Two business requests with the card, three with the other client, which is one
\* more than the largest answer holds; two starts; limits on both sides of both
\* bounds.
SPECIFICATION FairSpec
CONSTANTS
  r1 = r1
  r2 = r2
  r3 = r3
  Missing = Missing
  Junk = Junk
  Request = {r1, r2, r3}
  DefaultLimit = 1
  MaxLimit = 2
  Queries <- Limits
  Audiences <- ByTurns
  MaxStarts = 2
INVARIANTS AnswersCoverTraces CountersAddUp
PROPERTIES CardCatchesUp
CONSTRAINT ThirdApart
