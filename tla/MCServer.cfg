\* Two clients, two requests in flight, one failed flush or Accept.
SPECIFICATION FairSpec
CONSTANTS
  c1 = c1
  c2 = c2
  Clients = {c1, c2}
  MaxLines <- TwoAndIdle
  MaxFaults = 1
  NoId = NoId
INVARIANTS AnswersMatch AckedIsSafe AtMostOneLateSession StoppedIsDurable
PROPERTIES StopEnds DirtyReachesDisk LinesAreAnswered
