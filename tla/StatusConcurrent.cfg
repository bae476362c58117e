\* A pool: the tick, the sync and a request evaluate the same source at once.
CONSTANTS
  Sources = {s1}
  Sessions = {p1}
  Pool = 2
  MaxTime = 3
  Windows = {0, 2}
  DefaultWindow = 1
SPECIFICATION FairSpec
PROPERTIES SuccessNeverForgotten AgesOut Recovers
