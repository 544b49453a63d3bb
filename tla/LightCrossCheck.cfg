SPECIFICATION LightSpec
CONSTANTS
  Heights = {1, 2}
  Rounds = {0, 1}
  Data = {A, B}
  Times = {t1, t2}
  Requests <- MCRequests
  NoBytes = NoBytes
  Evidence = {x1, x2, x3}
  HeightOf <- MCHeightOf
  LightEv = {x3}
  MaxAgeNumBlocks = 1
  MaxAgeDuration = 7
  BlockTime = 3
  MaxHeight = 5
  MaxCrashes = 1
  MaxSize = 4
  Peers = {self, n1}
  MaxRound = 4
  x1 = x1
  x2 = x2
  x3 = x3
  sender = sender
  self = self
  n1 = n1
  n2 = n2
  NoSender = NoSender
  None = None
PROPERTY
  CrossChecked
CHECK_DEADLOCK FALSE
