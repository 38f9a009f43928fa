SPECIFICATION FairSpec
CONSTANTS
  n1 = n1
  n2 = n2
  A = A
  B = B
  Empty = Empty
  Nodes = {n1, n2}
  Ids = {A, B}
  ThisNode <- TwoIds
  Peers <- EachOther
  Setups <- MCSetups
  MaxQsos = 2
  MaxChan = 2
CHECK_DEADLOCK FALSE
INVARIANTS OnceInEveryLog AboveAnnounced EchoFree
PROPERTY Distributes
