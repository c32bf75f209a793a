CONSTANTS
  c1 = c1  c2 = c2  c3 = c3  s1 = s1  s2 = s2
  Conns <- ThreeConns
  Capacity = 2
  Stoppers <- TwoStoppers
  TlsEnabled = TRUE
  KeepAlive = TRUE
  CloseWakesAccept = FALSE
SPECIFICATION SafeSpec
SYMMETRY Symmetry
INVARIANTS TypeOK CountExact PoolOpenForAccepted AtMostOneLate RunReturnsStopped DestroyedServesAll
