CONSTANTS
  c1 = c1  c2 = c2  c3 = c3  s1 = s1  s2 = s2
  Conns <- TwoConns
  Capacity = 1
  Stoppers <- OneStopper
  TlsEnabled = FALSE
  KeepAlive = TRUE
  CloseWakesAccept = TRUE
SPECIFICATION Spec
PROPERTIES StopEndsRun DestructorEnds AcceptedServed
