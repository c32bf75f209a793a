CONSTANTS
  c1 = c1  c2 = c2  s1 = s1  m = m
  Conns <- TwoConns
  Stoppers <- OneStopper
  Fds <- TwoFds
  Main = m
  MaxRuns = 2
  TlsEnabled = TRUE
SPECIFICATION Spec
INVARIANTS TypeOK OwnDescriptor NothingLeaks
PROPERTY BacklogServed
