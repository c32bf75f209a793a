CONSTANTS
  MaxRequestLine = 4
  MaxHeader = 6
  MaxBody = 4
  Scripts <- Split
  BufferSize = 20
  KeepAliveSeconds = 5
  SplitHeads = TRUE
SPECIFICATION Spec
INVARIANT FramingExact
