CONSTANTS
  MaxRequestLine = 1
  MaxHeader = 3
  MaxBody = 1
  Scripts <- AnyBytes
  BufferSize = 8
  KeepAliveSeconds = 5
  SplitHeads = TRUE
SPECIFICATION Spec
INVARIANT BufferBounded
PROPERTIES EndsAfterClient ImplementsSessionSafety
