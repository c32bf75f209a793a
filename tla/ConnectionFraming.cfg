CONSTANTS
  MaxRequestLine = 4
  MaxHeader = 6
  MaxBody = 4
  Scripts <- ThreeMessages
  BufferSize = 20
  KeepAliveSeconds = 5
  SplitHeads = FALSE
SPECIFICATION Spec
INVARIANTS TypeOK FramingExact NoAnswerOwedWhileReading NothingServedAfterClose AllDueAnswered
PROPERTIES EveryRequestAnswered ImplementsSession
