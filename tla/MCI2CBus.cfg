CONSTANTS
  Own <- MCOwn
  Messages <- MCMessages
SPECIFICATION Spec
INVARIANTS TypeOK BitsArrive SlaveReleased PinsRequested
PROPERTIES ImplementsTransfer StableWhileHigh Returns
