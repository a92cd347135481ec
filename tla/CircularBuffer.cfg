CONSTANTS
  N = 3
  Event = {e0, e1}
  NoEvent = e0
  WriterMod = 256
  MaxWriters = 255
SPECIFICATION Spec
INVARIANT TypeOK
PROPERTIES ImplementsDeque OkMeansSingleWriter
