SPECIFICATION LiveSpec
CONSTANTS
  HeaderSize = 2
  MaxFrames = 3
  Lens = {0, 1, 4}
  Streams <- MCStreams
  ReadSize = 5
  UIntMod = 10
  CopiesBackward = FALSE
INVARIANTS
  TypeOK
  FramesIntact
  CursorsAgree
PROPERTIES
  StreamRefined
  AllHandled
\* The peer may close, or send nothing more.
CHECK_DEADLOCK FALSE
