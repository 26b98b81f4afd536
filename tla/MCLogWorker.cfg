SPECIFICATION Spec
CONSTANTS
  Writers = {a, main}
  Control = {main}
  Main = main
  Threads = 2
  Levels = {1, 2}
  Loggers = {1}
  Buffers = {b1, b2}
  Retries = 1
  MaxStop = 1
  MaxStream = 2
INVARIANTS
  PushSucceeds
  MessageInOnePlace
  FlushedBeforeEnd
PROPERTY MessageFlushed
CHECK_DEADLOCK FALSE
