\* Safety: two browsers and two connections, of one browser after the other
\* or of both at once, with two commands and buffers that fill up.
CONSTANTS
  Browsers = {b1, b2}
  None = None
  Buffer = 2
  MaxConns = 2
  MaxCommands = 2
SYMMETRY AnyBrowser
SPECIFICATION Spec
INVARIANTS TypeOK OneRoom FramesInOrder AckAfterBoard
PROPERTY ImplementsFeed
CHECK_DEADLOCK FALSE
