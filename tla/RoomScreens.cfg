\* The claim of docs/decisions.md that everyone is sent every change.
CONSTANTS
  Browsers = {b1, b2}
  None = None
  Buffer = 4
  MaxConns = 2
  MaxCommands = 1
SYMMETRY AnyBrowser
SPECIFICATION Spec
INVARIANT ScreensAgree
CHECK_DEADLOCK FALSE
