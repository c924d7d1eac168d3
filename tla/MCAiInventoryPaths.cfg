SPECIFICATION MCSpec
CONSTANTS
  None = None
  ProductOf <- MCProductOf
  BundleNames = {"Chat.app", "Cursor.app"}
  EditorOf <- MCEditorOf
  ExtensionHosts = {"Extension"}
  AddrKind <- MCAddrKind
  idle = idle
  serving = serving
  exposed = exposed
  plain = plain
  custom = custom
  moved = moved
  editor = editor
  edited = edited
  coding = coding
  boxed = boxed
  stopped = stopped
  Hosts = {idle, serving, exposed, plain, custom, moved, editor, edited, coding, boxed, stopped}
  Reading <- MCReading
  Near <- MCNear
  FeedCap = 1
  MaxEvents = 2
PROPERTY CandidatePathsWake
CHECK_DEADLOCK FALSE
