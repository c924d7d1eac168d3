SPECIFICATION Spec
CONSTANTS
  Pollers = {ticker, feed}
  Catalog <- MCCatalog
  AppNames = {"Cursor.app", "NewCursor.app"}
  Lower <- MCLower
  Within <- MCWithin
  Stem <- MCStem
  Image <- MCImage
  Hint <- MCHint
  AppRoots <- MCAppRoots
  BinRoots <- MCBinRoots
  ExtensionRoot <- MCExtensionRoot
  Disks <- MCDisks
  Near <- MCNear
  MaxSymlinkDepth = 3
  CliCapacity = 2
  MetaCapacity = 1
  CacheCapacity = 2
  MaxChanges = 1
  MaxFailures = 1
  MaxPolls = 2
CHECK_DEADLOCK FALSE
INVARIANTS PackageJsonIsAuthoritative
SYMMETRY MCSymmetry
