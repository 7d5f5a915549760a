CONSTANTS
  p1 = p1
  p2 = p2
  album = album
  None = None
  Paths = {p1, p2}
  Folders <- MCFolders
  FolderOf <- MCFolderOf
  EmbeddedArt = {1, 2}
  MaxVersion = 2
  MaxDisruptions = 1
  CacheEnabled = TRUE
  Flicker = FALSE
  CoverEdits = FALSE
SPECIFICATION Spec
INVARIANTS TypeOK CacheSound
PROPERTIES ReparseOnlyTouched ImplementsContract Converges
