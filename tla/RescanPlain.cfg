CONSTANTS
  p1 = p1
  p2 = p2
  album = album
  None = None
  Paths = {p1, p2}
  Folders <- MCFolders
  FolderOf <- MCFolderOf
  EmbeddedArt = {2}
  MaxVersion = 2
  MaxDisruptions = 1
  CacheEnabled = FALSE
  Flicker = TRUE
  CoverEdits = TRUE
SPECIFICATION Spec
INVARIANTS IndexFresh ArtFresh
