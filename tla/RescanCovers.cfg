CONSTANTS
  p1 = p1
  p2 = p2
  album = album
  None = None
  Paths = {p1, p2}
  Folders <- MCFolders
  FolderOf <- MCFolderOf
  EmbeddedArt = {2}
  MaxVersion = 2
  MaxDisruptions = 0
  CacheEnabled = TRUE
  Flicker = FALSE
  CoverEdits = TRUE
SPECIFICATION Spec
INVARIANT ArtFresh
