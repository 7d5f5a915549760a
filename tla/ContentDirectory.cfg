CONSTANTS
  None = None
  Names <- MCNames
  Rank <- MCRank
  ShelfRank <- MCShelfRank
  KeyOf <- MCKeyOf
  Escapes <- MCEscapes
  Cutoff = 2
  Views <- MCViews
  Disks <- MCDisks
  PageSizes = {0, 1}
  MaxUsize = 255
  Questions <- MCQuestions
  Styles <- MCStyles
SPECIFICATION Spec
INVARIANTS
  TypeOK WalkPasses MetadataAgrees PagesComplete NothingHidden ArtistsMerged
  Playable NumberedAsMeant Understood AnswersAsDescribed
PROPERTY PagesAdvance
CHECK_DEADLOCK FALSE
