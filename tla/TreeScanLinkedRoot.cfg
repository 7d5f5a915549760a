CONSTANTS
  music = music
  live = live
  studio = studio
  tmp = tmp
  attic = attic
  one = one
  two = two
  three = three
  four = four
  nfo = nfo
  up = up
  shelf = shelf
  alias = alias
  Entries <- MCEntries
  Kind <- MCKind
  Inside <- MCInside
  LinkTo <- MCLinkTo
  Excluded = {tmp}
  Configs <- MCConfigs
  MaxErrors = 1
SPECIFICATION Spec
INVARIANT NoPanic
CHECK_DEADLOCK FALSE
