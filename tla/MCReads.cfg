SPECIFICATION MCSpec
CONSTANTS
  Rows = {1, 2, 3}
  Keys = {1, 2}
  Lists = {"posts", "roles", "permissions", "users"}
  MaxInt = 15
  DefaultLimit = 2
  MaxLimit = 3
  RawPages <- MCRawPages
  RawLimits <- MCRawLimits
  e = e
  ss = ss
  dot = dot
  acute = acute
  Hyphen = Hyphen
  Chars = {e, ss, 0, 1, 2, 3, 4, 5, 6, 7, 8, 9}
  Runes <- MCRunes
  Fold <- MCFold
  Marks = {acute}
  MaxTitle = 6
  MaxSlugBaseLen = 5
  MaxSlugLen = 8
  MaxSlugAttempts = 12
  Itoa <- MCItoa
  NotYet = NotYet
INVARIANTS
  TypeOK
  WalksMissLittle
  SlugifyIsReference
  SlugsReadable
PROPERTIES
  PagesAgree
