CONSTANTS
  k1 = k1
  k2 = k2
  Keys = {k1, k2}
  Seqs <- MCSeqs
  KEYMAP_HASH_SIZE = 2
  SAVE_LEN = 2
  Typed <- MCTyped
  Files <- MCFiles
  Heights = {5, 7}
  MaxEntries = 2
  NotFound = NotFound
SPECIFICATION Spec
INVARIANTS KeymapTypeOK FindsOldest MarksTell CleanMeansSaved
PROPERTIES ReloadOnlyAdds MoveShows
