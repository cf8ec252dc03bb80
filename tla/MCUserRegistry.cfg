SPECIFICATION Spec
CONSTANTS
  Threads = {t1, t2}
  Names = {ann, bob, cid}
  Keys = {k1, k2}
  MAX_CLIENTS = 2
  None = none
INVARIANTS TypeOK NamesUnique AnswersHold ListFits
PROPERTIES RecordsImmutable
SYMMETRY Symmetry
