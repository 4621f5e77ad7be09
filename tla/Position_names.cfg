\* All 18278 names of one to three letters.
SPECIFICATION Spec

INVARIANTS
  NamesAreTheHeads
  OnlyTheTableIsValid

CHECK_DEADLOCK FALSE
