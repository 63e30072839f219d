\* Nine cells and five records: the batches are of four.
CONSTANTS
  Sizes = {3}
  Limits = {5}
SPECIFICATION MatrixSpec
INVARIANTS
  AllCopied
CHECK_DEADLOCK FALSE
