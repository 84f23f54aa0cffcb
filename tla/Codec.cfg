CONSTANTS
  Base = 4
  AsciiMax = 1
  Items <- Samples
  MaxItems = 3
SPECIFICATION Spec
INVARIANTS ReadsBack IndexesAgree
