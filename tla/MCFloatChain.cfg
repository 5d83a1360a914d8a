CONSTANTS
  Width <- Widths
  Weight <- Weights
  Unit = 32
  MaxExponent = 24
  Power <- Powers
  Precision <- Precisions
  Smallest <- Smallests
  Largest <- Largests
  Operands <- Corners
  MaxLength = 2
SPECIFICATION Spec
INVARIANTS TypeOK WholeNumbersSurvive RoundTrips ComparisonsFollowValues CompoundAgrees
CHECK_DEADLOCK FALSE
