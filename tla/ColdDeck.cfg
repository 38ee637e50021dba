CONSTANTS
  None = None
  Texts <- MCTexts
  Table = {"H", "O"}
  Inputs <- MCInputs
  Calls <- MCCalls
SPECIFICATION Spec
CHECK_DEADLOCK FALSE
INVARIANTS TypeOK CellOfTheCall SymmetryFitsTheCell MethodLinesSurvive AtomsOfTheCall
