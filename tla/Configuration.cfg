CONSTANTS
  None = None
  SetLimit = 2
  FirstRoom = 8
  MaxAttempts = 3
  MaxParts = 3
  Sections <- MCSections
  SetKeys <- MCSetKeys
  OverlayFields <- MCOverlayFields
  Geometries <- MCGeometries
  Tops <- MCTops
  Texts <- MCTexts
SPECIFICATION Spec
CHECK_DEADLOCK FALSE
INVARIANTS TypeOK DeckIsWhole SectionsAgree DecodersAgree DeckMatchesKnobs OverlayFillsDefaults
