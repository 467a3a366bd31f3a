SPECIFICATION Spec
CONSTANTS
  MaxDepth = 3
  Menus <- MCMenus
  Flags <- MCFlags
CHECK_DEADLOCK FALSE
INVARIANTS
  TypeOK
  ValuesKeepTheirMeaning
  FinishedBufferVerifies
  VerifiedBufferIsReadInside
