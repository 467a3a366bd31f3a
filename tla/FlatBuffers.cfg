SPECIFICATION Spec
CONSTANTS
  BufferMinAlign = 8
  MaxDepth = 4
  MaxTables = 100
  Topics <- MCTopics
  Texts <- MCTexts
  InitialSizes = {1}
  Options <- MCOptions
  Mixed <- MCMixed
  MaxObjects <- MCMaxObjects
  Damageable <- MCDamageable
  KeyLists <- MCKeyLists
  MaxCalls = 3
CHECK_DEADLOCK FALSE
INVARIANTS
  TypeOK
  ObjectsKeepTheirValue
  StoredOnce
  OnlyTheCallsCount
  FinishedBufferVerifies
  VerifiedBufferIsReadInside
