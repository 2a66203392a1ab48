CONSTANTS
  IntMax = 7
  BatchMax = 8
  DefaultContext = 4
  CachePad = 2
  Entries <- MCEntries
  Trained <- MCTrained
  Prompts <- MCPrompts
  Limits <- MCLimits
  Pieces <- MCPieces
  Shapes <- MCShapes
  MaxGenerated = 5
  Rate = 1000
  SizeRange = 1048576
  Recordings <- MCRecordings
  WindowMs <- MCWindowMs
  ShortAudio = 2
  PerWindow = 2
  MaxSegments = 3
  Scripts <- MCScripts
  MaxTurns = 2
  Packs <- MCPacks
  Texts <- MCTexts
  StackDepth = 2
SPECIFICATION Spec
INVARIANTS
  StructuredIsShaped
