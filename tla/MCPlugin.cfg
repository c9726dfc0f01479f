\* Sector edges
CONSTANTS
  Players = {p1, p2}
  Worlds <- EastNorth
  Coords <- Near
  None = None
\* Hooks
  HookConfs <- MCHookConfs  Builds <- MCBuilds  EngineThreads = {t1, t2}  Distances = {0, 7}
  BuiltMax = 1  DumpedAdds = 1  NoThread = noThread
\* Documents
  ItemsPerBlock = 2  MaxItems = 3  MaxAttributes = 1  AttributeNames = {k}  MadeKinds = {"element", "text"}
  LastAfterPrev = FALSE  Null = Null  Tags = {"x", "y"}  MaxDepth = 4  MaxLexemes = 5
\* Strings
  Modes <- MCDocumentModes  Files <- MCFiles  Settings <- MCSettings  IntBits = 8  LongBits = 16
SPECIFICATION PluginSpec
INVARIANTS SectorsAsDeclared StitchedAtEdge DomSound TreeAsWritten PrintedAsWritten TextAsMeant
PROPERTIES FiresOncePerEntry SendReturns KnobsIndependent ImplementsForest
CHECK_DEADLOCK FALSE
