SPECIFICATION ExtensionFairSpec
CONSTANTS
  MaxMessages = 1
  FileCount = 2
  LastVersion = 2
  Editions <- SomeEditions
  Trusts <- SomeTrusts
  Good <- GoodOnes
  MaxDiscoveries = 2
  Keys <- FourKeys
  Catalogs <- SomeCatalogs
  Wanted <- SomeReferences
  Callers = {1, 2}
INVARIANTS
  TypeOK
  ResolvedMeansStopped
  DiscoveryInv
  RegistryInv
  PassedMeansCompatible
PROPERTIES
  FirstResultStays
  EveryUseEnds
\* A behaviour ends with the use it is about.
CHECK_DEADLOCK FALSE
