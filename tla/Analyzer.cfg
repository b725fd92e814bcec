SPECIFICATION AnalyzerSpec
CONSTANTS
  MaxRows = 7
  Works = {3}
  RegionWorks = {40}
  PAR_INC_COUNT = 2
  PAR_INC_INIT = 16
  PAR_INC_FACTOR = 4
  MaxWhatIfRows = 6
  Mixed = FALSE
INVARIANTS
  CriticalPathIsHeaviestChain
  DependentPathIsCovered
  PartsMakeCriticalPath
  WhatIfIsHeaviestChain
  PassesAreIndependent
  SitesAreKnown
  SitesAreConsistent
