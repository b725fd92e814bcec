SPECIFICATION AnalyzerSpec
CONSTANTS
  MaxRows = 5
  Works = {3}
  RegionWorks = {40}
  PAR_INC_COUNT = 2
  PAR_INC_INIT = 16
  PAR_INC_FACTOR = 4
  MaxWhatIfRows = 0
  Mixed = FALSE
INVARIANTS PartsAlwaysMakeCriticalPath
