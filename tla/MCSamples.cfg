SPECIFICATION Spec
CONSTANTS
  Capacity = 10
  Ticks = {1, 2, 7}
  TicksPerNs = 3
  Percentiles <- MCPercentiles
INVARIANTS
  PercentilesAreQuantiles
  ExportedCsvIsSortedAndComplete
