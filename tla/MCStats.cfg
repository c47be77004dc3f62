CONSTANTS
  Unit = 4
  Values <- MCValues
  Counts <- MCCounts
  Inputs <- MCInputs
SPECIFICATION StatsSpec
INVARIANTS StatsOrdered StatsAreSamples BucketsHold BarsFit
