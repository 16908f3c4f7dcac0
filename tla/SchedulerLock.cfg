SPECIFICATION FairSpec
CONSTANTS
  d1 = d1
  d2 = d2
  d3 = d3
  Daemons <- Three
  Lease = 10
  Poll = 2
  MaxLapses = 2
INVARIANT
  OneMorePerLapse
PROPERTIES
  LapsesInDrains
  Recovery
