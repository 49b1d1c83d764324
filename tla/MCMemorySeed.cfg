CONSTANT Seeder = {s1, s2, s3}
SPECIFICATION FairSeedSpec
INVARIANT SeedTypeOK
PROPERTIES
  OnlyFirstWaveWrites
  SeedingEnds
