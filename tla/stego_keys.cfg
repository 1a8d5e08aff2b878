\* Every run of the key generation for four cover files, each of which is a level.
SPECIFICATION Spec
CONSTANTS
  CoverCount = 4
  LevelCount = 4
INVARIANTS
  NeverSingular
  LevelsApart
