SPECIFICATION EitherSpec
CONSTANTS
  k1 = k1
  k2 = k2
  p1 = p1
  p2 = p2
  g1 = g1
  Miss = Miss
  NoAnswer = NoAnswer
  Keys <- TwoKeys
  Putters <- TwoPutters
  Getters <- OneGetter
  Blocks = 1
  MaxFiles = 3
  r1 = r1
  r2 = r2
  r3 = r3
  Damaged = Damaged
  Nothing = Nothing
  Runs <- ThreeRuns
  Coords <- ThreeCoords
  ClassesOf <- LibClasses
  Options <- AllOptions
  Surfaces <- SomeSurfaces
  JavaTypes <- AllTypes
  InnerNames <- Inner
  Reflective <- Reflection
SYMMETRY Alike
INVARIANTS EntriesAreWhole FilesInv
INVARIANTS OnlyVerifiedIsKept ReflectsItsOwnJar CompilesAllOrNothing
INVARIANTS EveryMethodIsAccountedFor ShimIsBacked
PROPERTY ImplementsStore
