SPECIFICATION FairSpec
CONSTANTS
  t1 = t1
  t2 = t2
  solid = solid
  shell = shell
  steel = steel
  Thread = {t1, t2}
  Point = {solid, shell}
  Name = {steel}
  Plane = {0, 1}
  Out = {0}
  Rest = 0
  Flat = 0
  Value = {0, 1}
  Rotation = Rotation
  Zero = Zero
  NoContext = NoContext
  NoState = NoState
  Material <- MCMaterial
  PlaneStress = {shell}
  Live <- MCLive
  Buildable <- MCBuildable
  Deck <- MCFewArgs
  MaxIter = 2
  MaxIncrements = 1
INVARIANTS CutbackIsClean OnlySoundCallsReturn
PROPERTIES CallsReturn
CHECK_DEADLOCK FALSE
