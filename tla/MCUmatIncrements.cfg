SPECIFICATION Spec
CONSTANTS
  t1 = t1
  t2 = t2
  solid = solid
  shell = shell
  steel = steel
  Thread = {t1}
  Point = {solid, shell}
  Name = {steel}
  Plane = {0, 1}
  Out = {0, 1}
  Rest = 0
  Flat = 0
  Value = {0, 1}
  Rotation = Rotation
  Zero = Zero
  NoContext = NoContext
  NoState = NoState
  Material <- MCMaterial
  PlaneStress = {shell}
  Live <- MCLive
  Buildable <- MCBuildable
  Deck <- MCDeck
  MaxIter = 2
  MaxIncrements = 2
INVARIANTS UmatInv CallIsStateless
PROPERTIES StepsFollow
CHECK_DEADLOCK FALSE
