SPECIFICATION FairSpec
CONSTANTS
  Uids = {1, 2}
  Names = {"ada", "bob"}
  Administrator <- Account
  Handle = "root"
  Controller = 0
  None = "none"
  Scenes <- Bounds
  MaxFiles = 2
INVARIANT OneRoute
PROPERTY RenewalCatchesUp
CHECK_DEADLOCK FALSE
