SPECIFICATION FairSpec
CONSTANTS
  a = a
  b = b
  Addrs = {a, b}
  Junk = Junk
  Lists <- MCLists
  MaxReloads = 2
INVARIANTS TypeOK RotationMatchesHealth MapTracksList
PROPERTIES ReloadKeepsVerdicts DeadLeaves LiveReturns
