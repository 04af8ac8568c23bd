SPECIFICATION Spec
CONSTANTS
  jar = jar  conf = conf  opts = opts  keep = keep
  jar1 = jar1  jar2 = jar2  conf1 = conf1  conf2 = conf2  conf3 = conf3  opts1 = opts1  mine1 = mine1
  pJar = pJar  pConf = pConf  pOpts = pOpts  pExtra = pExtra
  Key <- MCKey
  Path <- MCPath
  Where <- MCWhere
  Folder <- MCFolder
  Mods <- MCMods
  UserData <- MCUserData
  Content <- MCContent
  Own = mine1
  Listing <- MCListing
  Session = {1, 2}
  Cases <- MCCases
  MaxHarm = 1
  MaxTouch = 1
INVARIANTS RecordsBacked CompleteIsCurrent
PROPERTIES GiftsKept RunEnds LaunchEnds
CHECK_DEADLOCK FALSE
