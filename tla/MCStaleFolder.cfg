SPECIFICATION Spec
CONSTANTS
  jar = jar  conf = conf  opts = opts  keep = keep
  jar1 = jar1  jar2 = jar2  conf1 = conf1  conf2 = conf2  conf3 = conf3  opts1 = opts1  mine1 = mine1
  pJar = pJar  pConf = pConf  pOpts = pOpts  pExtra = pExtra
  Key <- MCKey
  Path <- MCPath
  Where <- MCWhere
  Folder <- MCFolder
  Mods <- MCMods
  UserData <- MCUserData
  Content <- MCContent
  Own = mine1
  Listing <- MCListing
  Session = {1}
  Cases <- TrimmedOnly
  MaxHarm = 0
  MaxTouch = 0
INVARIANTS CompleteIsManifest
CHECK_DEADLOCK FALSE
