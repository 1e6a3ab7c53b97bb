SPECIFICATION Spec
CONSTANTS
  Versions = {1}
  Rebuilds = {}
  Beside = FALSE
  MaxCrashes = 1
  MaxStops = 1
  a1 = a1
  Browser = {b1}
  Addr = {a1}
  AddrOf <- OneAddr
  Slots = {s1, s2}
  Token = {t1}
  TTL = 2
  Tolerated = 1
  InitialLockout = 2
  MaxLockout = 3
  MaxHandling = 1
  MaxTime = 4
  MaxFailures = 2
  NoRequest = NoRequest
  NoCookie = NoCookie
  NoSession = NoSession
SYMMETRY Alike
INVARIANTS LoggedOutForGood SessionSlides
 
