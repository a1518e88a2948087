SPECIFICATION Spec
SYMMETRY Symmetry
CONSTANTS
  Browsers = {b1, b2}
  Logins = {s1, s2}
  Requests = {r1, r2}
  Urls = {x, y}
  ValidUrls = {x}
  NoUrl = NoUrl
  Home = Home
  Lifetime = 2
  EnableReturnURL = TRUE
INVARIANTS
  TypeOK
  NotLost
  ReturnUrlOfThisBrowser
 
