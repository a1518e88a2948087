SPECIFICATION Spec
CONSTANTS
  Browsers = {b1}
  Logins = {s1, s2}
  Requests = {r1}
  Urls = {x, y}
  ValidUrls = {x, y}
  NoUrl = NoUrl
  Home = Home
  Lifetime = 2
  EnableReturnURL = TRUE
INVARIANT ReturnsToOwnUrl
