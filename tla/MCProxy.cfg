SPECIFICATION Spec
CONSTANTS
  Users = {u1}
  Ids = {s1, s2}
  NoId = NoId
  UseDBC = FALSE
  Homonyms = {}
  EbsLimit = 1
  Browsers = {b1, b2}
  Requests = {r1, r2}
  Tokens <- MCTokens
  Files <- MCFiles
  Pages <- MCPages
SYMMETRY Symmetry
INVARIANTS
  TypeOK
  ForbiddenForCause
  EndedStaysOut
  ServedAsValidated
  LinksLeadBack
