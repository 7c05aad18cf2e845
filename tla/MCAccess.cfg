SPECIFICATION AccessSpec
CONSTANTS
  Calls = {c1,c2}
  MaxTokens = 4
  Browsers = {b1,b2}
  MaxChallenges = 2
  Clients = {k1}
  MaxCodes = 1
  Fragile = {2}
  RequiredResources = {brand}
  Domains = {site}
  InProcess = {}
  MaxDrawn = 4
  Behaviours <- BehavioursOf
  Order <- TokensFirst
  brand = brand
  site = site
SYMMETRY Symmetry
INVARIANT OneSignInPerChallenge
INVARIANT OneOperator
INVARIANT GrantPerConsent
INVARIANT OneProjectPerDomain
INVARIANT SealedIsIssued
PROPERTY RevokedIsClosed
PROPERTY HealthyOnPass
