CONSTANTS
  None = None
  NonceTTL = 1
  CAs <- MCCAs
  Certs <- OneCard
  DisallowedPolicies = {}
  Reloaders = {x1}
  RuntimeTrust = TRUE
  Deliveries <- AnyTrust
  MaxDeliveries = 3
  AllowedResponderURLs = {}
  NonceDisabledURLs = {}
  DesignatedIssuers = {}
  AllowedResponseTimeSkew = 1
  MaxResponseThisUpdateAge = 1
  Browsers = {b1}
  Requests = {r1}
  Kinds = {"challenge", "login", "validate"}
  Sites = {"site"}
  Origins = {"site"}
  EnforceHost = TRUE
  Formats = {"web-eid:1"}
  Defects = {"none"}
  OCSPEnabled = TRUE
  AssertionsEnabled = FALSE
  Revocable = {}
  EchoingURLs = {}
  ResponderSkew = 0
  NextUpdateIn = 1
  MaxTime = 1
  MaxNonces = 1
  MaxSessions = 1
  MaxRestarts = 1
SPECIFICATION FairSpec
  
PROPERTIES NeverEmptied  EveryRequestAnswered
