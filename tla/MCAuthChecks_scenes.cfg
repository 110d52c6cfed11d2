CONSTANTS
  None = None
  NonceTTL = 1
  CAs <- MCCAs
  Certs <- AllCards
  DisallowedPolicies = {"mobileID"}
  Reloaders = {x1}
  RuntimeTrust = FALSE
  Deliveries <- ChangingTrust
  MaxDeliveries = 3
  AllowedResponderURLs = {"cache", "live"}
  NonceDisabledURLs = {"cache"}
  DesignatedIssuers <- SecondCA
  AllowedResponseTimeSkew = 1
  MaxResponseThisUpdateAge = 1
  Browsers = {b1}
  Requests = {r1}
  Kinds = {"challenge", "login", "validate"}
  Sites = {"site", "foreign"}
  Origins = {"site"}
  EnforceHost = TRUE
  Formats = {"web-eid:1"}
  Defects = {"none", "certificate", "signature"}
  OCSPEnabled = TRUE
  AssertionsEnabled = TRUE
  Revocable <- TwoCards
  EchoingURLs = {"live"}
  ResponderSkew = 1
  NextUpdateIn = 2
  MaxTime = 6
  MaxNonces = 2
  MaxSessions = 1
  MaxRestarts = 0
SPECIFICATION ScenesSpec
INVARIANTS RemovedAnchorNotUsed ValidWhileServed RevocationLag  AcceptedTokenIsSound
