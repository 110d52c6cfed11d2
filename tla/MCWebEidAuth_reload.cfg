CONSTANTS
  None = None
  NonceTTL = 1
  CAs <- MCCAs
  Certs <- ExpiringCards
  DisallowedPolicies = {}
  Reloaders = {x1}
  RuntimeTrust = FALSE
  Deliveries <- ChangingTrust
  MaxDeliveries = 2
  AllowedResponderURLs = {}
  NonceDisabledURLs = {}
  DesignatedIssuers = {}
  AllowedResponseTimeSkew = 1
  MaxResponseThisUpdateAge = 1
  Browsers = {b1}
  Requests = {r1}
  Kinds = {"challenge", "login"}
  Sites = {"site"}
  Origins = {"site"}
  EnforceHost = TRUE
  Formats = {"web-eid:1"}
  Defects = {"none"}
  OCSPEnabled = TRUE
  AssertionsEnabled = FALSE
  Revocable = {}
  EchoingURLs = {}
  ResponderSkew = 0
  NextUpdateIn = 1
  MaxTime = 3
  MaxNonces = 1
  MaxSessions = 1
  MaxRestarts = 0
SPECIFICATION Spec
PROPERTY StartedCheckKeepsItsSet
