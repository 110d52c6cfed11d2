CONSTANTS
  None = None
  NonceTTL = 1
  CAs <- MCCAs
  Certs <- OneCard
  DisallowedPolicies = {}
  Reloaders = {}
  RuntimeTrust = FALSE
  Deliveries <- StaticTrust
  MaxDeliveries = 1
  AllowedResponderURLs = {}
  NonceDisabledURLs = {}
  DesignatedIssuers = {}
  AllowedResponseTimeSkew = 1
  MaxResponseThisUpdateAge = 1
  Browsers = {b1, b2}
  Requests = {r1, r2}
  Kinds = {"challenge", "login"}
  Sites = {"site"}
  Origins = {"site"}
  EnforceHost = TRUE
  Formats = {"web-eid:1"}
  Defects = {"none"}
  OCSPEnabled = FALSE
  AssertionsEnabled = FALSE
  Revocable = {}
  EchoingURLs = {}
  ResponderSkew = 0
  NextUpdateIn = 1
  MaxTime = 3
  MaxNonces = 2
  MaxSessions = 2
  MaxRestarts = 1
SPECIFICATION Spec
SYMMETRY SymmetryBoth
INVARIANTS TypeOK AtMostOneLogin SessionBinding WithinTTL OneOwner
PROPERTIES LiveNonceKept ExpiredSwept StoreKeepsContract
