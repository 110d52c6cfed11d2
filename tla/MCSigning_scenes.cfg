SPECIFICATION ScenesSpec
CONSTANTS
  None = None
  CAs <- MCCAs
  Certs = {}
  DisallowedPolicies = {}
  RuntimeTrust = FALSE
  AllowedResponderURLs = {"aia"}
  NonceDisabledURLs = {"aia"}
  DesignatedIssuers = {}
  AllowedResponseTimeSkew = 1
  MaxResponseThisUpdateAge = 1
  OCSPEnabled = TRUE
  ResponderSkew = 1
  Signers = {r1}
  Reloaders = {x1}
  Deliveries <- ChangingTrust
  MaxDeliveries = 3
  SigningCerts <- AllCards
  Revocable <- OneCard
  Offers <- AllOffers
  HashPreference <- SHA2Preference
  AcceptedPolicies = {"qscd"}
  Documents = {"d1", "d2"}
  AuthSerials <- Serials
  MaxTime = 6
INVARIANTS PreparedIsSound SigningAnchorNotRemoved SigningRevocationLag FinalizeIsSound 
PROPERTIES SigningAnswered
