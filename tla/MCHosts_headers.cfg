SPECIFICATION HostsSpec
CONSTANTS
  Symbols <- MCSymbols
  OriginLists <- MCOrigins
  Headers <- MCHeaders
  EnforceHostHeader = TRUE
  MaxHeader = 6
INVARIANTS HostCheckIsExact PassedNamesAnOrigin
