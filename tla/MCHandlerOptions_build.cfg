SPECIFICATION OptionsSpec
CONSTANTS
  Configurations <- MCConfigurations
  Options <- MCOptions
  MaxOptions = 3
INVARIANTS  OneNonceStore SigningKeyIsPublished
CHECK_DEADLOCK FALSE
