SPECIFICATION AcctSpec
CONSTANTS
  Handles = {"h1"}
  Keys = {"k1", "k2"}
  Conns = {"c1", "c2"}
  Authorized = {}
  Routussy = FALSE
  MaxAttempts = 1
  MaxRestarts = 0
PROPERTY LastKeyStays
