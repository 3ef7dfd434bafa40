\* Rows, tokens, matches and calls are used up, so the parts may stop.
SPECIFICATION PlatformSpec
CONSTANTS
  VMs = {1, 10}
  Sessions = {"c1", "c2"}
  Faults = {"boot", "nft"}
  Refs = {"r1", "r2"}
  Digests = {"d1", "d2"}
  Builders = {"b1", "b2"}
  Candidates = 2
  MaxPushes = 1
  MaxImageCrashes = 1
  Handles = {"h1", "h2"}
  Keys = {"k1", "k2"}
  Conns = {"c1", "c2"}
  Authorized = {"k1"}
  Routussy = TRUE
  MaxAttempts = 2
  MaxRestarts = 1
  People = {"p1", "p2"}
  MagicTokens = {"t1"}
  Browsers = {"b1", "b2"}
  MagicTTL = 1
  SessionTTL = 1
  MaxTime = 2
  ApiTokens <- MCTokens
  ApiKeys = {"k1"}
  ApiCmds = {"ls", "rm"}
  Reqs = {"r1", "r2"}
  Cost = 2
  Refill = 1
  Burst = 1
  IdleLimit = 2
  MaxNow = 4
  Matches = {"m1"}
  Players = {"p1", "p2", "p3"}
  Terminals = {"t1", "t2", "t3"}
  AgentCounts = {2, 4}
  ScenarioMax = 3
  MaxArenaCrashes = 1
  Guests = {"u1", "u2"}
  Byok = {"openai"}
  SelfHosted = {"ollama"}
  Versions = {1}
  Secrets = {"s1"}
  LlmReqs = {"r1", "r2"}
  Capacity = 1
  MaxLlmTime = 1
  MaxLlmStarts = 1
  MailVMs = {"v1", "v2"}
  Mailers = {"c1", "c2"}
  Senders = {"s1", "s2"}
  Addresses = {"a1"}
  InRate = 2
  OutRate = 1
  MaxUnread = 1
  MaxMails = 2
  MaxHour = 1
  MaxMailCrash = 1
  WebVMs = {1, 2}
  WebNames = {"a", "b"}
  WebUsers = {"u1", "u2"}
  Links = {"l1"}
  Visitors = {"b1"}
INVARIANTS
  NoStrayRules BaseRulesInPlace DisksAreWhole NobodyLockedOut
  RedeemedOnce AuthorityExpires RunsOnlyGoodTokens NoExtraRequests
  StartsWhenFull KeysKept MailIsWholeAndOwn MailLimitsHold
  GrantsJustified
CHECK_DEADLOCK FALSE
