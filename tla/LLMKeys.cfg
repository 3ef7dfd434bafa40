\* Requests are used up, so the gateway may stop.
SPECIFICATION LlmSpec
CONSTANTS
  Guests = {"u1", "u2"}
  Byok = {"openai"}
  SelfHosted = {"ollama"}
  Versions = {1}
  Secrets = {"s1"}
  LlmReqs = {"r1", "r2"}
  Capacity = 1
  MaxLlmTime = 0
  MaxLlmStarts = 0
INVARIANT EveryRequestCarriesOwn
CHECK_DEADLOCK FALSE
