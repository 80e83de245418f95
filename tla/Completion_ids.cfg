SPECIFICATION Spec
CONSTANTS
  Wires = {"live"}
  Responses <- MCCallResponse
  Payloads <- MCPayloads
  LLMRetries = 1
  RateRetries = 1
  MaxTurns = 2
  Faults = {"restart"}
INVARIANTS TextIdsUnique
