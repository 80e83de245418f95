SPECIFICATION Spec
CONSTANTS
  Wires = {"live"}
  Responses <- MCCallResponse
  Payloads <- MCPayloads
  LLMRetries = 1
  RateRetries = 1
  MaxTurns = 1
  Faults = {}
INVARIANTS AnswerShown
