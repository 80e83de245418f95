SPECIFICATION Spec
CONSTANTS
  Wires = {"live", "buffered", "plain", "messages", "post"}
  Responses <- MCResponses
  Payloads <- MCPayloads
  LLMRetries = 1
  RateRetries = 2
  MaxTurns = 2
  Faults = {"cancel", "deaf", "restart"}
INVARIANTS AnswerExact RejectionRespected TurnsAlternate
PROPERTIES CompletionEnds
