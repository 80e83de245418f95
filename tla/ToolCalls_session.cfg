SPECIFICATION CallsSpec
CONSTANTS
    Configs <- MCConfigs
    Batches <- MCBatches
    SubagentTools <- MCSubagentTools
    SubagentCalls <- MCSubagentCalls
    Workers = 2
    MaxTurns = 2
INVARIANTS RunsAuthorised ModalIsLive CommandsReachable
PROPERTIES NoRevival CancelledTurnEnds
CHECK_DEADLOCK FALSE
