SPECIFICATION AiSpec
CONSTANTS
    AiWorkers = {}
    AiServers = {a1}
    Vendors = {"anthropic"}
    MaxAttempts = 1
    Sizes = {26}
    MaxErrands = 1
CHECK_DEADLOCK FALSE
PROPERTIES QuestionSpendIsKept
