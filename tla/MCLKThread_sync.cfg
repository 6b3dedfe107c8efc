SPECIFICATION Spec
CONSTANTS
    w1 = w1
    w2 = w2
    w3 = w3
    Workers = {w1, w2, w3}
    Idle = idle
    Boot = w1
    Priority <- EqualPriority
    Quantum = 1
    Calls <- SharedCalls
    Timed = {"event", "join"}
    MaxCount = 1
INVARIANTS QueuesAgree TimersOnStack MutexHandedOn SemWaitsForPost EventReleases 
