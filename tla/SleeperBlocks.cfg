\* One thread that may resume a coroutine that awaited a timer, and another.
SPECIFICATION LockSpec
CONSTANTS
    Threads = {worker, feed}
    Contexts = {c1}
    Hubs = {ex}
INVARIANTS
    SleepersGoOn
