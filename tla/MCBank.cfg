\* Three processes, two resources, two rounds each.
CONSTANTS
    NUM_PROCESSES = 3
    NUM_RESOURCES = 2
    Total <- MCTotal
    Maximum <- MCMaximum
    Rounds = 2
    NoThread = NoThread
SPECIFICATION FairSpec
INVARIANTS
    Accounts
    Conservation
    SafeWhenFree
    TerminalRight
PROPERTIES
    VerdictRight
    AllFinish
