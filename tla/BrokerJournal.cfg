CONSTANTS
    Request = {r1}
    NoRequest = NoRequest
    MaxLedgerRequests = 1
    MaxLedgerTransitions = 4
    MaxActiveProcesses = 1
    LineBytes = 1
    MaxLineBytes = 2
SPECIFICATION Spec
INVARIANT EveryJournalReopens
