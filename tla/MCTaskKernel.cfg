SPECIFICATION Spec
CONSTANTS
    Clients = {c1, c2}
    Intents = {i1, i2}
    Requests = {put, finish}
    Installing = {put}
    Finishing = {finish}
    MaxRevision = 2
    MaxWorld = 0
    MaxCleans = 1
    NoClient = NoClient
    Orphan = Orphan
    Nothing = Nothing
SYMMETRY EveryoneAlike
INVARIANTS
    NoLostUpdate
    AuthorityInstalled
PROPERTIES
    BuffersSurvive
    OnlyCleanStrands
    TerminalIsFinal
    ImplementsRevisionLog
