SPECIFICATION FairSpec
CONSTANTS
    Clients = {c1, c2}
    Intents = {i1}
    Requests = {put, finish}
    Installing = {put}
    Finishing = {finish}
    MaxRevision = 1
    MaxWorld = 1
    MaxCleans = 0
    NoClient = NoClient
    Orphan = Orphan
    Nothing = Nothing
PROPERTIES
    EveryCallAnswered
