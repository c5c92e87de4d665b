\* A refresh and an inbox thread beside the imports and toggles of the server.
SPECIFICATION Spec
CONSTANTS
    source = source
    feed = feed
    creator = creator
    A = A
    B = B
    A2 = A2
    Off = Off
    a = a
    b = b
    off = off
    p = p
    None = None
    Probe = probe
    Share = share
    Route = route
    Loop = loop
    Refresh = refresh
    Observer = observer
    YamlSources = {source, feed}
    Found = {feed}
    Creators = {creator}
    Versions = {A, B, Off}
    Entries <- MCEntries
    Entry <- MCEntry
    Enabled <- MCEnabled
    Connector <- MCConnector
    Observations <- MCObservations
    FileVersion = A
    Profiles = {p}
    MaxInputs = 3
INVARIANTS
    TypeOK
    LastWordHolds
    
    PromotionIsEarned
    ProfileChangesAreSearched
CHECK_DEADLOCK FALSE
