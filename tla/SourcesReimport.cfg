\* The binding of a source changes from a to b and back.
SPECIFICATION Spec
CONSTANTS
    source = source
    feed = feed
    creator = creator
    A = A
    B = B
    A2 = A2
    Off = Off
    a = a
    b = b
    off = off
    p = p
    None = None
    Probe = probe
    Share = share
    Route = route
    Loop = loop
    Refresh = refresh
    Observer = observer
    YamlSources = {source, feed}
    Found = {feed}
    Creators = {creator}
    Versions = {A, B, A2}
    Entries <- MCEntries
    Entry <- MCEntry
    Enabled <- MCEnabled
    Connector <- MCConnector
    Observations <- MCObservations
    FileVersion = A
    Profiles = {p}
    MaxInputs = 3
PROPERTY
    ImportReplacesBinding
CHECK_DEADLOCK FALSE
