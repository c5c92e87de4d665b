\* Three requests about data, three about settings or one of each, with crashes.
SPECIFICATION Spec
CONSTANTS
    web1 = web1
    web2 = web2
    cli = cli
    shared = shared
    own = own
    shell = shell
    openai = openai
    custom = custom
    mine = mine
    openaiKey = openaiKey
    customKey = customKey
    mineKey = mineKey
    old = old
    new = new
    url = url
    otherUrl = otherUrl
    model = model
    otherModel = otherModel
    exported = exported
    blank = blank
    cut = cut
    None = None
    Web = {web1, web2}
    Server = server
    ConnectionOf <- MCConnectionOf
    ProcessOf <- MCProcessOf
    Versions = 2
    MaxRequests = 3
    EnvKeys = {openaiKey, customKey, mineKey, github}
    Github = github
    Shell <- MCShell
    Profiles = {openai, custom, mine}
    Templates = {openai, custom}
    Custom = custom
    Example <- MCExample
    ExampleActive = openai
    Identity <- MCIdentity
    Forms <- MCForms
    Values <- MCValues
    Reads <- MCReads
    EnvAtFirst <- MCEnvAtFirst
    MaxSaves = 3
    MaxMixed = 2
INVARIANTS
    TypeOK
    SchemaIsWhole
    NobodyIsStuck
    LastSaveHolds
PROPERTIES
    ImplementsAtomicStore
    RequestsEnd
\* the number of requests is bounded
CHECK_DEADLOCK FALSE
