CONSTANTS
    h1 = h1
    h2 = h2
    alice = alice
    bob = bob
    carol = carol
    channel = channel
    file1 = file1
    file2 = file2
    None = None
    Channels = {channel}
    Files = {file1}
    Clients = {h1, h2}
    Subjects = {alice, bob}
    MaxHLSSessions = 1
    MaxHLSSessionsPerSubject = 1
    MaxStarts = 3
    MaxRequests = 3
    MaxFaults = 1
SPECIFICATION FairSpec
PROPERTIES
    SessionsEnd
