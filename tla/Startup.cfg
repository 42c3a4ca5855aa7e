SPECIFICATION FairSpec
CONSTANTS
    Setups <- MCSetups
    Absent = Absent
    Loopback = {"127.0.0.1", "localhost"}
    Numerals <- MCNumerals
    PeerTexts = {"http://10.0.0.7:8112", "http://10.0.0.8:8112"}
    ConfigFiles <- MCConfigFiles
    Scenarios = {"example.json"}
    Writes = {here, there, known}
    Remote = {there, known}
    Knowing = {known}
    Service = Service
    ByHand = {byhand}
    Foreign = Foreign
    Nobody = Nobody
    Missing = Missing
    Malformed = Malformed
    MaxTrouble = 3
    here = here
    there = there
    known = known
INVARIANTS
    TypeOK
    AnsweredIsServed
    OpenOnlyOnPurpose
PROPERTIES
    ListenerIsKept
    ServesInTheEnd
CHECK_DEADLOCK FALSE
