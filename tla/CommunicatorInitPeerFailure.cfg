\* The system stops when every constructor has ended.
CHECK_DEADLOCK FALSE
CONSTANTS
    NRanks = 2
    Plans = {planA}
    MaxFaults = 1
SPECIFICATION FairSpec
PROPERTIES
    PeerFailureDisables
