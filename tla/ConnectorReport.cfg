SPECIFICATION ConnectSpec
CONSTANTS
    Machines = {"m1"}
    Codes = {"k1"}
    Hosts = {1}
    Spaces = {1}
    MaxFailures = 0
    MaxClicks = 0
PROPERTY EachSyncIsReported
