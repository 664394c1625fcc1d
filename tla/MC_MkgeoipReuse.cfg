\* A parser used for two calls, as its header allows.
CONSTANTS
    MaxBodyLen = 4
    MaxCalls = 2
    Ips <- MCIps
    Texts <- MCTexts
    Asns <- MCAsns
    DB <- MCDB
    Garbage <- MCGarbage
    Null = Null
SPECIFICATION Spec
INVARIANT EveryCallReturnsResponseIp
