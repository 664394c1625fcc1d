\* Every response with a body of up to four symbols (room for both tags
\* and two characters), on a new parser: the call is checked against the
\* reference definition of what a response says.
CONSTANTS
    MaxBodyLen = 4
    MaxCalls = 1
    Ips <- MCIps
    Texts <- MCTexts
    Asns <- MCAsns
    DB <- MCDB
    Garbage <- MCGarbage
    Null = Null
SPECIFICATION Spec
INVARIANT TypeOK
INVARIANT FirstCallReturnsResponseIp
