---------------------------- MODULE MC_Mkgeoip ----------------------------
EXTENDS Mkgeoip

\* One ASN in the database; an uninitialised int64_t may read 0 or not.
MCAsns == {3269}
MCGarbage == {0, 7}

\* One IP the database knows, one it does not (a miss, or a string
\* getaddrinfo() rejects).
MCIps == {"i1", "i2"}
MCTexts == {"IT", "Org"}
MCDB == [ip \in MCIps |->
            IF ip = "i1" THEN [cc |-> "IT", org |-> "Org", asn |-> 3269]
            ELSE [cc |-> Null, org |-> Null, asn |-> Null]]

=============================================================================
