\* One non-empty value per string field, two Client metadata values, two
\* calls: a move by update(), a failed or truncated dump, a partial load
\* and a change of the Client can all fall between a dump and a load.
CONSTANTS
    Tokens <- MCTokens
    Users <- MCUsers
    Passwords <- MCPasswords
    Expiries <- MCExpiries
    Metas = {m1, m2}
    MaxCalls = 2
    NoFile = NoFile
    Garbage = Garbage
    None = None
SPECIFICATION Spec
INVARIANT TypeOK
INVARIANT LoadRestoresDump
