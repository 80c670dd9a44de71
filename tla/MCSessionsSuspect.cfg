CONSTANTS
    u = u
    c = c
    Users = {u}
    Clients = {c}
    Handlers = {h1, h2}
    Account <- MCAccount
    MaxTokens = 4
    MaxLogins = 1
    MaxAged = 1
SPECIFICATION Spec
PROPERTY SuspectedOnProof
