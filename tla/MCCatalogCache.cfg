SPECIFICATION Spec
CONSTANTS
    Readers = {r1, r2}
    Stocks = {sold, restocked}
    MaxWrites = 1
    MaxPages = 2
SYMMETRY CacheSymmetry
INVARIANT TypeOK
PROPERTY FreshPastWrite
