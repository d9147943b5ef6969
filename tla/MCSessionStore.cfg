\* The store under the most general client.
CONSTANTS
    Sessions = {s1, s2}
    Items = {i1, i2}
    Photos = {p1}
    Runs = {r1, r2}
    Nobody = nobody
    MaxChunks = 1
SPECIFICATION StoreSpec
SYMMETRY StoreSymmetry
INVARIANTS
    StoreTypeOK
    PhotosNeverDangle
    DeletedIsGone
    NoLiveRowsOnceProcessed
PROPERTY PhotosOutliveItems
