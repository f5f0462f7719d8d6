\* Registry: two isolates, two models, two row contents.  Prices: one isolate,
\* a model of the code and one of the table.  Two tasks each.
SPECIFICATION CachesSpec
CONSTANTS
    Isolates = {i1, i2}
    PricingIsolates = {i1}
    Tasks = {t1, t2}
    Models = {mimo, custom}
    BuiltIn = {mimo}
    Configs = {c1, c2}
    Absent = Absent
    Mimo = mimo
    Rates = {rate}
    DefaultRate = DefaultRate
    NoRate = NoRate
    TTL = 2
    Latency = 1
SYMMETRY Symmetry
INVARIANTS CopiesFresh BuiltInPriced
