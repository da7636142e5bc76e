\* As ML_Ledger, with no killed hook, under fairness.
SPECIFICATION FairSpec
CONSTANTS
    x = x  y = y  dev = dev  eve = eve
    Clones = {dev, eve}
    Devs = {dev, eve}
    Rebasers = {eve}
    Ids = {x, y}
    Replacement <- XByY
    MaxVersion = 1
    MaxHookKills = 0
PROPERTY LedgerConverges
