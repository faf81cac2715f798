SPECIFICATION FairSpec
CONSTANTS
    live = live
    keycloak = keycloak
    Platform <- MCPlatform
    Bundled = {keycloak}
    Optional = {live}
    Account = account
    Key = {k1, k2}
    Early = {k1}
    Drawn = {d1, d2}
    Published = {shipped}
    Missing = Missing
    MaxEdits = 1
    MaxFaults = 1
INVARIANTS AppliedComplete
PROPERTIES ValuesStay SecretsSettle
