SPECIFICATION FairSpec
CONSTANTS
    postgres = postgres
    route = route
    cron = cron
    certificate = certificate
    Chart <- MCChart
    Postgres = postgres
    Route = route
    Cron = cron
    Certificate = certificate
    PruneKinds <- MCPruneKinds
    Content = {"Expired"}
    MaxEdits = 1
    MaxFaults = 1
PROPERTIES RemovesItsOwn RemovesNothingAskedFor RoutesKeepCertificate PruneSettles
