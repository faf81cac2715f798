SPECIFICATION CacheSpec
CONSTANTS
    small = small
    other = other
    large = large
    m1 = m1
    m2 = m2
    m3 = m3
    OCI = {chart}
    HTTPS = {link}
    Version = {v1, v2}
    Archive = {small, other, large}
    Manifest = {m1, m2, m3}
    ArchiveOf <- MCArchiveOf
    Size <- MCSize
    MaxCached = 2
    None = None
    MaxPushes = 3
    MaxFetches = 3
INVARIANTS CacheOK PinnedIsExact ServesItsPlace
