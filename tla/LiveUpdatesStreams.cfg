SPECIFICATION FairSpec
CONSTANTS
    k1 = k1
    k2 = k2
    c1 = c1
    c2 = c2
    s1 = s1
    s2 = s2
    s3 = s3
    ip1 = ip1
    ip2 = ip2
    None = None
    Keys <- OneKey
    Pages <- OnePage
    Watches <- WatchOne
    IPs <- OneIP
    IPOf <- SameIP
    Streams <- TwoStreams
    MaxStreams = 2
    MaxStreamsPerIP = 1
    CutsGreeting = FALSE
    Workloads <- Faults
INVARIANT NothingMissed
PROPERTY PagesGetOn
INVARIANT Consistent
