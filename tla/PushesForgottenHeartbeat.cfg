SPECIFICATION MCSpec
CONSTANTS
    p1 = p1
    p2 = p2
    None = None
    Pushers <- OnePusher
    Interval = 2
    Retries = 0
    e1 = e1
    e2 = e2
    n1 = n1
    n2 = n2
    a = a
    b = b
    g = g
    Nobody = Nobody
    Keys <- TwoKeys
    Names <- TwoNames
    Chosen <- TwoTokens
    Generated <- OneGenerated
    Files <- SomeFiles
    MayFail = TRUE
PROPERTY OnlySilenceIsMissed
