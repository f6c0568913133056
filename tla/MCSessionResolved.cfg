\* An exclusion by address and no egress rule: a second lookup.
CONSTANTS
    good = good  bad = bad  odd = odd
    Nobody = Nobody  NoProxy = NoProxy
    Names <- MCNames
    Phrased <- MCPhrased
    Width <- MCWidth
    Addrs <- MCAddrs
    Answers <- MCAnswers
    Env <- MCEnv
    Confs <- MCConfs
    no_proxy = {}
    MaxBytes = 2
SPECIFICATION SSpec
INVARIANT ResolvedOnce
\* A session that ended takes no step.
CHECK_DEADLOCK FALSE
