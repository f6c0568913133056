\* Both protocols, with and without authentication, every combination of rules.
CONSTANTS
    good = good  bad = bad  odd = odd
    Nobody = Nobody  NoProxy = NoProxy
    Names <- MCNames
    Phrased <- MCPhrased
    Width <- MCWidth
    Addrs <- MCAddrs
    Answers <- MCAnswers
    Env <- MCEnv
    Confs <- MCConfs
    no_proxy = {}
    MaxBytes = 2
SPECIFICATION SFairSpec
INVARIANTS STypeOK EgressRespected RulesExact AuthFirst ReplyTruthful
PROPERTY SessionEnds
\* A session that ended takes no step.
CHECK_DEADLOCK FALSE
