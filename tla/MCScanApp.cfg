SPECIFICATION Spec
CONSTANTS
    Comps <- MCComps
    Worlds <- MCWorlds
    Configs <- MCConfigs
    Frameworks <- MCFrameworks
    Concurrency = 2
INVARIANT GreenIsHonestForOneTarget
INVARIANT RedIsEarned
INVARIANT DocumentAgreesWithItself
INVARIANT SilenceIsExplained
