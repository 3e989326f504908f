\* One process, one caller: the adapter used as its callers use it today.
CONSTANTS
    t1 = t1  t2 = t2  p1 = p1  p2 = p2  c1 = c1  c2 = c2  id1 = id1  id2 = id2
    NoTopic = NoTopic
    NoValue = NoValue
    Topics <- MCTopics
    ClientIds <- OneClientId
    Procs <- OneProc
    Callers <- OneCaller
    ProcOf <- OneProcOf
    MaxPartitions = 2
    MaxListRetry = 1
    MaxConfigRetry = 3
    MaxCrashes = 1
    Methods <- AllMethods
    AlterOutcomes = {"ok", "error", "raise"}
    MinRetention <- MCMinRetention
    DefaultRetention <- MCDefaultRetention
    DefaultSegmentBytes <- MCDefaultSegmentBytes
    DefaultFileDeleteMs <- MCDefaultFileDeleteMs
    ExpireInputs <- MCExpireInputs
    LimitInputs <- MCLimitInputs
SPECIFICATION Spec
VIEW MCView
INVARIANT TypeOK
INVARIANT NoSilentFragileTopic
PROPERTY ConfirmedMutationsVisible
PROPERTY CallsReturn
