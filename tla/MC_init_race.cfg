\* One process whose adapter object two threads share, init_client only: two threads initialise the same producer client_id.
CONSTANTS
    t1 = t1  t2 = t2  p1 = p1  p2 = p2  c1 = c1  c2 = c2  id1 = id1  id2 = id2
    NoTopic = NoTopic
    NoValue = NoValue
    Topics <- MCTopics
    ClientIds <- MCClientIds
    Procs <- OneProc
    Callers <- TwoCallers
    ProcOf <- SharedProcOf
    MaxPartitions = 2
    MaxListRetry = 1
    MaxConfigRetry = 3
    MaxCrashes = 0
    Methods <- InitMethods
    AlterOutcomes = {"ok", "error", "raise"}
    MinRetention <- MCMinRetention
    DefaultRetention <- MCDefaultRetention
    DefaultSegmentBytes <- MCDefaultSegmentBytes
    DefaultFileDeleteMs <- MCDefaultFileDeleteMs
    ExpireInputs <- MCExpireInputs
    LimitInputs <- MCLimitInputs
SPECIFICATION Spec
VIEW MCView
PROPERTY ProducerStoredOnce
