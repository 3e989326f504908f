\* One caller in one process: send, receive and auto-commit on one topic,
\* with KeyboardInterrupts during receive.
CONSTANTS
    t1 = t1  t2 = t2  p1 = p1  p2 = p2  c1 = c1  c2 = c2  id1 = id1  id2 = id2
    NoTopic = NoTopic
    NoValue = NoValue
    NoOffset = NoOffset
    Topics <- OneTopic
    ClientIds <- OneClientId
    Procs <- OneProc
    Callers <- OneCaller
    ProcOf <- OneProcOf
    MaxPartitions = 1
    MaxListRetry = 1
    MaxConfigRetry = 3
    MaxCrashes = 0
    Methods <- DataMethods
    AlterOutcomes = {"ok", "error", "raise"}
    MinRetention <- MCMinRetention
    DefaultRetention <- MCDefaultRetention
    DefaultSegmentBytes <- MCDefaultSegmentBytes
    DefaultFileDeleteMs <- MCDefaultFileDeleteMs
    ExpireInputs <- MCExpireInputs
    LimitInputs <- MCLimitInputs
    MaxMsgs = 2
    MaxBatch = 2
    MaxQueue = 1
    DeliveryOutcomes = {"delivered", "failed"}
    OffsetReset = "earliest"
    AutoAck = TRUE
    MaxOutages = 0
SPECIFICATION DataSpec
VIEW DataView
INVARIANT CommittedWereReturned
