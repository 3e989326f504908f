\* One caller in one process: send, receive, ack and delete on one topic,
\* with a crash.
CONSTANTS
    t1 = t1  t2 = t2  p1 = p1  p2 = p2  c1 = c1  c2 = c2  id1 = id1  id2 = id2
    NoTopic = NoTopic
    NoValue = NoValue
    NoOffset = NoOffset
    Topics <- OneTopic
    ClientIds <- OneClientId
    Procs <- OneProc
    Callers <- OneCaller
    ProcOf <- OneProcOf
    MaxPartitions = 1
    MaxListRetry = 1
    MaxConfigRetry = 3
    MaxCrashes = 1
    Methods <- DataMethods
    AlterOutcomes = {"ok", "error", "raise"}
    MinRetention <- MCMinRetention
    DefaultRetention <- MCDefaultRetention
    DefaultSegmentBytes <- MCDefaultSegmentBytes
    DefaultFileDeleteMs <- MCDefaultFileDeleteMs
    ExpireInputs <- MCExpireInputs
    LimitInputs <- MCLimitInputs
    MaxMsgs = 2
    MaxBatch = 2
    MaxQueue = 1
    DeliveryOutcomes = {"delivered", "failed"}
    OffsetReset = "earliest"
    AutoAck = TRUE
    MaxOutages = 1
SPECIFICATION DataSpec
VIEW DataView
INVARIANT DataTypeOK
PROPERTY SyncSendDelivered
PROPERTY SendsReturn
