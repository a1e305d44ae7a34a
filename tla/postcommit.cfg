SPECIFICATION Spec
CONSTANTS
    t1 = t1
    t2 = t2
    k1 = k1
    k2 = k2
    Events <- Two
    Consumers <- Readers
    Batch = 2
    MaxExpiries = 1
    Invocations <- Invoked
    Unregistered <- Unknown
    Policy <- Retries
    DefaultRetry = 2
    ActivitiesOf <- Work2
    Kits <- Combinations
    MaxCrashes = 1
INVARIANTS
    AckedHandled
    HandledOnce
    Traceable
    RerunAfterFailure
    ErrorsComplete
PROPERTIES
    NatsDelivers
    DispatchedRuns
