\* Trials, subscriptions and purges; events, instances and screens; a request.
SPECIFICATION PlatformSpec
\* Time is bounded, events are published and nobody has to call anything.
CHECK_DEADLOCK FALSE
CONSTANTS
    Deliveries = {d1, d2}
    EventIds = {e1, e2}
    NoTime = NoTime
    NoEvent = NoEvent
    MaxTime = 2
    MaxAttempts = 2
    MaxCrashes = 2
    Events = {e1, e2}
    Instances = {i1, i2}
    Screens = {c1}
    Away = Away
    MaxFaults = 2
    MaxApiFaults = 2
INVARIANTS
    PlatformTypeOK
    PaymentsCount
    ScreensAreRight
PROPERTIES
    PurgeIsFair
    PurgeIsFinished
    EventuallyPublished
