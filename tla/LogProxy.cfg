\* Three entries in batches of up to two overflow a channel and a cache of two;
\* the service is started three times and dies twice; the screen is opened,
\* reloaded or cleared three times.
CONSTANTS
    CHANNEL_CAPACITY = 2
    BATCH_SIZE = 2
    WireCapacity = 1
    MAX_CACHE_SIZE = 2
    FlowCapacity = 1
    MaxEntries = 3
    MaxServices = 3
    MaxScreens = 3

SPECIFICATION Spec

\* Everything may have been logged and delivered.
CHECK_DEADLOCK FALSE

INVARIANT ScreenIsComplete

PROPERTIES
    LogSpec
    NothingWaits
