SPECIFICATION FairSpec
CONSTANTS
    MaxQueue = 3
    MaxAttempts = 3
    Categories = {"pass", "link"}
    MaxEvents = 8
INVARIANTS EveryEventCounted
PROPERTIES QueueDrains WebhookStops ForwardsInOrder
