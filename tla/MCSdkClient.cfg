SPECIFICATION MCSpec
CONSTANTS
    d1 = d1
    d2 = d2
    Devices <- MCDevices
    Handlers = {h1, h2}
    Sdk = {h1}
    Paths = {"p", "q"}
    subscriberBuffer = 2
    MaxPublished <- MCMaxPublished
INVARIANTS
    RegisteredChannelsAreOpen
    InOrderWithoutDuplicates
    AppSeesWhatWasForwarded
PROPERTIES
    SubscriptionsEnd
