SPECIFICATION FairGatewaySpec
CONSTANTS
    Callers = {c1, c2, c3}
    circuitBreakerMaxErrors = 5
    circuitBreakerOpenDuration = 2
    Deployments <- MCDeployments
    defaultPort <- MCDefaultPort
    Devices = {"d1"}
    Transport <- MCTransport
    Registered = {"echo"}
    Reporting = {"mqtt", "can"}
    Streams = {s1}
    MaxStarts = 2
INVARIANTS
    ClosedIffFewErrors
    ReadyMeansServing
PROPERTIES
    OrderlySteps
    Recovers
    StopsOnceClientsLeave
