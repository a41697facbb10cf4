SPECIFICATION FairSdkSpec
CONSTANTS
    d1 = d1
    d2 = d2
    DeviceIDs = {d1, d2}
    Touchers = {t1}
    Writable = {d1}
    timeout = 1
    MaxRestarts = 1
    Configured <- MCConfigured
    Generated <- MCGenerated
    Mqtt = {d2}
PROPERTIES
    OnlySilentGoOffline
    DeletedStaysDeleted
    SilentDeviceGoesOffline
    ComesBackOnline
