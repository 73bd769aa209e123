SPECIFICATION FairSpec
CONSTANTS
    ConfigFile = {"spec.enableComa"}
    NoFile = NoFile
    ENABLE_WEBHOOKS = ""
    MaxFaults = 1
PROPERTIES EnablesShower
CHECK_DEADLOCK FALSE
