CONSTANTS
    Configs <- MCConfigs
SPECIFICATION MonitorSpec
INVARIANT SomeDocumentedOverrideHolds
