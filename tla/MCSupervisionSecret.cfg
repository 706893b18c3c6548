SPECIFICATION Spec
CONSTANTS
    Configs <- MCConfigs
    MaxFailures = 0
INVARIANT NoCloudWithoutSecret
