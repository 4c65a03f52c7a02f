CONSTANTS
    Configs <- MCConfigs
SPECIFICATION Spec
INVARIANTS RootStepsBeforeUser AddedStepsFitImage StartsWhatTheUserSays CopiedPathsExist SettingsReachDockerfile
