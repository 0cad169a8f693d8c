SPECIFICATION LiveSpec
CONSTANTS
    Files <- MCFiles
    InitialProfiles <- MCInitialProfiles
    EditFields = {"privateKey", "totpSecret", "tlsCryptKey"}
    EditModes = {"totp_auto"}
    EditFormats = {"prefix"}
    MaxId = 3
    MaxSession = 2
INVARIANTS
    FormIsOneProfile
    SubmitSurvivesRestart
PROPERTIES
    OnlyItsFormChangesAProfile
    LoadingEnds
CHECK_DEADLOCK FALSE
