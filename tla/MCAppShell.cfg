SPECIFICATION Spec
CONSTANTS
    InitialProfiles <- MCProfiles
    Matching = {2}
    OpenVpn = {1, 2}
    Prompting = {2}
    MinWidth = 2
    MaxWidth = 4
    SavedWidth = 5
    StartWidths = {"phone", "medium", "wide"}
    DragTo = {1, 3, 5}
    LogCap = 2
    RecentCap = 1
    MaxActs = 4
    MaxTweaks = 1
INVARIANTS TypeOK StopWithinReach OneStory LogsAreNewest ConsoleShowsLog
PROPERTIES ConnectsWhatItShows PreferencesSurvive
CHECK_DEADLOCK FALSE
