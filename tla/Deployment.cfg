SPECIFICATION Spec
CONSTANTS
    i1 = i1
    i2 = i2
    s1 = s1
    Indexers <- MCIndexers
    Servers <- MCServers
    Options <- MCOptions
    Titles = {0, 1}
    MaxRuns = 2
SYMMETRY IndexersAlike
INVARIANTS NothingIsLost IndexNamesDocuments SettingIsCoding SearchesDecode 
CHECK_DEADLOCK FALSE
