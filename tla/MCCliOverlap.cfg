\* Two commands at a time, either may be killed.
CONSTANTS
    A = A
    B = B
    C = C
    p1 = p1
    p2 = p2
    spaced = spaced
    underscored = underscored
    club = club
    team_file = team_file
    club_file = club_file
    Ids <- MC_Ids
    Names <- MC_Names
    NamedFiles = {team_file, club_file}
    safe_path_component <- MC_safe_path_component
    Processes = {p1, p2}
    Rows = {1}
    Packets = {TRUE}
    MaxCommands = 4
    Crashes = TRUE
    Absent = Absent
    Torn = Torn
SPECIFICATION CliSpec
SYMMETRY MoreSymmetry
INVARIANTS
    CliTypeOK
    NoAckedLost
    RegistryNeverAhead
    OnlyOwnClaims
CHECK_DEADLOCK FALSE
