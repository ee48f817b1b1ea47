\* One command at a time, none killed; two names share a named copy.
CONSTANTS
    A = A
    B = B
    C = C
    p1 = p1
    p2 = p2
    spaced = spaced
    underscored = underscored
    club = club
    team_file = team_file
    club_file = club_file
    Ids <- MC_MoreIds
    Names <- MC_SharingNames
    NamedFiles = {team_file, club_file}
    safe_path_component <- MC_safe_path_component
    Processes = {p1}
    Rows = {1, 2}
    Packets = {TRUE, FALSE}
    MaxCommands = 5
    Crashes = FALSE
    Absent = Absent
    Torn = Torn
SPECIFICATION CliSpec
SYMMETRY Symmetry
INVARIANTS
    SentIsRecorded
    NoOrphan
CHECK_DEADLOCK FALSE
