SPECIFICATION Spec
CONSTANTS
  Procs = {p1, p2}
  FoundVersions = {0, 8, 10, 11}
  Versions = {v, w}
  Files = {main}
  Main = main
  Edited = Edited
  None = None
  Entries = {"notes", "rules"}
  Raw = "Our Place"
  Slugs <- SlugNames
  DefaultEnv = "work"
  Gone = Gone
  Unset = Unset
  Absent = Absent
  Provided = {v}
  Asked = {w}
  Chosen = {"Our Place"}
  FoundHomes <- Homes
  MaxLaunches = 2
  MaxCrashes = 1
SYMMETRY Processes
INVARIANTS
  CurrentIsWhole
  EditsKept
  EnvironmentFound
  IntactIsWhole
  FoldersListed
  StartedAsRecorded
PROPERTIES
  EntriesKept
CHECK_DEADLOCK FALSE
