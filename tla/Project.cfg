SPECIFICATION ProjectSpec
CONSTANTS
  main = main
  side = side
  cam = cam
  box = box
  extra = extra
  Names <- MCNames
  MaxDepth = 2
  MaxCopies = 2
  Documents <- MCDocuments
  NewScenes <- MCNewScenes
  NewSources <- MCNewSources
  NewGroups <- MCNewGroups
  Filters <- MCFilters
  MaxItems = 6
  MaxEdits = 3
  MaxIndex = 2
  MaxSelected = 2
  starter = starter
  studio = studio
  usual = usual
  another = another
  None = None
  Torn = Torn
  Projects <- MCProjects
  Paths <- MCPaths
  SettingsPath = usual
  Initial = starter
  MaxHistory = 2
INVARIANTS DocumentParses GroupingIsUndone SavedWorkIsKept
PROPERTIES RefusedChangesNothing RearrangingConserves ImplementsEditHistory
