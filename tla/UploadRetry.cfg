SPECIFICATION UploadsSpec
CONSTANTS
  Tab = {p1}
  Content = {x, y}
  MaxUploads = 3
  MaxSources = 1
  MaxRevision = 2
CHECK_DEADLOCK FALSE
PROPERTIES RefusedMayTryAgain
