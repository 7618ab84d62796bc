CONSTANTS
  num_of_reqs = 2
  Catalogues <- CataloguesDef
  Requests <- RequestsDef
  Threshold = 1
  LastSplit = 4
SPECIFICATION FairSpec
INVARIANTS TypeOK NoSharedPosition FilesRight
PROPERTY AllAnswered
CHECK_DEADLOCK FALSE
