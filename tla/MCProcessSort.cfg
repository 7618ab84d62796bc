CONSTANTS
  Catalogues <- CataloguesDef
  Requests <- RequestsDef
  Threshold = 1
  LastSplit = 4
SPECIFICATION FairSpec
INVARIANTS TypeOK SegmentDone FileRight
PROPERTY Finishes
CHECK_DEADLOCK FALSE
