SPECIFICATION PubSpec
CONSTANTS
  Readers = {"r1"}
  BatchReaders = {"b1"}
  InputVersions = {0, 2}
  MaxPublications = 4
  MaxReads = 2
INVARIANTS
  ValidDuringOnePublish
  BatchReadsWhole
CHECK_DEADLOCK FALSE
