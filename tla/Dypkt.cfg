SPECIFICATION Spec
CONSTANTS
  Records <- PlainRecords
  MaxRecords = 2
  Null = Null
INVARIANTS TypeOK ReadIsPrefix AtRecordBoundary
PROPERTIES WholePacketRead
CHECK_DEADLOCK FALSE
