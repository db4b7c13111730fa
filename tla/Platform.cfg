SPECIFICATION Spec
CONSTANTS
  Parts = {"route", "submission", "records", "faulty", "observers",
           "schedules", "lifecycle", "config", "log"}
INVARIANTS
  TypeOK
  
  RecordKept
  RunsOrderly
PROPERTIES
  
  Ends
CHECK_DEADLOCK FALSE
