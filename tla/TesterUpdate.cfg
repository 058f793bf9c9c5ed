SPECIFICATION Spec
CONSTANTS
  t1 = t1
  t2 = t2
  Testers = {t1, t2}
  Port <- TesterPort
  Generation <- TesterGeneration
  Drives = {1, 2}
  MaxScans = 2
  MaxRetries = 1
  NONE = NONE
INVARIANTS TypeOK VerdictIsOwn DriveIsOwn ResultIsOwn FirmwareAsLoaded
PROPERTY CallsEnd
