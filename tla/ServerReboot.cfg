SPECIFICATION FairSpec
CONSTANTS
  s1 = s1
  s2 = s2
  s3 = s3
  bbl = bbl
  dmadm = dmadm
  Servers = {s1, s2, s3, bbl, dmadm}
  Protected = {bbl, dmadm}
  PageSize = 2
  MaxFaults = 2
  MaxOperator = 1
INVARIANTS
  LeftDownPaid
  AllRestarted
  ReportHonest
PROPERTIES
  Forward
  Ends
\* the tool ends
CHECK_DEADLOCK FALSE
