SPECIFICATION FairSpec
CONSTANTS
  NoConn = 0
  Conns = {1, 2, 3}
  Ips = {"a", "b"}
  IpOf <- TwoAndOne
  MaxPerIp = 1
INVARIANTS TypeOK CountExact
PROPERTIES RefusedOnlyWhenFull AdmissionEnds
CHECK_DEADLOCK FALSE
