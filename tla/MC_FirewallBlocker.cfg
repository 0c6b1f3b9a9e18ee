SPECIFICATION FirewallSpec
CONSTANTS
  Ips = {ip1, ip2}
  Callers = {c1, c2}
  Loop = loop
  Owner = owner
  Free = free
  NoBlock = none
  NoJob = none
  MaxBlocks = 2
INVARIANTS FirewallTypeOK RecordedIsInForce OrphansAreExcused
PROPERTY ExpiredIsForgotten
