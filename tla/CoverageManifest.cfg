CONSTANTS
  host = host
  bridge = bridge
  Components = {host, bridge}
SPECIFICATION Spec
INVARIANT VerdictIsExact
PROPERTY RefinesExactlyOnce
CHECK_DEADLOCK FALSE
