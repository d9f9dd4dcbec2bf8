SPECIFICATION Spec
CONSTANTS
  Hosts = {h1, h2}
  Signatures = {on, off}
  Disabled = {off}
  MaxConfigurations = 2
  MaxSends = 3
INVARIANTS
  HostsAgree
  NothingIsLeft
PROPERTIES
  InterruptReturns
CHECK_DEADLOCK FALSE
