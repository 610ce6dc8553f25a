SPECIFICATION Spec
CONSTANTS
  Key <- MCKey
  Dashed <- MCDashed
  Member <- MCMember
  Addr <- MCAddr
  Request <- MCRequest
  Hostname = "traefik"
  StaticIPs <- MCStaticIPs
  Source <- MCSource
  Dynamic <- MCDynamic
INVARIANTS
  IInv
  UntrustedSaysNothing
  TrustedIsPassedOn
  DecisionInWindow
  SecondInstanceAgrees
CHECK_DEADLOCK FALSE
