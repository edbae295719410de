CONSTANTS
  Inputs <- MCInputs
  Network = "traefik"
SPECIFICATION Spec
INVARIANTS
  TypeOK
  RoutesKept
  NeverReexported
  Dialable
CHECK_DEADLOCK FALSE
