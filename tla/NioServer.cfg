SPECIFICATION NioSpec
CONSTANTS
  Client = {c1, c2}
  Acceptor = Acceptor
INVARIANTS
  ServesValidKeys
CHECK_DEADLOCK FALSE
