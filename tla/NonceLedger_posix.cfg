CONSTANTS
  p1 = p1
  p2 = p2
  n1 = n1
  n2 = n2
  Procs <- Users
  Nonces <- Tokens
  NoNonce = NoNonce
  SyncKeepsEntry = FALSE
SPECIFICATION Spec
SYMMETRY Symmetric
INVARIANTS
  GrantDurable
