SPECIFICATION Spec
CONSTANTS
  Users = {u1, u2}
INVARIANTS
  TypeOK
  UserKeptOut
  NeverBoth
  RolledBack
