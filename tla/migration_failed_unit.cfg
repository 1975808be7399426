SPECIFICATION Spec
CONSTANTS
  Users = {u1}
PROPERTY
  RefusesOnlyRunning
