SPECIFICATION Spec
CONSTANTS
  Clients = {k1}
  Users = {alice, bob}
  Tasks = {t1, t2}
  None = None
  MaxEsims = 2
SYMMETRY Symmetry
INVARIANT NumberNamesOwnEsim
