SPECIFICATION Spec
CONSTANTS
  Call = {c1, c2, c3}
  Role = {provider}
  SuperAdmin = SuperAdmin
  Person = {root, ann, bob}
  Root = root
  None = None
  OpSets = {{"createRole", "getRoles"}, {"createUser", "login"}, {"createUser", "access"}}
SYMMETRY Symmetry
INVARIANTS
  AdministrationInv
  HalfMadeHasItsCall
  AccessIsByStrapiRoles
PROPERTIES
  StuckStays
CHECK_DEADLOCK FALSE
