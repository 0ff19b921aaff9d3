CONSTANTS
  root = root
  m1 = m1
  r1 = r1
  r2 = r2
  r3 = r3
  s1 = s1
  q1 = q1
  q2 = q2
  Members = {root, m1}
  Root = root
  Roles = {r1, r2, r3}
  Names = {}
  Perms = {"System_READ", "System_UPDATE"}
  Seeded <- MCSeeded
  Sessions = {s1}
  Assigns = {q1, q2}
  Needed = {"System_READ"}
  MaxChanges = 3
  NoRole = NoRole
  NoMember = NoMember
SPECIFICATION Spec
INVARIANTS
  TypeOK
  AllowedByRole
  BannedUnlessRaced
  AssignedTogether
CHECK_DEADLOCK FALSE
SYMMETRY Symmetry
