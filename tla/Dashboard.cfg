SPECIFICATION Spec
CONSTANTS
  ann = ann
  root = root
  sea = sea
  hill = hill
  f1 = f1
  f2 = f2
  other = other
  User = {ann, root}
  Tenant = {sea, hill}
  TenantOf <- HotelOf
  Operator = {ann, root}
  Row <- Rows
  MaxAsked = 3
  MaxPosts = 2
  None = None
INVARIANTS
  SessionIsOnePerson
  ShownIsOwn
  HandledIsGone
SYMMETRY Alike
CHECK_DEADLOCK FALSE
