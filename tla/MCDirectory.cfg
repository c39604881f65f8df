SPECIFICATION MCSpec
CONSTANTS
  user1 = user1  user2 = user2  user3 = user3  role1 = role1  role2 = role2
  dept1 = dept1  Default = Default  bob = bob  reader = reader  writer = writer
  perms1 = perms1  perms2 = perms2  req1 = req1  req2 = req2
  Users <- MCUsers
  Roles <- MCRoles
  Depts <- MCDepts
  Names <- MCNames
  RoleNames <- MCRoleNames
  Perms <- MCPerms
  Reqs <- MCReqs
  MaxRequests = 6
  MaxStarts = 1
INVARIANTS TypeOK WhoCanStore FirstAdmin RoleUpdated
PROPERTY DepartmentEmptied
SYMMETRY Symmetry
CHECK_DEADLOCK FALSE
