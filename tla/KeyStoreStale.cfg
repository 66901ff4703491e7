SPECIFICATION Spec
CONSTANTS
  Orgs = {o1, o2}
  Items = {i1}
  NoOrg = NoOrg
  MaxVersion = 2

INVARIANT NoStaleOrgKeys
