SPECIFICATION Spec
CONSTANTS
  Orgs = {o1, o2}
  Items = {i1, i2}
  NoOrg = NoOrg
  MaxVersion = 2
SYMMETRY Symmetry
INVARIANTS TypeOK BaselineComplete KeysFollowProfile UsablePublished
