SPECIFICATION Spec
CONSTANTS
  me = me
  ann = ann
  bob = bob
  eve = eve
  plain = plain
  face = face
  Users = {me, ann, bob, eve}
  Me = me
  Urls = {plain, face}
  AvatarUrl <- SharedAvatars
  Groups = {g}
  Places = 2
  Tables <- SomeTables
  Loads = {l1, l2}
SYMMETRY Symmetry
INVARIANTS
  TypeOK
  ExclusiveAlone
  AudienceIsShown
CHECK_DEADLOCK FALSE
