SPECIFICATION AddSpec
CONSTANTS
  Segments <- MCSegments
  Mos = {m1, m2}
  NoMo = NoMo
  Trees = {t1}
  Wrap = 3
  NumeralOf <- MCNumeralOf
  Urns = {"fumo", "dmacc"}
  NoHandler = NoHandler
  NoMiid = NoMiid
  UserMiids = {"1", "rootfs"}
  MaxInstances = 2
  MaxDepth = 2
  OwnType = FALSE
INVARIANTS TreeTypeOK OnlyAccepted AddedIsListed
PROPERTIES InstancesStay ImplementsMOTree
