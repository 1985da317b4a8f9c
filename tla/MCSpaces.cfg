CONSTANTS
  Ram = {11, 12, 13, 14, 15}
  Pool = {1, 2, 3, 4, 5}
  init_kmap = 21
  init_ktbl = 22
  SYSTEM = 4
  SYSTEM_SIZE = 2
  KERNEL = 6
  TMP = 8
  Slot = {0, 1}
  PCTX_COUNT = 3
  Thread = {t1, t2}
  first = t1
  UserPage <- MCUserPage
  HeapPage <- MCHeapPage
  ImagePage <- MCImagePage
SPECIFICATION SpacesSpec
INVARIANTS SpacesTypeOK  KernelShared NothingLost  SpacesShape
