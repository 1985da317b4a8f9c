CONSTANTS
  Frame = {4, 5, 6, 8}
  NOFRAME = NOFRAME
  BUCKETS = 2
  POOL = 2
  MaxRef = 2
  BUCKET_COUNT = 4
  PAGE_BUCKET = 3
  HEAP_SIZE = 32
  Slots = {0, 1}
  FRAME_STRUCT = 1
  THREAD_STRUCT = 2
  FX_AREA = 4
SPECIFICATION StoreSpec
INVARIANTS FrameTypeOK ListsExact HeapExact UseCounted
PROPERTIES CountsKept
