\* Two requests at a time, four accepted uploads, of an orderly client or not.
SPECIFICATION Spec
CONSTANTS
  Request = {r1, r2}
  Content = {"a", "b", "big"}
  ByteSize <- MCSize
  total_chunks = 2
  total_bytes = 3
  MaxChunkBytes = 3
  Upload <- MCUpload
  MaxUploads = 4
  MaxFaults = 1
INVARIANTS OrderlyReceiptHasFile BytesMatchReceipts
PROPERTIES SealedIsFrozen
CHECK_DEADLOCK FALSE
