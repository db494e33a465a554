SPECIFICATION Spec
CONSTANTS
  k1 = k1
  k2 = k2
  t1 = t1
  t2 = t2
  Keys = {k1, k2}
  Threads = {t1, t2}
  Callers = {t1}
  Closers = {t1, t2}
  Editor = t2
  Inputs <- SomeInputs
  GetTypes = {"int64", "bytes"}
  EditorInputs <- SomeEdits
  BatchKeys <- KeyLists
  ChunkSize = 2
  LogKeys <- SomeLogKeys
  LogBlobs <- SomeLogBlobs
  MaxRecords = 3
  MaxTail = 4
  KeyStrings <- SomeKeyStrings
  MaxKeys = 3
  GroupBits = 2
  Bits32 = 5
  Bits64 = 7
  FloatBytes = 2
  DoubleBytes = 3
PROPERTY CommitAtomic
CHECK_DEADLOCK FALSE
