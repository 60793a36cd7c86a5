\* Two threads fill journal files of file systems with 512- and 4096-byte
\* blocks; posix_memalign may fail.
CONSTANTS
  f1 = f1  f2 = f2
  Fillers <- MCFillers
  Alignments = {512, 4096}
  MemalignMayFail = TRUE
SPECIFICATION Spec
INVARIANT FillBufferAligned
