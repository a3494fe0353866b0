SPECIFICATION RuntimeSpec
CONSTANTS
  Threads = {t1, t2, t3}
  Kernels = {k1, k2}
  None = None
INVARIANTS RuntimeTypeOK CountIsExact KernelsNeedRuntime
PROPERTIES IsAtomic MutexIsReleased
