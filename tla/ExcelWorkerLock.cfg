\* One document that times out is enough to lose the lock.
SPECIFICATION Spec
CONSTANT Docs = {d1, d2}
SYMMETRY DocSymmetry
INVARIANT UnlockFindsItsLock
CHECK_DEADLOCK FALSE
