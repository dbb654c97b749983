\* Two workers, one thread of the blocking pool, three requests: two of them
\* can take every worker, or the lock and the pool, while the third waits; no
\* write and no read has to end.
SPECIFICATION Spec
CONSTANTS
  Workers = {w1, w2}
  Pool = {b1}
  Requests = {r1, r2, r3}
  None = None
INVARIANTS WorkersTypeOK OnlyOverflowPoisons
PROPERTY RequestsEnd
