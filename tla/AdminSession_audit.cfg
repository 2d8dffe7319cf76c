CONSTANTS k1 = k1  k2 = k2  c1 = c1  w1 = w1  w2 = w2  u1 = u1
CONSTANTS Tokens = {k1, k2}
          Tools = {c1}
          Workers = {w1, w2}
          Users = {u1}
          MaxRetry = 1
          MaxId = 2
          MaxChanges = 3
SYMMETRY Symmetric
SPECIFICATION Spec
INVARIANT EveryChangeIsAudited
