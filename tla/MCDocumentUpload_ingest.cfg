SPECIFICATION Spec
CONSTANTS
  Request = {r1, r2}
  Doc = {d1}
  File = {p1, o1, b1, u1, w1, e1, x1}
  Pdf = {p1, w1, e1}
  Oversized = {b1}
  Unsupported = {u1}
  Unreadable = {w1}
  Encrypted = {e1}
  Infected = {x1}
  Rendition = {k1}
  NoRequest = NoRequest
  NoDoc = NoDoc
  NoKey = NoKey
SYMMETRY Symmetry
INVARIANT TypeOK
INVARIANT NoDanglingReference
INVARIANT StoredContentWasScreened
INVARIANT AppendsNeverConflict
PROPERTY KeepsHistory
