SPECIFICATION Spec
CONSTANTS
  d1 = d1
  d2 = d2
  bad = bad
  n0 = n0
  Callers = {c1, c2}
  Names = {n0, n1, n2}
  Reasons = {"moved", "retired"}
  Docs = {d1, d2, bad}
  Digest <- MCDigest
  BadDocs = {bad}
  Boot <- MCBoot
  Limits <- MCLimits
  MaxOps = 3
CHECK_DEADLOCK FALSE
INVARIANTS RosterAgrees QuiesceTruthful
