SPECIFICATION Spec
CHECK_DEADLOCK FALSE
CONSTANTS
  m1 = m1  m2 = m2  m3 = m3  m4 = m4
  Commit = {m1, m2, m3, m4}
  EntrySize = 3
  Torn = {2, 3, 4}
  Dedup <- DedupThree
  Server = Server
  MaxCrash = 3
INVARIANT WrittenIsRead
