SPECIFICATION Spec
CONSTANTS
  NULL = NULL
  Workers = {w1, w2}
  Gtk = gtk
  Ids = {a, b}
  Versions = {v1, v2}
  MaxOps = 3
  MaxFaults = 2
SYMMETRY Symmetry
CHECK_DEADLOCK FALSE
INVARIANTS
  FileIsSound
  NothingLostSilently
  KeyringAgrees
  GotWasKept
