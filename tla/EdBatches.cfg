SPECIFICATION ComposerSpec
CONSTANTS
  e1 = e1  e2 = e2  e3 = e3  p1 = p1  p2 = p2  p3 = p3  b1 = b1
  c1 = c1  c2 = c2  s1 = s1
  Edit = {e1, e2}
  Placeholder = {p1, p2}
  Batch = {b1}
  Caret = {c1}
  Span = {s1}
  NoRange = NoRange
  Name = {"null", "Typing"}
  NoName = "null"
  Mergeable = {"Typing"}
  NoTxn = NoTxn
  MayDisable = {TRUE, FALSE}
  MaxNesting = 1
  MaxMods = 4
SYMMETRY Symmetry
INVARIANT EditorTypeOK
PROPERTIES UndoRestoresOperation
