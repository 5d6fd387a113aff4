SPECIFICATION Spec
CONSTANTS
  r = r  e1 = e1  e2 = e2  e3 = e3  t1 = t1  t2 = t2  t3 = t3
  c1 = c1  c2 = c2  c3 = c3  c4 = c4  c5 = c5
  Element = {r, e1, e2, e3}
  Text = {t1, t2, t3}
  Char = {c1, c2, c3, c4, c5}
  Root = r
  NoNode = NoNode
  Documents <- MCDocuments
  Strings <- MCStrings
  MaxEdits = 2
INVARIANTS DocumentTypeOK PointsInTree DocumentIsHistory
PROPERTIES TextReadsOn PointsKept DeletesWhatIsSelected
