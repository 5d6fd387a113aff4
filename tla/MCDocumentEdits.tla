--------------------------- MODULE MCDocumentEdits ---------------------------
(* A small instance of DocumentEdits for TLC.                              *)
EXTENDS DocumentEdits, TLC

CONSTANTS r, e1, e2, e3, t1, t2, t3, c1, c2, c3, c4, c5

Blank == [n \in Node |-> <<>>]

\* <r>c1 c2<e1>c3</e1><e2/></r>, <r><e1>c1<e2>c2</e2></e1></r> and <r><e1>c1</e1><e2>c2</e2></r>
MCDocuments ==
  {[Blank EXCEPT ![r] = <<t1, e1, e2>>, ![t1] = <<c1, c2>>, ![e1] = <<t2>>, ![t2] = <<c3>>],
   [Blank EXCEPT ![r] = <<e1>>, ![e1] = <<t1, e2>>, ![t1] = <<c1>>, ![e2] = <<t2>>, ![t2] = <<c2>>],
   [Blank EXCEPT ![r] = <<e1, e2>>, ![e1] = <<t1>>, ![t1] = <<c1>>, ![e2] = <<t2>>, ![t2] = <<c2>>]}
MCStrings == {<<c4, c5>>}
=============================================================================
