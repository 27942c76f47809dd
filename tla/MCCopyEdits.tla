---------------------------- MODULE MCCopyEdits -----------------------------
(* Two texts of page p in one file and one text of page q in another. *)
EXTENDS CopyEdits

CONSTANTS e1, e2, e3, p, q, f, g

MCPage == [e \in Elements |-> IF e = e3 THEN q ELSE p]
MCFile == [e \in Elements |-> IF e = e3 THEN g ELSE f]
=============================================================================
