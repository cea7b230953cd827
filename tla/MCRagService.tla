----------------------------- MODULE MCRagService -----------------------------
EXTENDS RagService, TLC

CONSTANTS a1, o1, o2, local, cloud

(* A page break inside a window and an empty page; nothing but white space. *)
SomeDocuments == {<<<<1, 0, 1, 1>>, <<>>, <<1, 1>>>>, <<<<0>>, <<>>>>}

Symmetry == Permutations({o1, o2})
=============================================================================
