------------------------------ MODULE FileData ------------------------------
(***************************************************************************)
(* What a file holds while os.WriteFile calls overlap: a set of pieces     *)
(* <<position, writer>>, one for each position up to its length.           *)
(***************************************************************************)
EXTENDS Naturals

\* All that writer w has to write, if that is n pieces.
Pieces(w, n) == {<<k, w>> : k \in 1 .. n}

\* The first n pieces of w are written from the start of an open file.
WriteOver(old, w, n) == Pieces(w, n) \cup {piece \in old : piece[1] > n}
=============================================================================
