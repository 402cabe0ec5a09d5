--------------------------- MODULE MCEditSessions ---------------------------
(* Two workflows have a row number 1; the senders are interchangeable, and so are the handlers. *)
EXTENDS EditSessions, TLC

OverlappingRows == {<<"trendeng", 1>>, <<"engagement", 1>>, <<"engagement", 2>>}
Symmetry == Permutations(Senders) \cup Permutations(Handlers)
=============================================================================
