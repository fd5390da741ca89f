------------------------------ MODULE MCBookFeed ------------------------------
(***************************************************************************)
(* Instances of BookFeed for TLC.                                          *)
(***************************************************************************)
EXTENDS BookFeed, TLC

\* One level a side, and three asks of which a book of depth 2 keeps two.
Narrow == {<<"bid", 1>>, <<"ask", 2>>}
Deep   == {<<"bid", 1>>} \cup ({"ask"} \X (2 .. 4))

\* Snapshot tasks differ in nothing but their name: sound where no liveness is checked.
Interchangeable == Permutations(Tasks)
=============================================================================
