------------------------------ MODULE MCSpaces ------------------------------
EXTENDS Spaces

(* Segments 0 to 3 are the user's, 4 and 5 the system's, 6 and 7 the       *)
(* kernel's; 8 and 9 are the windows.                                      *)
MCUserPage  == {<<0, 0>>, <<2, 1>>}
MCHeapPage  == {<<7, 0>>}
MCImagePage == {<<4, 0>>}
=============================================================================
