------------------------------ MODULE MCLists ------------------------------
(* Five rows, pages of two and three times: enough for three pages, for    *)
(* ties across either border, and for rows that appear before the cursor,  *)
(* behind it, or at its time.                                              *)
EXTENDS Lists
=============================================================================
