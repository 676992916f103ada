------------------------------ MODULE MCPlates ------------------------------
(* O is read as 0 when a plate is stored, Q too when a lane compares.      *)
EXTENDS Plates

ReadAsDigits == [ch \in Chars |-> IF ch = "O" THEN "0" ELSE ch]
FirstOfGroup == [ch \in Chars |-> IF ch \in {"0", "O", "Q"} THEN "0" ELSE ch]
=============================================================================
