---------------------------- MODULE MCBodyAdmission ---------------------------
EXTENDS BodyAdmission

(* No field; the number 12, with a leading zero; 9, below the cap with a digit   *)
(* above it; 13 and 99; 100 and 0100, above it with digits below; 00 and 0011;   *)
(* empty; not digits; repeated.                                                  *)
SomeFields ==
    {<<>>, <<<<0, 1, 2>>>>, <<<<9>>>>, <<<<1, 3>>>>, <<<<9, 9>>>>, <<<<1, 0, 0>>>>,
     <<<<0, 1, 0, 0>>>>, <<<<0, 0>>>>, <<<<0, 0, 1, 1>>>>, <<<<>>>>, <<<<1, Other>>>>,
     <<<<1>>, <<1>>>>}
===============================================================================
