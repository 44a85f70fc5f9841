------------------------------ MODULE MCPhone ------------------------------
(* The TLC instance of Phone.                                              *)
EXTENDS PhoneProperties

TwoReloads == {"r1", "r2"}
=============================================================================
