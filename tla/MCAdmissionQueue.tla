-------------------------- MODULE MCAdmissionQueue --------------------------
(* A small instance of AdmissionQueue for TLC.                             *)
EXTENDS AdmissionQueue

CONSTANTS c1, c2, c3

ThreeCallers == {c1, c2, c3}
NormalAndUp  == {Normal, High, Critical}

=============================================================================
