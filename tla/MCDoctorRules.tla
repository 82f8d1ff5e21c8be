--------------------------- MODULE MCDoctorRules ---------------------------
(* Every rule, over every combination of the values it tells apart.        *)
EXTENDS DoctorRules
=============================================================================
