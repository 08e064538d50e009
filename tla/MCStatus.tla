------------------------------ MODULE MCStatus ------------------------------
(***************************************************************************)
(* One binding with two specs, an operator that may be restarted with      *)
(* another trust domain and class, one error of rendering, and conflicts   *)
(* with two causes at once.                                                *)
(***************************************************************************)
EXTENDS StatusInspection, TLC

CONSTANTS s1, s2

MCSpecs == {s1, s2}
MCConfigs == {[td |-> "a.org", class |-> ""], [td |-> "b.org", class |-> "x"]}
MCStateErrors == {[type |-> "InvalidRef", reason |-> "TargetPoolNotFound"]}
MCCauses == {{"VariantReuse", "DuplicateSPIFFEID"}}
MCDefault == [td |-> "kleym.sonda.red", class |-> ""]
\* Specs differ in nothing but their names.
MCSymmetry == Permutations(MCSpecs)
=============================================================================
