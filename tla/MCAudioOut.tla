----------------------------- MODULE MCAudioOut -----------------------------
(* Model-checking instance of AudioOut.  Three Open* clicks let three       *)
(* generators run at once and let a failed open follow successful ones.     *)
EXTENDS AudioOut

MCMaxOpens == 3

=============================================================================
