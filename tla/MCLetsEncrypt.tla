--------------------------- MODULE MCLetsEncrypt ---------------------------
(* Small instances of LetsEncrypt for TLC. *)
EXTENDS LetsEncrypt

CONSTANTS d1, d2, m1, m2

OneDomain  == {d1}
TwoDomains == {d1, d2}
OneMail    == {m1}
=============================================================================
