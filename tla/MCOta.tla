------------------------------- MODULE MCOta -------------------------------
(* A good and an unusable image for Ota, besides the one of the factory.   *)
EXTENDS Ota

CONSTANTS Good, Bad

MCImages == {Factory, Good, Bad}
MCUnusable == {Bad}
=============================================================================
