------------------------- MODULE MC_ReadingGateway -------------------------
(* Instances of ReadingGateway for TLC.                                    *)
EXTENDS ReadingGateway, TLC

CONSTANT d1

Two == d1 :> 2
============================================================================
