--------------------------- MODULE MCAzureTraffic ---------------------------
(* Model values for AzureTraffic; the cfg gives the remaining constants:    *)
(* two callers of weight 1 or 2 under a limit of 3, so that any two of them *)
(* queue together except two heavy ones.                                    *)
EXTENDS AzureTraffic

=============================================================================
