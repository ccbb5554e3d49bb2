------------------------ MODULE MCBrowserEnforcement ------------------------
(* The instances of BrowserEnforcement that TLC checks. *)
EXTENDS BrowserEnforcement

CONSTANTS c1, c2

\* Every body with an address that is recognised, and one that is not.
MCRequests == [target: {"absolute"}, body: Bodies] \cup [target: {"relative"}, body: {"secret"}]
=============================================================================
