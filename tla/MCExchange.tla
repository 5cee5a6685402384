----------------------------- MODULE MCExchange -----------------------------
(* Two requests, one to a sub-device and one to the device itself.           *)
EXTENDS Exchange, TLC

CONSTANTS r1, r2, c1

MCRequestCmd == (r1 :> "Control") @@ (r2 :> "LanExtStream")
MCRequestCid == (r1 :> c1) @@ (r2 :> NoCid)

=============================================================================
