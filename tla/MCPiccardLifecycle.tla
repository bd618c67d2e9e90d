------------------------- MODULE MCPiccardLifecycle -------------------------
(* Every way a context of ring dimension 4, 8 or 16 can turn out.           *)
EXTENDS PiccardLifecycle

MCConfigs == {c \in [ring : {4}, sized : BOOLEAN, calibrated : {4, 8}, toy : BOOLEAN,
                     auto : {2, 4, 8}, packs : {2, 4, 8},
                     contract : {"absent", "good", "otherVersion", "otherRow"},
                     fits : BOOLEAN, tauOk : BOOLEAN] :
               /\ c.contract # "absent" => c.sized
               /\ ~c.sized => c.calibrated = 4 /\ c.fits}
==============================================================================
