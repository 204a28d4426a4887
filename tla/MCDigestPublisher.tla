------------------------- MODULE MCDigestPublisher -------------------------
(***************************************************************************)
(* Windows of two or three minutes; the clock counts minutes.              *)
(***************************************************************************)
EXTENDS DigestPublisher

All       == {"ipfs", "hedera"}
MCBoth    == {All}
MCEach    == {All, {"ipfs"}, {"hedera"}}
MCAny     == {"net", "db", "crash"}
MCNothing == {}
MCQuiet   == {6}
MCTwo     == {1, 2}
============================================================================
