------------------------- MODULE MCCoreGateway -------------------------
EXTENDS CoreGateway

\* A host on which bwrap works, and the same host once neither tool does.
MCHosts ==
    {[b \in {"bwrap", "unshare", "none"} |->
        CASE b = "bwrap" -> Guarantees \ {"signature"}
          [] b = "unshare" -> {"network"}
          [] OTHER -> {"environment"}],
     [b \in {"bwrap", "unshare", "none"} |->
        IF b = "none" THEN {"environment"} ELSE Failed]}
=============================================================================
