--------------------------- MODULE MCPacketReader ---------------------------
EXTENDS PacketReader

\* A short body, one that ends like the start of a prefix, one that holds a prefix,
\* and one longer than a scan.
MCBodies ==
    {<<Other>>, <<Other, Zero>>, <<Zero, Zero, X55AA, Other>>, <<Other, Other, Other, Other, Other>>}

=============================================================================
