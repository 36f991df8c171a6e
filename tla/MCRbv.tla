------------------------------- MODULE MCRbv -------------------------------
EXTENDS Rbv, TLC

CONSTANTS g1, g2, k1, k2

MCHashOf == (k1 :> "b1") @@ (k2 :> "b1")
Packet(kind, k) == [kind |-> kind, key |-> k]
\* k1 and k2 share a bucket, in which both groups set and delete while g1 reads.
MCWork ==
  (g1 :> <<Packet("set", k1), Packet("get", k1), Packet("del", k2)>>)
  @@ (g2 :> <<Packet("set", k1), Packet("del", k1), Packet("set", k2), Packet("other", k1)>>)
=============================================================================
