-------------------------- MODULE MCPublicationLog --------------------------
(* Instances of PublicationLog for TLC.                                    *)
EXTENDS PublicationLog

CONSTANTS r1, t1, d1, d2

\* One publication from the REST route and one from a TCP session, of two
\* devices: the rows a repeated mid can confuse.
MCPubs == {r1, t1}
MCTarget == [p \in MCPubs |-> IF p = r1 THEN d1 ELSE d2]
=============================================================================
