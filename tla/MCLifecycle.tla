---------------------------- MODULE MCLifecycle ----------------------------
(* A process with a handful of mbufs and small captures. *)
EXTENDS Lifecycle

R(segs, end) == [segs |-> segs, end |-> end]

\* A capture of two packets; one that ends within its second packet, and one that
\* has a bad record after a good one; one without packets.
MCCaptures == {<<R(1, "whole"), R(2, "whole")>>, <<R(1, "whole"), R(2, "cut")>>,
               <<R(1, "whole"), R(1, "bad")>>, <<>>}
=============================================================================
