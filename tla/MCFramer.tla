------------------------------ MODULE MCFramer ------------------------------
(* An instance of Framer for TLC: one framer of each packet type.           *)
EXTENDS Framer

\* ACL and events: payloads up to the largest frame, some of which look like
\* headers.  SCO: payloads of nine bytes, none of which is the handle of the link,
\* so that a frame is three packets of four bytes.
MCPayloads ==
    2 :> {<<>>, <<7>>, <<1, 0>>, <<42, 0, 1, 0, 3, 0, 0, 0>>}
    @@ 3 :> {<<5, 5, 5, 5, 5, 5, 5, 5, 5>>, <<6, 6, 6, 6, 6, 6, 6, 6, 6>>}
    @@ 4 :> {<<>>, <<14>>, <<14, 2, 0>>, <<1, 2, 3, 4, 5, 6, 7, 8, 9, 10>>}

MCCuts == 2 :> {1, 2, 3, 5, 9} @@ 3 :> {4} @@ 4 :> {1, 2, 3, 5, 9}

\* Bulk and interrupt transfers lose nothing.
MCLosses == 2 :> 0 @@ 3 :> 4 @@ 4 :> 0
=============================================================================
