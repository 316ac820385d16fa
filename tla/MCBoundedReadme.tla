---------------------------- MODULE MCBoundedReadme ----------------------------
(***************************************************************************)
(* One thread that serves one request at a time on a ring of two nodes.    *)
(***************************************************************************)
EXTENDS BoundedReadme

CONSTANTS w1, r1

OneWorker == {w1}
OneRouted == {r1}

TwoNodes == <<[hash |-> 0, node |-> 0], [hash |-> 1, node |-> 1]>>
=============================================================================
