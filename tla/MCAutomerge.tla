----------------------------- MODULE MCAutomerge -----------------------------
(* One request, up to three heads and two runs beside the arm watch.        *)
EXTENDS Automerge

=============================================================================
