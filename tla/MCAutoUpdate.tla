---------------------------- MODULE MCAutoUpdate ----------------------------
(* Three versions, the last one older than the others as a text.           *)
EXTENDS AutoUpdate

MCVersions == <<<<1, 0, 8>>, <<1, 0, 9>>, <<1, 0, 10>>>>

=============================================================================
