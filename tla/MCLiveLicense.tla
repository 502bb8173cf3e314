--------------------------- MODULE MCLiveLicense ---------------------------
(* LiveLicense with files that name one of two depots, or both.  Which     *)
(* manifest a depot is pinned to is MCRegistry's concern.                  *)
EXTENDS LiveLicense

CONSTANTS i1, i2

Script(ids) == [ids |-> ids, pins |-> NoPins]
MCScripts == {Script({i1}), Script({i1, i2})}
=============================================================================
