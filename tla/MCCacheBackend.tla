--------------------------- MODULE MCCacheBackend ---------------------------
(* A setting that the client changes twice.                                *)
EXTENDS CacheBackend

NoDependencies == <<>>
NoLicenses == [l \in {} |-> l]
=============================================================================
