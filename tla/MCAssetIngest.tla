----------------------------- MODULE MCAssetIngest -----------------------------
(* TLC's instances of AssetIngest. *)
EXTENDS AssetIngest, TLC
CONSTANTS sync, import, t1, t2, t3, t4, u1, u2
\* A channel with the same url twice, a second channel, and an import of that url.
SyncAndImport == sync :> <<{t1, t2}, {t3}>> @@ import :> <<{t4}>>
SameUrl == t1 :> u1 @@ t2 :> u1 @@ t3 :> u2 @@ t4 :> u1
\* One channel with three items.
OneSync == sync :> <<{t1, t2, t3}>>
TwoUrls == t1 :> u1 @@ t2 :> u2 @@ t3 :> u1
================================================================================
