-------------------------- MODULE MCInventoryCache --------------------------
(* Small instances of InventoryCache. *)
EXTENDS InventoryCache

First(meta) == [main |-> 1, meta |-> meta]
\* One image at its first revision, without or with metadata.
MCOneImage == {[u \in Images |-> First(none)]}
\* Sources that may hold the same image or different ones.
MCAnyImages == {r \in [Images -> Content] : \A u \in Images \ Airgapped : r[u].meta = none}
=============================================================================
