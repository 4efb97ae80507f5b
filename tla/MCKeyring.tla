------------------------------ MODULE MCKeyring ------------------------------
(* Module Keyring under TLC: bundles in two or three entries, no two of one *)
(* length, and one that fits in an entry.                                   *)
EXTENDS Keyring
CONSTANTS short, old, new, long
Bundles == {short, old, new, long}
Lens(v) == CASE v = short -> 1 [] v = old -> 3 [] v = new -> 4 [] v = long -> 5
=============================================================================
