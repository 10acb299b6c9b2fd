----------------------------- MODULE MCAugStore -----------------------------
(* Small instances of AugStore: two or three labels.                        *)
EXTENDS AugStore

CONSTANTS x, y, z
=============================================================================
