--------------------------- MODULE MCSettingsStore ---------------------------
(* Instances of SettingsStore for TLC: a key that has a row from the start  *)
(* and one the fetcher may seed later.                                      *)
EXTENDS SettingsStoreInv

CONSTANTS theme, poll, old, new

Put(f) == [k \in Keys |-> IF k \in DOMAIN f THEN f[k] ELSE None]
Both(v) == [k \in {theme, poll} |-> v]
One(key, v) == [k \in {key} |-> v]

Rows == Put(One(theme, old))
Seeds == Put(Both(old))
RowsOfBoth == Put(Both(old))

SaveBoth == {Put(Both(new)), Put(One(theme, old))}
=============================================================================
