---------------------------- MODULE UnorderedMap ----------------------------
(***************************************************************************)
(* The two updates the services make to their std::unordered_map tables. A *)
(* table is a function whose domain is the set of keys present; <<>> is    *)
(* the empty table.                                                        *)
(***************************************************************************)
EXTENDS Functions

\* table[key] = value, whether or not the key is there already.
Put(table, key, value) ==
  [k \in DOMAIN table \cup {key} |-> IF k = key THEN value ELSE table[k]]

\* table.erase(key), a no-op when the key is absent.
Erase(table, key) == Restrict(table, DOMAIN table \ {key})

\* `table` maps some of `keys` to `values`.
IsTable(table, keys, values) ==
  DOMAIN table \subseteq keys /\ table \in [DOMAIN table -> values]

=============================================================================
