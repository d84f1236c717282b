----------------------------- MODULE ResultCache -----------------------------
(***************************************************************************)
(* The window of results against replays (_cache_result and                *)
(* _get_cached_result of transport_ws_openclaw.py): the results by key,    *)
(* and the keys in the order they were cached, which decides what leaves.  *)
(* Both change under the queue lock, so a cache is one value.              *)
(***************************************************************************)
EXTENDS Integers, Sequences

EmptyCache == [results |-> << >>, keys |-> << >>]

Known(cache, key) == key \in DOMAIN cache.results

Surplus(keys, window) == IF Len(keys) > window THEN Len(keys) - window ELSE 0

(* The oldest keys leave the list, and take their results along.           *)
Trimmed(results, keys, window) ==
  LET gone == {keys[j] : j \in 1..Surplus(keys, window)}
  IN  [results |-> [k \in DOMAIN results \ gone |-> results[k]],
       keys |-> SubSeq(keys, Surplus(keys, window) + 1, Len(keys))]

Put(results, key, value) ==
  [k \in DOMAIN results \cup {key} |-> IF k = key THEN value ELSE results[k]]

(* Mutant: the results of the keys that leave stay. *)
CachedForEver(cache, key, value, window) ==
  [Trimmed(cache.results, Append(cache.keys, key), window)
     EXCEPT !.results = Put(cache.results, key, value)]

Cached(cache, key, value, window) ==
  Trimmed(Put(cache.results, key, value), Append(cache.keys, key), window)
=============================================================================
