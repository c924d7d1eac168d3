----------------------------- MODULE AppCaches -----------------------------
(* The bounded caches of application identity: identity.Cache and          *)
(* cliAuxCache, least recently used first out, each entry holding two      *)
(* halves that are put separately; and the extension metadata cache, first *)
(* in first out, with one entry per path. A key is a path and the stamp    *)
(* (modification time and size) of a file. The newest entry comes first.   *)
EXTENDS Naturals, SequencesExt

Absent == <<>>     \* a half that was not put yet; one that was is <<value>>

Keys(cache) == {cache[i].key : i \in DOMAIN cache}

Place(cache, key) == CHOOSE i \in DOMAIN cache : cache[i].key = key

Entry(cache, key) == cache[Place(cache, key)]

Without(cache, key) == RemoveAt(cache, Place(cache, key))

\* Back to the front of the list.
Touch(cache, key) == <<Entry(cache, key)>> \o Without(cache, key)

\* addLocked: a full cache loses its oldest entry.
Add(cache, capacity, entry) ==
  <<entry>> \o (IF Len(cache) >= capacity THEN Front(cache) ELSE cache)

\* One half of an entry, new or updated in place, becomes the newest.
PutHalf(cache, capacity, key, half, value) ==
  IF key \in Keys(cache)
  THEN <<[Entry(cache, key) EXCEPT ![half] = <<value>>]>> \o Without(cache, key)
  ELSE Add(cache, capacity,
           [[key |-> key, first |-> Absent, second |-> Absent]
            EXCEPT ![half] = <<value>>])

\* identity.Cache.Get touches the entry whichever halves it holds; the CLI
\* cache touches it only for a half that is there.
Get(cache, key) == IF key \in Keys(cache) THEN Touch(cache, key) ELSE cache

HasHalf(cache, key, half) == key \in Keys(cache) /\ Entry(cache, key)[half] # Absent

GetHalf(cache, key, half) == IF HasHalf(cache, key, half) THEN Touch(cache, key) ELSE cache

\* The metadata cache: an entry is used only at the stamp it was read at,
\* and a new one for the same path keeps the old one's turn to go.
MetaHit(cache, key) ==
  \E i \in DOMAIN cache : cache[i].key = key

PutMeta(cache, capacity, key, value) ==
  LET entry == [key |-> key, value |-> value]
      places == {i \in DOMAIN cache : cache[i].key.path = key.path}
  IN IF places # {}
     THEN [i \in DOMAIN cache |-> IF i \in places THEN entry ELSE cache[i]]
     ELSE Add(cache, capacity, entry)
==============================================================================
