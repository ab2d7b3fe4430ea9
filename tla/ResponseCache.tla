---------------------------- MODULE ResponseCache ----------------------------
(***************************************************************************)
(* The LRU cache of issue lists (app/cache.py), as operators over the      *)
(* OrderedDict's content: a sequence of entries, the least recently used   *)
(* first.  An entry is a record [key, etag, data].                         *)
(***************************************************************************)
EXTENDS Integers, Sequences

CONSTANT MaxEntries   \* settings.cache_max_entries

(* cache_max_entries: int = Field(ge=1); ResponseCache refuses less. *)
ASSUME MaxEntriesAssumption == MaxEntries \in Nat \ {0}

Has(entries, key) == \E i \in 1 .. Len(entries) : entries[i].key = key

Position(entries, key) ==
  CHOOSE i \in 1 .. Len(entries) : entries[i].key = key

Entry(entries, key) == entries[Position(entries, key)]

Remove(entries, key) ==
  LET p == Position(entries, key)
  IN  IF Has(entries, key)
      THEN SubSeq(entries, 1, p - 1) \o SubSeq(entries, p + 1, Len(entries))
      ELSE entries

(* Mutant: a hit leaves the entry where it is. *)
TouchInPlace(entries, key) == entries

(* get(): the entry moves to the end; a miss changes nothing. *)
Touch(entries, key) ==
  IF Has(entries, key)
  THEN Append(Remove(entries, key), Entry(entries, key))
  ELSE entries

(* Mutant: one entry too many is kept. *)
PutOneMore(entries, entry) ==
  LET all    == Append(Remove(entries, entry.key), entry)
      excess == Len(all) - MaxEntries - 1
  IN  IF excess > 0 THEN SubSeq(all, excess + 1, Len(all)) ELSE all

(* set(): the entry goes to the end, whether its key was there or not, and *)
(* the oldest are popped until no more than MaxEntries are left.           *)
Put(entries, entry) ==
  LET all    == Append(Remove(entries, entry.key), entry)
      excess == Len(all) - MaxEntries
  IN  IF excess > 0 THEN SubSeq(all, excess + 1, Len(all)) ELSE all

KeysIn(entries) == {entries[i].key : i \in 1 .. Len(entries)}
=============================================================================
