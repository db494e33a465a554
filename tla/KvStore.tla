------------------------------ MODULE KvStore ------------------------------
(***************************************************************************)
(* The C interface of core/src/kv_store.cpp: what each function does to a  *)
(* store and the status it returns, the mutex around it, and kv_close,     *)
(* which deletes the store and the mutex with it.                          *)
(*                                                                         *)
(* `contents' is what the writer's index leads to in the file (DurableMap's *)
(* `view'); an empty blob is a key that is not there.  `mapped' is whether *)
(* the file is mapped: after a grow() whose mmap failed it is not, and the *)
(* index leads nowhere.  A writer's call is one step: the mutex is held    *)
(* around it.                                                              *)
(***************************************************************************)
EXTENDS Codec

CONSTANTS
  Keys, Threads,
  KeyStrings, MaxKeys  \* kv_all_keys: the keys there may be, and how many

VARIABLES
  store,     \* none, open, closed (kv_store::closed), or freed
  owner,     \* the thread that has the mutex, or none
  contents,
  mapped     \* m_dataRegion has a mapping

kv == <<store, owner, contents, mapped>>

Absent == <<>>
Present == {k \in Keys : contents[k] # Absent}
Empty == [k \in Keys |-> Absent]

NoThread == {}

\* The functions that Kotlin calls.
Fn(name, k, type, v) == [fn |-> name, key |-> k, type |-> type, value |-> v]

-----------------------------------------------------------------------------
\* What a function may return, its out-parameter, the contents it leaves, and
\* whether it leaves them mapped.
Outcome(status, value, after, m) ==
  [status |-> status, value |-> value, after |-> after, mapped |-> m]

\* A function that does not write.
Reading(status, value) == Outcome(status, value, contents, mapped)
Fails == Reading("KV_IO", None)

\* A writer's call that needs room returns true with the file mapped, and
\* false where it could not be grown, with its mapping as it was or lost.
Done(after) == Outcome("KV_OK", None, after, TRUE)
Failures(after) == {Outcome("KV_IO", None, after, m) : m \in {mapped, FALSE}}

\* kv_set_bool, kv_set_i64, kv_set_double, kv_set_bytes.  Bytes of length 0
\* encode to an empty blob, which removes the key.
KvSet(c) ==
  {Done([contents EXCEPT ![c.key] = Encode(c.type, c.value)])}
    \cup Failures(contents)

\* kv_get_bool, kv_get_i64, kv_get_double, kv_get_bytes: a blob that the type
\* cannot be decoded from is not found, and none is where nothing is mapped.
\* kv_get_bytes allocates.
KvGet(c) ==
  LET v == IF contents[c.key] = Absent \/ ~mapped THEN None
           ELSE Decode(c.type, contents[c.key])
  IN  {Reading(IF v = None THEN "KV_NOT_FOUND" ELSE "KV_OK", v)}
        \cup IF c.type = "bytes" /\ v # None THEN {Fails} ELSE {}

\* These look at the index alone.
KvContains(c) ==
  {Reading("KV_OK", Some(<<Cardinality({c.key} \cap Present)>>))}

KvCount == {Reading("KV_OK", Some(<<Cardinality(Present)>>))}

\* kv_all_keys, of which the number of keys stands here: it allocates.
KvAllKeys == KvCount \cup IF Present = {} THEN {} ELSE {Fails}

\* kv_remove: the writer refuses a key that is not there.
KvRemove(c) ==
  IF c.key \in Present
    THEN {Done([contents EXCEPT ![c.key] = Absent])} \cup Failures(contents)
    ELSE {Fails}

\* kv_trim: where nothing is mapped no key has a value, and none is kept.
KvTrim == {Done(IF mapped THEN contents ELSE Empty)} \cup Failures(contents)

\* kv_clear: the writer empties its index before it can fail.
KvClear == {Done(Empty)} \cup Failures(Empty)

\* A function's body, with the mutex.
Outcomes(c) ==
  IF store = "closed" THEN {Reading("KV_CLOSED", None)}
  ELSE CASE c.fn = "set"      -> KvSet(c)
         [] c.fn = "get"      -> KvGet(c)
         [] c.fn = "contains" -> KvContains(c)
         [] c.fn = "count"    -> KvCount
         [] c.fn = "allKeys"  -> KvAllKeys
         [] c.fn = "remove"   -> KvRemove(c)
         [] c.fn = "trim"     -> KvTrim
         [] c.fn = "clear"    -> KvClear

\* A null store is refused before anything is touched.
NullStore == Reading("KV_INVALID_ARG", None)

-----------------------------------------------------------------------------
\* kv_open, of a store with these contents.  One that returns KV_IO or
\* KV_CORRUPT leaves no store, and open() throws.
KvOpen(found) == /\ store = "none"
                 /\ store' = "open"
                 /\ contents' = found
                 /\ mapped' = TRUE
                 /\ UNCHANGED owner

\* lock_guard.
Lock(t) == /\ owner = NoThread
           /\ owner' = {t}
           /\ UNCHANGED <<store, contents, mapped>>

\* Mutant: an error return without the unlock.
Body_KeepsMutex(c, r) ==
  /\ r \in Outcomes(c)
  /\ contents' = r.after
  /\ mapped' = r.mapped
  /\ owner' = IF r.status = "KV_IO" THEN owner ELSE NoThread
  /\ UNCHANGED store

\* The body, and the end of the guard.
Body(c, r) == /\ r \in Outcomes(c)
              /\ contents' = r.after
              /\ mapped' = r.mapped
              /\ owner' = NoThread
              /\ UNCHANGED store

\* kv_close: under the mutex, where the writer's close() empties the index, and
\* then without it.
KvCloseBody == /\ store' = "closed"
               /\ contents' = Empty
               /\ owner' = NoThread
               /\ UNCHANGED mapped

KvDelete == /\ store' = "freed"
            /\ mapped' = FALSE
            /\ UNCHANGED <<owner, contents>>

-----------------------------------------------------------------------------
(***************************************************************************)
(* kv_all_keys gives the keys as C strings, one after the other in one     *)
(* buffer.  Of a key's bytes only their places count: the bytes of a       *)
(* character that UTF-8 gives n of them are 1 .. n, and 0 ends a string.   *)
(***************************************************************************)
Utf8(key) ==
  /\ key \in Seq(1 .. 4)
  /\ \A i \in DOMAIN key : key[i] > 1 => i > 1 /\ key[i - 1] = key[i] - 1

ASSUME KeyStringsAssumption ==
  MaxKeys \in Nat /\ \A key \in KeyStrings : Utf8(key)

Ascii(key) == \A i \in DOMAIN key : key[i] = 1

CString(key) == key \o <<0>>

\* The buffer after each of the keys.
AllKeysBuffer(keys) ==
  Appended(<<>>, [i \in 1 .. Len(keys) |-> CString(keys[i])])

\* Where in it the i-th key is.
KeyAt(keys, i) == Len(AllKeysBuffer(keys)[i - 1]) + 1

\* The string that starts at p, without its end.
StringAt(buffer, p) ==
  LET end == CHOOSE e \in p .. Len(buffer) :
               buffer[e] = 0 /\ \A i \in p .. e - 1 : buffer[i] # 0
  IN  SubSeq(buffer, p, end - 1)

\* Where each string is looked for, by a walk that goes on by step[p] from p.
\* It may leave the buffer: position 0 stands for whatever is there.
Walk(step, count) ==
  LET at[i \in 1 .. count] ==
        IF i = 1 THEN 1
        ELSE LET p == at[i - 1]
             IN  IF p # 0 /\ p + step[p] \in DOMAIN step THEN p + step[p] ELSE 0
  IN  at

\* Mutant: the end of a string is not skipped.
JniAllKeys_NoNul(buffer, count) ==
  Walk([p \in DOMAIN buffer |-> Len(StringAt(buffer, p))], count)

\* nativeAllKeys: strlen.
JniAllKeys(buffer, count) ==
  Walk([p \in DOMAIN buffer |-> Len(StringAt(buffer, p)) + 1], count)

\* String.length: UTF-16 units, of which a character of four bytes has two.
\* What does not begin a character at the start of a string counts as one.
Utf16Length(s) == Cardinality({i \in DOMAIN s : s[i] \in {1, 4} \/ i = 1})

\* QuickStore.ios.kt.
IosAllKeys(buffer, count) ==
  Walk([p \in DOMAIN buffer |-> Utf16Length(StringAt(buffer, p)) + 1], count)

\* allKeys() returns the keys there are (QuickStore.kt:116): what it finds
\* where a key is is the key, and on Android it looks where the keys are.  On
\* iOS it does as long as every key but the last one is ASCII, and otherwise
\* never (kv_store.cpp:209-240, QuickStore.ios.kt:123-131).
KeysWalked ==
  \A n \in 1 .. MaxKeys : \A keys \in [1 .. n -> KeyStrings] :
    LET buffer == AllKeysBuffer(keys)[n]
        Exact(at) == \A i \in 1 .. n : at[i] = KeyAt(keys, i)
    IN  /\ \A i \in 1 .. n : StringAt(buffer, KeyAt(keys, i)) = keys[i]
        /\ Exact(JniAllKeys(buffer, n))
        /\ Exact(IosAllKeys(buffer, n)) <=> \A i \in 1 .. n - 1 : Ascii(keys[i])
=============================================================================
