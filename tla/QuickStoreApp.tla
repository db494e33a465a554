--------------------------- MODULE QuickStoreApp ---------------------------
(***************************************************************************)
(* The threads of a program that share one Kotlin QuickStore: what         *)
(* QuickStore.android.kt and jni_bridge.cpp, or QuickStore.ios.kt, make of *)
(* a call, one native function at a time, and the Editor of                *)
(* QuickStoreSharedPreferences, which commits in several calls.            *)
(*                                                                         *)
(* Once a thread has touched a store that was deleted, the behaviour is    *)
(* undefined and nothing further is described.                             *)
(***************************************************************************)
EXTENDS KvStore, DataParser

CONSTANTS
  Callers, Closers,  \* the threads that call the store, and that close it
  Editor,            \* the thread that has an Editor
  Inputs,            \* typed values that are set
  EditorInputs,      \* typed values that the Editor puts
  GetTypes,          \* types that are read
  BatchKeys,         \* the key lists of batch calls
  ChunkSize          \* 500

\* A value of a type that is set.
Value(type) == IF type = "bytes" THEN Seq(Byte) ELSE Domain(type)

ASSUME InputsAssumption ==
  \A x \in Inputs \cup EditorInputs :
    x.type \in Types /\ x.value \in Value(x.type)

\* A batch of no keys makes no native call.
ASSUME BatchAssumption == BatchKeys \subseteq Seq(Keys) \ {<<>>}

VARIABLES
  platform,        \* "android" or "ios"
  handle,          \* QuickStore._handle: 0, or 1 for the address of the store
  pc, op, next,    \* of each thread: its place, its call, its native call
  ptr,             \* the address it has read from handle
  out,             \* what the native call that returned last step has read
  pending, clearRequested,   \* Editor's
  acked,           \* history: what was set last, by type, and acknowledged
  foreign,         \* history: keys others have written since the flush began
  raced,           \* history: a call of close() has overlapped another call
  undefined        \* a thread has touched memory that was freed

edits   == <<pending, clearRequested>>
local   == <<pc, op, next, ptr>>
history == <<acked, foreign, raced>>
vars    == <<kv, platform, handle, local, out, edits, history, undefined>>

NoOp == [kind |-> "none", calls |-> <<>>]
NoResult == [as |-> "none", value |-> None]
NotSet  == [type |-> "none", value |-> None]

Current(t) == op[t].calls[next[t]]
Reads(c) == c.fn \in {"get", "contains", "count", "allKeys"}
Flushing(t) == op[t].kind = "flush"

Init == /\ store = "none" /\ owner = NoThread
        /\ contents = Empty /\ mapped = FALSE
        /\ platform \in {"android", "ios"}
        /\ handle = 0
        /\ pc = [t \in Threads |-> "idle"]
        /\ op = [t \in Threads |-> NoOp]
        /\ next = [t \in Threads |-> 1]
        /\ ptr = [t \in Threads |-> 0]
        /\ out = NoResult
        /\ pending = <<>> /\ clearRequested = FALSE
        /\ acked = [k \in Keys |-> NotSet]
        /\ foreign = {} /\ raced = FALSE /\ undefined = FALSE

Silent == out' = NoResult

\* The constructor, which publishes the object to every thread.  The store may
\* hold what an earlier one has set.
Construct ==
  /\ \E S \in SUBSET Keys : \E was \in [S -> Inputs] :
       /\ KvOpen([k \in Keys |-> IF k \in S THEN Encode(was[k].type, was[k].value)
                                ELSE Absent])
       /\ acked' = [k \in Keys |->
                     IF k \in S
                       THEN [type |-> was[k].type, value |-> Some(was[k].value)]
                       ELSE NotSet]
  /\ handle' = 1
  /\ Silent
  /\ UNCHANGED <<platform, local, edits, foreign, raced, undefined>>

-----------------------------------------------------------------------------
(***************************************************************************)
(* What a call of Kotlin is made of.                                       *)
(***************************************************************************)
Begin(t, kind, calls) ==
  /\ pc[t] = "idle" /\ store # "none" /\ ~undefined
  /\ pc' = [pc EXCEPT ![t] = "call"]
  /\ op' = [op EXCEPT ![t] = [kind |-> kind, calls |-> calls]]
  /\ Silent
  /\ raced' = (raced \/ \E u \in Threads \ {t} :
                          pc[u] # "idle" /\ "close" \in {kind, op[u].kind})
  /\ UNCHANGED <<kv, platform, handle, next, ptr, edits, acked, foreign,
                 undefined>>

\* An array of length 0 cannot be pinned: on iOS setBytes throws at once.
Settable == {x \in Inputs : platform = "ios" => x.value # <<>>}

\* The methods that take a key, and those that do not.
KeyCalls(k) ==
  {Fn("set", k, x.type, x.value) : x \in Settable}
    \cup {Fn("get", k, type, <<>>) : type \in GetTypes}
    \cup {Fn("contains", k, "", <<>>), Fn("remove", k, "", <<>>)}

StoreCalls ==
  {Fn(name, "", "", <<>>) : name \in {"count", "allKeys", "trim", "clear"}}

Singles == StoreCalls \cup UNION {KeyCalls(k) : k \in Keys}

Single(t) == t \in Callers /\ \E c \in Singles : Begin(t, "single", <<c>>)

BatchGet(t) ==
  /\ t \in Callers
  /\ \E keys \in BatchKeys, type \in GetTypes \ {"bytes"} :
       Begin(t, "batchGet",
             [i \in DOMAIN keys |-> Fn("get", keys[i], type, <<>>)])

BatchSet(t) ==
  /\ t \in Callers
  /\ \E keys \in BatchKeys, x \in {y \in Inputs : y.type # "bytes"} :
       Begin(t, "batchSet",
             [i \in DOMAIN keys |-> Fn("set", keys[i], x.type, x.value)])

Close(t) == t \in Closers /\ Begin(t, "close", <<>>)

\* Mutant: the puts before the clear.
Flush_ClearLast(t) ==
  /\ t = Editor /\ platform = "android"
  /\ clearRequested \/ pending # <<>>
  /\ Begin(t, "flush",
           pending \o
             IF clearRequested THEN <<Fn("clear", "", "", <<>>)>> ELSE <<>>)

\* commit() and apply(): the clear first, then one call for each key.
Flush(t) ==
  /\ t = Editor /\ platform = "android"
  /\ clearRequested \/ pending # <<>>
  /\ Begin(t, "flush",
           (IF clearRequested THEN <<Fn("clear", "", "", <<>>)>> ELSE <<>>)
             \o pending)

\* Mutant: a list, not a map.
Schedule_Appends(c) == pending' = Append(pending, c)

\* A key's place in a LinkedHashMap is that of its first put.
Schedule(c) ==
  LET at == {i \in DOMAIN pending : pending[i].key = c.key}
  IN  pending' = IF at = {} THEN Append(pending, c)
                 ELSE [i \in DOMAIN pending |-> IF i \in at THEN c ELSE pending[i]]

\* put*, remove (and putString of null), and clear, of the Editor.
Edit(t) ==
  /\ t = Editor /\ platform = "android" /\ pc[t] = "idle" /\ store # "none"
  /\ ~undefined
  /\ \/ /\ \E k \in Keys :
             \/ Schedule(Fn("remove", k, "", <<>>))
             \/ \E x \in EditorInputs : Schedule(Fn("set", k, x.type, x.value))
        /\ UNCHANGED clearRequested
     \/ clearRequested' = TRUE /\ UNCHANGED pending
  /\ Silent
  /\ UNCHANGED <<kv, platform, handle, local, history, undefined>>

-----------------------------------------------------------------------------
(***************************************************************************)
(* What each platform makes of a status.  "thrown": an exception.          *)
(* "refused": false, or 0.  "stale": the getter's local variable as the    *)
(* native call has left it, which is as it was.                            *)
(***************************************************************************)
Succeeds(r) == r.status \in {"KV_OK", "KV_NOT_FOUND"}

\* throwIfError.
Throws(r) == ~Succeeds(r)

\* jni_bridge.cpp.  The batch setters look at no status.
AndroidResult(t, r) ==
  IF Throws(r) /\ op[t].kind # "batchSet"
    THEN [as |-> "thrown", value |-> None]
    ELSE [as |-> "returned", value |-> r.value]

\* What a method returns on iOS where the status is an error.
IosError(t) ==
  LET c == Current(t)
  IN  IF c.fn # "get"          THEN [as |-> "refused", value |-> None]
      ELSE IF c.type = "bytes" THEN [as |-> "returned", value |-> Some(<<>>)]
      ELSE [as |-> "stale", value |-> None]

\* Mutant: the getters do not tell "not found" from "found".
IosResult_Unchecked(t, r) ==
  IF r.status = "KV_OK" THEN [as |-> "returned", value |-> r.value]
  ELSE IosError(t)

\* QuickStore.ios.kt.
IosResult(t, r) ==
  IF Succeeds(r) THEN [as |-> "returned", value |-> r.value] ELSE IosError(t)

Result(t, r) == IF platform = "android" THEN AndroidResult(t, r)
                ELSE IosResult(t, r)

\* The call returns; pending is cleared only by a flush that comes to its end.
Return(t) == /\ pc' = [pc EXCEPT ![t] = "idle"]
             /\ op' = [op EXCEPT ![t] = NoOp]
             /\ next' = [next EXCEPT ![t] = 1]
             /\ ptr' = [ptr EXCEPT ![t] = 0]

\* The native call has returned: the next one, the end, or an exception.
Deliver(t, r) ==
  LET res  == Result(t, r)
      last == next[t] = Len(op[t].calls)
  IN  /\ out' = IF Reads(Current(t)) THEN res ELSE NoResult
      /\ IF last \/ res.as = "thrown"
           THEN Return(t)
           ELSE /\ next' = [next EXCEPT ![t] = @ + 1]
                /\ pc' = [pc EXCEPT ![t] = "call"]
                /\ UNCHANGED <<op, ptr>>
      /\ IF Flushing(t) /\ last /\ res.as # "thrown"
           THEN pending' = <<>> /\ clearRequested' = FALSE
           ELSE UNCHANGED edits

\* A clear, which where it fails has cleared for the readers; and a trim without
\* a mapping, which returns true.
DropsAll(c, r) == \/ c.fn = "clear" /\ r.status # "KV_CLOSED"
                  \/ c.fn = "trim" /\ r.status = "KV_OK" /\ ~mapped

\* What was acknowledged, and has not been dropped.
Acknowledge(t, c, r) ==
  /\ acked' =
       CASE c.fn = "set" /\ r.status = "KV_OK" ->
              [acked EXCEPT ![c.key] =
                 [type |-> c.type, value |-> Some(c.value)]]
         [] c.fn = "remove" /\ r.status = "KV_OK" ->
              [acked EXCEPT ![c.key] = NotSet]
         [] DropsAll(c, r) -> [k \in Keys |-> NotSet]
         [] OTHER -> acked
  /\ foreign' = IF op'[Editor].kind # "flush" THEN {}
                ELSE IF t = Editor \/ Reads(c) THEN foreign
                ELSE foreign \cup IF DropsAll(c, r) THEN Keys ELSE {c.key} \cap Keys

-----------------------------------------------------------------------------
\* _handle is read for each native call, which on Android covers a chunk of a
\* batch.
Rereads(t) == \/ platform = "ios"
              \/ op[t].kind \notin {"batchGet", "batchSet"}
              \/ (next[t] - 1) % ChunkSize = 0

Call(t) ==
  /\ pc[t] = "call" /\ ~undefined
  /\ LET p == IF Rereads(t) THEN handle ELSE ptr[t]
     IN  IF p # 0
           THEN /\ pc' = [pc EXCEPT ![t] = "lock"]
                /\ ptr' = [ptr EXCEPT ![t] = p]
                /\ Silent
                /\ UNCHANGED <<op, next, edits>>
           ELSE IF op[t].kind = "close"
                  THEN Return(t) /\ Silent /\ UNCHANGED edits
                  ELSE Deliver(t, NullStore)
  /\ UNCHANGED <<kv, platform, handle, history, undefined>>

Touches(t) == pc[t] \in {"lock", "body", "delete"} /\ store = "freed"

\* A step on a store that is gone.
UseAfterFree(t) ==
  /\ Touches(t) /\ ~undefined
  /\ undefined' = TRUE /\ Silent
  /\ UNCHANGED <<kv, platform, handle, local, edits, history>>

Acquire(t) == /\ pc[t] = "lock" /\ ~Touches(t) /\ ~undefined
              /\ Lock(t) /\ Silent
              /\ pc' = [pc EXCEPT ![t] = "body"]
              /\ UNCHANGED <<platform, handle, op, next, ptr, edits, history,
                             undefined>>

\* The function under the mutex, and what is made of its result.
Execute(t) ==
  /\ pc[t] = "body" /\ ~Touches(t) /\ op[t].kind # "close" /\ ~undefined
  /\ LET c == Current(t)
     IN  \E r \in Outcomes(c) :
           Body(c, r) /\ Deliver(t, r) /\ Acknowledge(t, c, r)
  /\ UNCHANGED <<platform, handle, raced, undefined>>

CloseBody(t) ==
  /\ pc[t] = "body" /\ ~Touches(t) /\ op[t].kind = "close" /\ ~undefined
  /\ KvCloseBody /\ Silent
  /\ pc' = [pc EXCEPT ![t] = "delete"]
  /\ UNCHANGED <<platform, handle, op, next, ptr, edits, history,
                 undefined>>

Delete(t) ==
  /\ pc[t] = "delete" /\ ~Touches(t) /\ ~undefined
  /\ KvDelete /\ Silent
  /\ pc' = [pc EXCEPT ![t] = "forget"]
  /\ UNCHANGED <<platform, handle, op, next, ptr, edits, history,
                 undefined>>

\* Mutant: the address is kept.
ForgetHandle_Keeps(t) ==
  /\ pc[t] = "forget" /\ ~undefined
  /\ Return(t) /\ Silent
  /\ UNCHANGED <<kv, platform, handle, edits, history, undefined>>

\* nativeClose has returned; only now is the handle set to 0.
ForgetHandle(t) ==
  /\ pc[t] = "forget" /\ ~undefined
  /\ handle' = 0
  /\ Return(t) /\ Silent
  /\ UNCHANGED <<kv, platform, edits, history, undefined>>

Step(t) == \/ Call(t) \/ UseAfterFree(t) \/ Acquire(t) \/ Execute(t)
           \/ CloseBody(t) \/ Delete(t) \/ ForgetHandle(t)

Starts(t) == \/ Single(t) \/ BatchGet(t) \/ BatchSet(t) \/ Close(t)
             \/ Edit(t) \/ Flush(t)

Next == Construct \/ \E t \in Threads : Starts(t) \/ Step(t)

Spec == Init /\ [][Next]_vars

\* A thread that is inside a call goes on, and the mutex is not withheld for
\* good from one that waits for it.  No thread need call anything.
FairSpec == /\ Spec
            /\ \A t \in Threads : WF_vars(Step(t)) /\ SF_vars(Acquire(t))

-----------------------------------------------------------------------------
\* The type invariant.
TypeOK ==
  /\ platform \in {"android", "ios"} /\ handle \in {0, 1}
  /\ store \in {"none", "open", "closed", "freed"}
  /\ owner \in {NoThread} \cup {{t} : t \in Threads}
  /\ \A k \in Keys : contents[k] \in Seq(Byte)
  /\ mapped \in BOOLEAN
  /\ \A t \in Threads :
       /\ pc[t] \in {"idle", "call", "lock", "body", "delete", "forget"}
       /\ pc[t] = "idle" <=> op[t] = NoOp
       /\ op[t].kind \notin {"none", "close"} => next[t] \in DOMAIN op[t].calls
       /\ ptr[t] \in {0, 1}
  /\ \A i, j \in DOMAIN pending : pending[i].key = pending[j].key => i = j
  /\ out.as \in {"none", "returned", "thrown", "refused", "stale"}
  /\ foreign \subseteq Keys

\* What the encoding that the native calls go through promises is stated of the
\* states in which there is no store yet: it depends on none.  A varint ends
\* where it says it does (varint.cpp:5-122).
VarintsAreSelfDelimiting == store = "none" => VarintSelfDelimiting

\* What is encoded as a type is read back as that type (codec.cpp:7-125).
ValuesRoundTrip == store = "none" => RoundTrip

\* A getter of another type refuses the bytes but in the cases that Misreads
\* names (kv_store.cpp:116-144).
MisreadsAreKnown == store = "none" => Misreads

\* allKeys() looks where the keys are (kv_store.cpp:209-240), on iOS exactly
\* where every key but the last one is ASCII.
AllKeysAreWalked == store = "none" => KeysWalked

\* A log that is cut anywhere is read as the records that are whole
\* (data_parser.cpp:13-80).
LogsAreScanned == store = "none" => LogScanned

\* No bytes lead to a value outside the size (data_parser.cpp:39-63).
ScansStayInside == store = "none" => ScanInside

\* "concurrent access to the same instance from multiple threads is safe"
\* (QuickStore.kt:10), but for close(): no thread touches a store that is
\* deleted, or deletes it again, unless a close() has overlapped another call.
\* The other calls may overlap in any way, and come after close() too.
UndefinedOnlyIfRaced == undefined => raced

\* A getter of the type that was set last yields the value, from whatever
\* thread and in whatever call it was set, and a key that was never set or was
\* removed yields null.  While a failed grow() has left the store without a
\* mapping every getter yields null (writer.cpp:542-596, mmap_region.cpp:60-66);
\* the call that grows it brings all values back, but for trim(), which returns
\* true and has dropped them (writer.cpp:374-375).  The other exceptions: bytes
\* of length 0, "a valid value" (QuickStore.kt:58), read as null
\* (kv_store.cpp:107, codec.cpp:122); and on iOS bytes that cannot be allocated
\* read as none (QuickStore.ios.kt:80-87).
ReadsBack ==
  [][\A t \in Threads :
       pc[t] = "body" /\ pc'[t] # "body" /\ op[t].kind # "close"
         /\ store = "open" /\ Current(t).fn = "get" /\ out'.as # "thrown" =>
         LET c == Current(t)
             a == acked[c.key]
         IN  /\ a = NotSet \/ ~mapped => out'.value = None
             /\ /\ mapped /\ a.type = c.type
                /\ c.type = "bytes" => a.value # Some(<<>>) /\ platform # "ios"
                => out'.value = a.value]_vars

\* On iOS a getter returns its local variable where the status is an error.
\* Only a close() can bring that about (QuickStore.ios.kt:55-71, 144).
StaleOnlyAfterClose ==
  out.as = "stale" => store \in {"closed", "freed"}

\* A commit() that returns has applied its edits: the clear, then the puts and
\* the removals, to every key no other thread has written meanwhile
\* (QuickStoreSharedPreferences.kt:217-238).
CommitApplied ==
  [][\A t \in Threads :
       Flushing(t) /\ pc'[t] = "idle" /\ pending' = <<>> /\ ~clearRequested' =>
         \A k \in Keys \ foreign :
           LET puts == {i \in DOMAIN pending : pending[i].key = k}
           IN  /\ \A i \in puts :
                    acked'[k] = IF pending[i].fn = "remove" THEN NotSet
                                ELSE [type  |-> pending[i].type,
                                      value |-> Some(pending[i].value)]
               /\ puts = {} /\ clearRequested => acked'[k] = NotSet]_vars

\* QuickStoreSharedPreferences.kt:110, mutations are "applied atomically": a
\* commit() that throws has made no native call that succeeded.
CommitAtomic ==
  [][\A t \in Threads :
       Flushing(t) /\ pc'[t] = "idle" /\ (pending' # <<>> \/ clearRequested') =>
         next[t] = 1]_vars

\* Every call returns, or throws: the mutex is given back on every path.
CallsReturn ==
  \A t \in Threads : pc[t] # "idle" ~> (pc[t] = "idle" \/ undefined)
=============================================================================
