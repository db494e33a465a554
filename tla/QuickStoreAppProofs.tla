------------------------ MODULE QuickStoreAppProofs ------------------------
(***************************************************************************)
(* What the callers of a store can rely on, for any number of threads,     *)
(* callers and closers, any keys, any lists of batches and any widths.     *)
(*                                                                         *)
(* The store is touched after it is deleted only where a close() has       *)
(* overlapped another call.  UndefinedOnlyIfRaced is not inductive: what   *)
(* is, is that a thread has an address only while it is in a call          *)
(* (Addressed), that a close() without a race is alone (Alone), and that   *)
(* the addresses of a deleted store are then the closer's own and the      *)
(* handle it is about to clear (Unreachable).                              *)
(*                                                                         *)
(* A commit() that returns has applied its edits: CallInvariant follows it *)
(* from one native call to the next.  A getter of a store that is mapped   *)
(* yields what was set last: the contents of an open store are the         *)
(* encoding of what was acknowledged (Holding), and every encoding is read *)
(* back (CodecProofs).                                                     *)
(*                                                                         *)
(* Last, what allKeys() makes of the buffer it is given: a walk finds the  *)
(* keys exactly where each of its steps leads from one key to the next.    *)
(***************************************************************************)
EXTENDS QuickStoreApp, DataParserProofs

PCs == {"idle", "call", "lock", "body", "delete", "forget"}

Typed == /\ pc \in [Threads -> PCs]
         /\ ptr \in [Threads -> {0, 1}]
         /\ op = [t \in Threads |-> op[t]]
         /\ handle \in {0, 1}
         /\ store \in {"none", "open", "closed", "freed"}

Addressed ==
  \A t \in Threads :
    /\ pc[t] = "idle" => ptr[t] = 0
    /\ pc[t] \in {"lock", "body", "delete", "forget"} => ptr[t] = 1
    /\ pc[t] \in {"delete", "forget"} => op[t].kind = "close"

\* The store's life, as the handle and the threads show it.
Stages ==
  /\ store = "none" => \A t \in Threads : pc[t] = "idle"
  /\ handle = 0 => store \in {"none", "freed"}
  /\ \A t \in Threads : pc[t] = "forget" => store = "freed"

Alone ==
  \A t, u \in Threads :
    t # u /\ pc[t] # "idle" /\ pc[u] # "idle" => op[t].kind # "close"

Unreachable ==
  store = "freed" =>
    /\ \A t \in Threads : pc[t] # "forget" => ptr[t] = 0
    /\ handle = 0 \/ \E t \in Threads : pc[t] = "forget"

Inv == /\ Typed /\ Addressed /\ Stages
       /\ ~raced => Alone /\ Unreachable /\ ~undefined

-----------------------------------------------------------------------------
(***************************************************************************)
(* What a step of one thread leaves of the others.                         *)
(***************************************************************************)
\* Thread t goes to a place, in a call, with an address.
Moves(t, place, call, address) ==
  /\ pc' = [pc EXCEPT ![t] = place]
  /\ op' = [op EXCEPT ![t] = call]
  /\ ptr' = [ptr EXCEPT ![t] = address]

\* It does so with nothing changed for the others.
LEMMA MoveEffect ==
  ASSUME Typed, NEW t \in Threads, NEW place \in PCs, NEW call,
         NEW address \in {0, 1}, Moves(t, place, call, address)
  PROVE  /\ pc' \in [Threads -> PCs] /\ ptr' \in [Threads -> {0, 1}]
         /\ op' = [u \in Threads |-> op'[u]]
         /\ pc'[t] = place /\ op'[t] = call /\ ptr'[t] = address
         /\ \A u \in Threads \ {t} :
              pc'[u] = pc[u] /\ op'[u] = op[u] /\ ptr'[u] = ptr[u]
BY DEF Typed, Moves

\* The platform is one or the other, for good.
OnePlatform == platform \in {"android", "ios"}

\* A native call that returns ends the call, or goes on to the next one.
LEMMA DeliverMoves ==
  ASSUME Typed, NEW t \in Threads, NEW r, Deliver(t, r)
  PROVE  Moves(t, "idle", NoOp, 0) \/ Moves(t, "call", op[t], ptr[t])
<1>1. op = [op EXCEPT ![t] = op[t]] /\ ptr = [ptr EXCEPT ![t] = ptr[t]]
  BY DEF Typed
<1> QED
  BY <1>1 DEF Deliver, Return, Moves

\* What a step of t must establish for the invariant to be kept, where it
\* does not delete the store or clear the handle.
Continues(t, place, call, address) ==
  /\ Moves(t, place, call, address)
  /\ store' = store \/ (store = "open" /\ store' = "closed")
  /\ store # "none" /\ UNCHANGED <<handle, raced, undefined>>
  /\ pc[t] \notin {"idle", "forget"}
  /\ place \in {"idle", "call", "lock", "body", "delete"} /\ address \in {0, 1}
  /\ place = "idle" => address = 0
  /\ place \in {"lock", "body", "delete"} => address = 1
  /\ place = "delete" => call.kind = "close"
  /\ place # "idle" => call = op[t]
  /\ ~raced /\ store' = "freed" => address = 0

LEMMA ContinuesInv ==
  ASSUME Inv, NEW t \in Threads, NEW place, NEW call, NEW address,
         Continues(t, place, call, address)
  PROVE  Inv'
<1> USE DEF Inv, Continues
<1>0. place \in PCs
  BY DEF PCs
<1>1. Typed'
  BY <1>0, MoveEffect DEF Typed
<1>2. Addressed'
  BY <1>0, MoveEffect DEF Addressed, Typed
<1>3. Stages'
  BY <1>0, MoveEffect DEF Stages, Typed
<1>4. ASSUME ~raced'  PROVE Alone'
  BY <1>0, <1>4, MoveEffect DEF Alone, Typed
<1>5. ASSUME ~raced'  PROVE Unreachable'
  <2>1. ASSUME store' = "freed"  PROVE Unreachable
    BY <1>5
  <2>2. store' = "freed" => store = "freed"
    OBVIOUS
  <2> QED
    BY <1>0, <1>5, <2>1, <2>2, MoveEffect DEF Unreachable
<1> QED
  BY <1>1, <1>2, <1>3, <1>4, <1>5

-----------------------------------------------------------------------------
(***************************************************************************)
(* Each action keeps the invariant.                                        *)
(***************************************************************************)
LEMMA InitInv == Init => Inv
BY DEF Init, Inv, Typed, PCs, Addressed, Stages, Alone, Unreachable, NoOp

LEMMA ConstructInv == Inv /\ Construct => Inv'
BY DEF Construct, KvOpen, Inv, Typed, Addressed, Stages, Alone, Unreachable,
       local, history

\* A call that begins while another thread is in a close(), or a close() that
\* does while another thread is in a call, is a race.
LEMMA BeginInv ==
  ASSUME Inv, NEW t \in Threads, NEW kind, NEW calls, Begin(t, kind, calls)
  PROVE  Inv'
<1> DEFINE call == [kind |-> kind, calls |-> calls]
<1>1. /\ pc[t] = "idle" /\ store # "none" /\ ptr[t] = 0
      /\ store' = store /\ handle' = handle /\ undefined' = undefined
      /\ Moves(t, "call", call, 0)
  BY DEF Begin, Inv, Typed, Addressed, Moves, kv
<1>2. /\ pc' \in [Threads -> PCs] /\ ptr' \in [Threads -> {0, 1}]
      /\ op' = [u \in Threads |-> op'[u]]
      /\ pc'[t] = "call" /\ op'[t] = call /\ ptr'[t] = 0
      /\ \A u \in Threads \ {t} :
           pc'[u] = pc[u] /\ op'[u] = op[u] /\ ptr'[u] = ptr[u]
  <2> HIDE DEF call
  <2> QED
    BY <1>1, MoveEffect DEF Inv, PCs
<1>3. Typed' /\ Addressed' /\ Stages'
  BY <1>1, <1>2 DEF Inv, Typed, Addressed, Stages
<1>4. ASSUME ~raced'
      PROVE  Alone' /\ Unreachable' /\ ~undefined'
  <2>1. Alone /\ Unreachable /\ ~undefined
    BY <1>4 DEF Inv, Begin
  <2>2. \A u \in Threads \ {t} :
          pc[u] # "idle" => kind # "close" /\ op[u].kind # "close"
    BY <1>4 DEF Begin
  <2>3. Alone'
    BY <1>2, <2>1, <2>2 DEF Alone
  <2>4. Unreachable'
    BY <1>1, <1>2, <2>1 DEF Unreachable
  <2> QED
    BY <1>1, <2>1, <2>3, <2>4
<1> QED
  BY <1>3, <1>4 DEF Inv

LEMMA StartsInv ==
  ASSUME Inv, NEW t \in Threads, Starts(t)
  PROVE  Inv'
<1>1. CASE Edit(t)
  BY <1>1 DEF Edit, Inv, Typed, Addressed, Stages, Alone, Unreachable, kv,
              local, history
<1>2. CASE ~Edit(t)
  <2>1. \E kind, calls : Begin(t, kind, calls)
    BY <1>2 DEF Starts, Single, BatchGet, BatchSet, Close, Flush
  <2> QED
    BY <2>1, BeginInv
<1> QED
  BY <1>1, <1>2

\* Where no close() has raced, a thread that is about to call and finds the
\* store deleted has no address: the closer would have to be in its call still.
LEMMA NoAddress ==
  ASSUME Inv, ~raced, store = "freed", NEW t \in Threads, pc[t] = "call"
  PROVE  handle = 0 /\ ptr[t] = 0
<1>1. ~\E u \in Threads : pc[u] = "forget"
  BY DEF Inv, Alone, Addressed
<1> QED
  BY <1>1 DEF Inv, Unreachable

LEMMA CallInv ==
  ASSUME Inv, NEW t \in Threads, Call(t)
  PROVE  Inv'
<1> DEFINE p == IF Rereads(t) THEN handle ELSE ptr[t]
<1>1. /\ pc[t] = "call" /\ store # "none" /\ p \in {0, 1}
      /\ store' = store /\ handle' = handle /\ raced' = raced
      /\ undefined' = undefined
  BY DEF Call, Inv, Typed, Stages, kv, history
<1>2. ~raced /\ store' = "freed" => p = 0 /\ ptr[t] = 0
  BY <1>1, NoAddress
<1>3. CASE p # 0
  <2>1. Moves(t, "lock", op[t], 1)
    <3>1. pc' = [pc EXCEPT ![t] = "lock"] /\ ptr' = [ptr EXCEPT ![t] = p]
          /\ op' = op
      BY <1>3 DEF Call
    <3>2. op = [op EXCEPT ![t] = op[t]]
      BY DEF Inv, Typed
    <3> QED
      BY <1>1, <1>3, <3>1, <3>2 DEF Moves
  <2> QED
    <3>1. Continues(t, "lock", op[t], 1)
      BY <1>1, <1>2, <1>3, <2>1 DEF Continues
    <3> QED
      BY <3>1, ContinuesInv
<1>4. CASE p = 0
  <2>1. Moves(t, "idle", NoOp, 0) \/ Moves(t, "call", op[t], ptr[t])
    <3>1. CASE op[t].kind = "close"
      BY <1>4, <3>1 DEF Call, Return, Moves
    <3>2. CASE op[t].kind # "close"
      BY <1>4, <3>2, DeliverMoves DEF Call, Inv
    <3> QED
      BY <3>1, <3>2
  <2>2. ptr[t] \in {0, 1}
    BY DEF Inv, Typed
  <2>3. CASE Moves(t, "idle", NoOp, 0)
    <3>1. Continues(t, "idle", NoOp, 0)
      BY <1>1, <2>3 DEF Continues
    <3> QED
      BY <3>1, ContinuesInv
  <2>4. CASE Moves(t, "call", op[t], ptr[t])
    <3>1. Continues(t, "call", op[t], ptr[t])
      BY <1>1, <1>2, <2>2, <2>4 DEF Continues
    <3> QED
      BY <3>1, ContinuesInv
  <2> QED
    BY <2>1, <2>3, <2>4
<1> QED
  BY <1>1, <1>3, <1>4

LEMMA UseAfterFreeInv ==
  ASSUME Inv, NEW t \in Threads, UseAfterFree(t)
  PROVE  Inv'
<1>1. raced
  BY DEF UseAfterFree, Touches, Inv, Addressed, Unreachable
<1>2. UNCHANGED <<pc, op, ptr, handle, store, raced>>
  BY DEF UseAfterFree, kv, local, history
<1> QED
  BY <1>1, <1>2 DEF Inv, Typed, Addressed, Stages

LEMMA AcquireInv ==
  ASSUME Inv, NEW t \in Threads, Acquire(t)
  PROVE  Inv'
<1>1. /\ pc[t] = "lock" /\ store # "freed" /\ store # "none" /\ ptr[t] = 1
      /\ store' = store /\ handle' = handle /\ raced' = raced
      /\ undefined' = undefined
  BY DEF Acquire, Touches, Lock, Inv, Addressed, Stages, history
<1>2. Moves(t, "body", op[t], 1)
  BY <1>1 DEF Acquire, Moves, Inv, Typed
<1>3. Continues(t, "body", op[t], 1)
  BY <1>1, <1>2 DEF Continues
<1> QED
  BY <1>3, ContinuesInv

LEMMA ExecuteInv ==
  ASSUME Inv, NEW t \in Threads, Execute(t)
  PROVE  Inv'
<1>1. PICK r \in Outcomes(Current(t)) :
        Body(Current(t), r) /\ Deliver(t, r)
  BY DEF Execute
<1>2. /\ pc[t] = "body" /\ store # "freed" /\ store # "none" /\ ptr[t] = 1
      /\ store' = store /\ handle' = handle /\ raced' = raced
      /\ undefined' = undefined
  BY <1>1 DEF Execute, Touches, Body, Inv, Addressed, Stages
<1>3. CASE Moves(t, "idle", NoOp, 0)
  <2>1. Continues(t, "idle", NoOp, 0)
    BY <1>2, <1>3 DEF Continues
  <2> QED
    BY <2>1, ContinuesInv
<1>4. CASE Moves(t, "call", op[t], ptr[t])
  <2>1. Continues(t, "call", op[t], ptr[t])
    BY <1>2, <1>4 DEF Continues
  <2> QED
    BY <2>1, ContinuesInv
<1> QED
  BY <1>1, <1>3, <1>4, DeliverMoves DEF Inv

LEMMA CloseBodyInv ==
  ASSUME Inv, NEW t \in Threads, CloseBody(t)
  PROVE  Inv'
<1>1. /\ pc[t] = "body" /\ op[t].kind = "close" /\ ptr[t] = 1
      /\ store \in {"open", "closed"} /\ store' = "closed"
      /\ handle' = handle /\ raced' = raced /\ undefined' = undefined
  BY DEF CloseBody, KvCloseBody, Touches, Inv, Typed, Addressed, Stages,
         history
<1>2. Moves(t, "delete", op[t], 1)
  BY <1>1 DEF CloseBody, Moves, Inv, Typed
<1>3. Continues(t, "delete", op[t], 1)
  BY <1>1, <1>2 DEF Continues
<1> QED
  BY <1>3, ContinuesInv

\* Alone, the closer deletes a store that no other thread has the address of.
LEMMA DeleteInv ==
  ASSUME Inv, NEW t \in Threads, Delete(t)
  PROVE  Inv'
<1>1. /\ pc[t] = "delete" /\ op[t].kind = "close" /\ ptr[t] = 1
      /\ store' = "freed" /\ handle' = handle /\ raced' = raced
      /\ undefined' = undefined /\ store # "none"
  BY DEF Delete, KvDelete, Inv, Addressed, Stages, history
<1>2. Moves(t, "forget", op[t], 1)
  BY <1>1 DEF Delete, Moves, Inv, Typed
<1>3. /\ pc' \in [Threads -> PCs] /\ ptr' \in [Threads -> {0, 1}]
      /\ op' = [u \in Threads |-> op'[u]]
      /\ pc'[t] = "forget" /\ op'[t] = op[t] /\ ptr'[t] = 1
      /\ \A u \in Threads \ {t} :
           pc'[u] = pc[u] /\ op'[u] = op[u] /\ ptr'[u] = ptr[u]
  BY <1>2, MoveEffect DEF Inv, PCs
<1>4. Typed' /\ Addressed' /\ Stages'
  BY <1>1, <1>3 DEF Inv, Typed, Addressed, Stages
<1>5. ~raced' => Alone' /\ Unreachable' /\ ~undefined'
  BY <1>1, <1>3 DEF Inv, Alone, Unreachable, Addressed
<1> QED
  BY <1>4, <1>5 DEF Inv

LEMMA ForgetHandleInv ==
  ASSUME Inv, NEW t \in Threads, ForgetHandle(t)
  PROVE  Inv'
<1>1. /\ pc[t] = "forget" /\ store = "freed" /\ store' = store
      /\ handle' = 0 /\ raced' = raced /\ undefined' = undefined
      /\ Moves(t, "idle", NoOp, 0)
  BY DEF ForgetHandle, Return, Moves, Inv, Stages, kv, history
<1>2. /\ pc' \in [Threads -> PCs] /\ ptr' \in [Threads -> {0, 1}]
      /\ op' = [u \in Threads |-> op'[u]]
      /\ pc'[t] = "idle" /\ ptr'[t] = 0
      /\ \A u \in Threads \ {t} :
           pc'[u] = pc[u] /\ op'[u] = op[u] /\ ptr'[u] = ptr[u]
  BY <1>1, MoveEffect DEF Inv, PCs
<1>3. Typed' /\ Addressed' /\ Stages'
  BY <1>1, <1>2 DEF Inv, Typed, Addressed, Stages
<1>4. ~raced' => Alone' /\ Unreachable' /\ ~undefined'
  BY <1>1, <1>2 DEF Inv, Alone, Unreachable
<1> QED
  BY <1>3, <1>4 DEF Inv

LEMMA NextInv ==
  ASSUME Inv, [Next]_vars
  PROVE  Inv'
<1>1. CASE Construct
  BY <1>1, ConstructInv
<1>2. ASSUME NEW t \in Threads, Starts(t)  PROVE Inv'
  BY <1>2, StartsInv
<1>3. ASSUME NEW t \in Threads, Step(t)  PROVE Inv'
  BY <1>3, CallInv, UseAfterFreeInv, AcquireInv, ExecuteInv, CloseBodyInv,
     DeleteInv, ForgetHandleInv DEF Step
<1>4. CASE UNCHANGED vars
  BY <1>4 DEF vars, kv, local, history, Inv, Typed, Addressed, Stages, Alone,
              Unreachable
<1> QED
  BY <1>1, <1>2, <1>3, <1>4 DEF Next

-----------------------------------------------------------------------------
\* The threads may call, commit and close in any order and any number: a
\* deleted store is touched only where a close() has overlapped another call
\* (QuickStore.kt:10, kv_store.cpp:60-73, QuickStore.android.kt:69-74).
THEOREM OnlyRacesAreUndefined == Spec => []UndefinedOnlyIfRaced
<1>1. Inv => UndefinedOnlyIfRaced
  BY DEF Inv, UndefinedOnlyIfRaced
<1> QED
  BY <1>1, InitInv, NextInv, PTL DEF Spec

-----------------------------------------------------------------------------
\* Where the status is not an error, and where the function is not a getter,
\* no result is stale.
LEMMA StaleResult ==
  ASSUME NEW t \in Threads, NEW r, Result(t, r).as = "stale"
  PROVE  /\ platform # "android" /\ ~Succeeds(r)
         /\ Current(t).fn = "get" /\ Current(t).type # "bytes"
BY DEF Result, AndroidResult, IosResult, IosError

LEMMA DeliverStale ==
  ASSUME NEW t \in Threads, NEW r, Deliver(t, r), out'.as = "stale"
  PROVE  /\ platform # "android" /\ ~Succeeds(r)
         /\ Current(t).fn = "get" /\ Current(t).type # "bytes"
<1>1. Result(t, r).as = "stale"
  BY DEF Deliver, NoResult
<1> QED
  BY <1>1, StaleResult

\* A get that is let in, and allocates nothing, finds the key or does not.
LEMMA OpenGet ==
  ASSUME NEW c, c.fn = "get", c.type # "bytes", store # "closed",
         NEW r \in Outcomes(c)
  PROVE  Succeeds(r)
BY DEF Outcomes, KvGet, Reading, Outcome, Succeeds

LEMMA CallStale ==
  ASSUME Inv, OnePlatform, NEW t \in Threads, Call(t), out'.as = "stale"
  PROVE  store' = "freed"
<1>1. /\ store' = store /\ store # "none"
  BY DEF Call, Inv, Stages, kv
<1>2. ~(out' = NoResult)
  BY DEF NoResult
<1>3. Deliver(t, NullStore) /\ (IF Rereads(t) THEN handle ELSE ptr[t]) = 0
  BY <1>2 DEF Call, Silent
<1>4. Rereads(t)
  <2>1. platform # "android"
    BY <1>3, DeliverStale
  <2> QED
    BY <2>1 DEF Rereads, OnePlatform
<1> QED
  BY <1>1, <1>3, <1>4 DEF Inv, Stages

LEMMA ExecuteStale ==
  ASSUME Inv, NEW t \in Threads, Execute(t), out'.as = "stale"
  PROVE  store' = "closed"
<1>1. PICK r \in Outcomes(Current(t)) :
        Body(Current(t), r) /\ Deliver(t, r)
  BY DEF Execute
<1>2. /\ Current(t).fn = "get" /\ Current(t).type # "bytes"
      /\ ~Succeeds(r)
  BY <1>1, DeliverStale
<1>3. store = "closed"
  BY <1>2, OpenGet
<1> QED
  BY <1>1, <1>3 DEF Body

\* Whatever else a getter finds, it returns its own local variable only where
\* a close() has closed the store (QuickStore.ios.kt:55-71, 144).
THEOREM StaleNeedsClose == Spec => []StaleOnlyAfterClose
<1> DEFINE I == Inv /\ OnePlatform /\ StaleOnlyAfterClose
<1>1. Init => I
  BY InitInv DEF Init, OnePlatform, StaleOnlyAfterClose, NoResult
<1>2. I /\ [Next]_vars => I'
  <2> SUFFICES ASSUME I, [Next]_vars  PROVE I'
    OBVIOUS
  <2>0. platform' = platform
    BY DEF Next, Construct, Starts, Single, BatchGet, BatchSet, Close, Flush,
           Edit, Begin, Step, Call, UseAfterFree, Acquire, Execute, CloseBody,
           Delete, ForgetHandle, vars
  <2>1. Inv' /\ OnePlatform'
    BY <2>0, NextInv DEF OnePlatform
  <2>2. CASE out' = NoResult
    BY <2>1, <2>2 DEF StaleOnlyAfterClose, NoResult
  <2>3. ASSUME NEW t \in Threads, Call(t)  PROVE StaleOnlyAfterClose'
    BY <2>3, CallStale DEF StaleOnlyAfterClose
  <2>4. ASSUME NEW t \in Threads, Execute(t)  PROVE StaleOnlyAfterClose'
    BY <2>4, ExecuteStale DEF StaleOnlyAfterClose
  <2>5. CASE UNCHANGED vars
    BY <2>1, <2>5 DEF vars, kv, StaleOnlyAfterClose
  <2>6. CASE Construct
    BY <2>2, <2>6 DEF Construct, Silent
  <2>7. ASSUME NEW t \in Threads, Starts(t)  PROVE out' = NoResult
    BY <2>7 DEF Starts, Single, BatchGet, BatchSet, Close, Flush, Edit, Begin,
                Silent
  <2>8. ASSUME NEW t \in Threads, Step(t), ~Call(t), ~Execute(t)
        PROVE  out' = NoResult
    BY <2>8 DEF Step, UseAfterFree, Acquire, CloseBody, Delete, ForgetHandle,
                Silent
  <2> QED
    BY <2>1, <2>2, <2>3, <2>4, <2>5, <2>6, <2>7, <2>8 DEF Next
<1>3. I => StaleOnlyAfterClose
  OBVIOUS
<1> QED
  BY <1>1, <1>2, <1>3, PTL DEF Spec

-----------------------------------------------------------------------------
(***************************************************************************)
(* What a commit applies.  While the Editor flushes, its pending edits are *)
(* still there, and the calls it has made are those that come before       *)
(* next[Editor]: every key that no other thread has written since then is  *)
(* as they left it (Committing).  No key is edited twice in a flush, which *)
(* is why a later call undoes nothing.                                     *)
(***************************************************************************)
ClearCall == Fn("clear", "", "", <<>>)
Removal(k) == Fn("remove", k, "", <<>>)
Puts(k)    == {Fn("set", k, x.type, x.value) : x \in EditorInputs}
EditCalls  == UNION {{Removal(k)} \cup Puts(k) : k \in Keys}

Functions == {"set", "get", "contains", "remove", "count", "allKeys", "trim",
              "clear"}
OfKeys    == {"set", "get", "contains", "remove"}

\* A native call that Kotlin makes.
IsCall(c) == /\ c.fn \in Functions
             /\ c.fn \in OfKeys => c.key \in Keys
             /\ c.fn = "set" => c.type \in Types /\ c.value \in Value(c.type)

IsCallList(calls) ==
  /\ Len(calls) \in Nat /\ Len(calls) > 0
  /\ DOMAIN calls = 1 .. Len(calls)
  /\ \A i \in 1 .. Len(calls) : IsCall(calls[i])

Kinds == {"single", "batchGet", "batchSet", "close", "flush"}

Calling ==
  \A t \in Threads :
    /\ pc[t] = "idle" => op[t] = NoOp /\ next[t] = 1
    /\ pc[t] # "idle" => op[t].kind \in Kinds
    /\ next[t] \in Nat
    /\ op[t].kind \in Kinds \ {"close"} =>
         IsCallList(op[t].calls) /\ next[t] \in 1 .. Len(op[t].calls)
    /\ op[t].kind = "batchSet" =>
         \A i \in 1 .. Len(op[t].calls) : op[t].calls[i].fn = "set"

\* pending, a LinkedHashMap.
Editing == /\ pending \in Seq(EditCalls) /\ clearRequested \in BOOLEAN
           /\ \A i, j \in 1 .. Len(pending) :
                pending[i].key = pending[j].key => i = j

\* The place in a flush before that of the first edit.
Offset == IF clearRequested THEN 1 ELSE 0

\* What an edit leaves its key as.
Target(c) == IF c.fn = "remove" THEN NotSet
             ELSE [type |-> c.type, value |-> Some(c.value)]

\* Before its n-th call the flush has made of key k what a is.
Applied(k, n, a) ==
  /\ \A i \in 1 .. Len(pending) :
       Offset + i < n /\ pending[i].key = k => a = Target(pending[i])
  /\ clearRequested /\ n > 1
       /\ (\A i \in 1 .. Len(pending) : Offset + i < n => pending[i].key # k) =>
     a = NotSet

Committing ==
  \A t \in Threads :
    Flushing(t) =>
      /\ t = Editor /\ platform = "android"
      /\ Len(op[t].calls) = Offset + Len(pending)
      /\ clearRequested => op[t].calls[1] = ClearCall
      /\ \A i \in 1 .. Len(pending) : op[t].calls[Offset + i] = pending[i]
      /\ \A k \in Keys \ foreign : Applied(k, next[t], acked[k])

CallInvariant == /\ Calling /\ Editing /\ Committing /\ OnePlatform
                 /\ next = [t \in Threads |-> next[t]]
                 /\ acked = [k \in Keys |-> acked[k]]

LEMMA InitCallInvariant == Init => CallInvariant
<1> SUFFICES ASSUME Init PROVE CallInvariant
  OBVIOUS
<1>1. /\ pending \in Seq(EditCalls) /\ Len(pending) = 0
      /\ clearRequested \in BOOLEAN
  BY EmptySeq DEF Init
<1>2. \A t \in Threads : /\ op[t] = NoOp /\ op[t].kind = "none"
                         /\ pc[t] = "idle" /\ next[t] = 1
  BY DEF Init, NoOp
<1>3. Calling /\ Committing
  BY <1>2 DEF Calling, Committing, Kinds, Flushing
<1>4. Editing
  BY <1>1 DEF Editing
<1> QED
  BY <1>3, <1>4 DEF Init, CallInvariant, OnePlatform

\* A list of one call.
LEMMA OneCall ==
  ASSUME NEW c, IsCall(c)
  PROVE  IsCallList(<<c>>) /\ Len(<<c>>) = 1 /\ <<c>>[1] = c
BY DEF IsCallList

\* A batch is a call for each key.
LEMMA BatchLength ==
  ASSUME NEW keys \in BatchKeys
  PROVE  /\ Len(keys) \in Nat /\ Len(keys) > 0 /\ DOMAIN keys = 1 .. Len(keys)
         /\ \A i \in 1 .. Len(keys) : keys[i] \in Keys
<1>1. keys \in Seq(Keys) /\ keys # <<>>
  BY BatchAssumption
<1> QED
  BY <1>1, EmptySeq, LenProperties, ElementOfSeq

LEMMA BatchCalls ==
  ASSUME NEW keys \in BatchKeys, NEW name, NEW type, NEW v,
         \A k \in Keys : IsCall(Fn(name, k, type, v))
  PROVE  LET calls == [i \in DOMAIN keys |-> Fn(name, keys[i], type, v)]
         IN  /\ IsCallList(calls)
             /\ \A i \in 1 .. Len(calls) : calls[i].fn = name
<1> DEFINE n == Len(keys)
           calls == [i \in 1 .. n |-> Fn(name, keys[i], type, v)]
<1>1. /\ n \in Nat /\ n > 0 /\ DOMAIN keys = 1 .. n
      /\ \A i \in 1 .. n : keys[i] \in Keys
  BY BatchLength
<1> HIDE DEF n
<1>2. Len(calls) = n /\ DOMAIN calls = 1 .. n
  BY <1>1
<1>3. \A i \in 1 .. n : IsCall(calls[i]) /\ calls[i].fn = name
  BY <1>1 DEF Fn
<1> HIDE DEF calls
<1>4. IsCallList(calls) /\ \A i \in 1 .. Len(calls) : calls[i].fn = name
  BY <1>1, <1>2, <1>3 DEF IsCallList
<1> QED
  BY <1>1, <1>4 DEF calls

\* What a flush is made of.
LEMMA EditCallProperties ==
  ASSUME NEW c \in EditCalls
  PROVE  IsCall(c) /\ c.fn \in {"set", "remove"} /\ c.key \in Keys
<1>1. PICK k \in Keys : c = Removal(k) \/ c \in Puts(k)
  BY DEF EditCalls
<1>2. CASE c = Removal(k)
  <2>1. c.fn = "remove" /\ c.key = k
    BY <1>2 DEF Removal, Fn
  <2> QED
    BY <2>1 DEF IsCall, Functions, OfKeys
<1>3. CASE c \in Puts(k)
  <2>0. PICK x \in EditorInputs : c = Fn("set", k, x.type, x.value)
    BY <1>3 DEF Puts
  <2>1. c.fn = "set" /\ c.key = k /\ c.type = x.type /\ c.value = x.value
    BY <2>0 DEF Fn
  <2>2. x.type \in Types /\ x.value \in Value(x.type)
    BY InputsAssumption
  <2> QED
    BY <2>1, <2>2 DEF IsCall, Functions, OfKeys
<1> QED
  BY <1>1, <1>2, <1>3

LEMMA FlushCalls ==
  ASSUME Editing, clearRequested \/ pending # <<>>
  PROVE  LET calls == (IF clearRequested THEN <<ClearCall>> ELSE <<>>) \o pending
         IN  /\ IsCallList(calls)
             /\ Len(calls) = Offset + Len(pending)
             /\ clearRequested => calls[1] = ClearCall
             /\ \A i \in 1 .. Len(pending) : calls[Offset + i] = pending[i]
<1> DEFINE S     == EditCalls \cup {ClearCall}
           first == IF clearRequested THEN <<ClearCall>> ELSE <<>>
           calls == first \o pending
<1>1. /\ pending \in Seq(EditCalls) /\ Len(pending) \in Nat
      /\ pending # <<>> => Len(pending) > 0
  BY EmptySeq, LenProperties DEF Editing
<1>2. pending \in Seq(S)
  BY <1>1, SeqMonotonic
<1>3. /\ first \in Seq(S) /\ Len(first) = Offset
      /\ clearRequested => first[1] = ClearCall
  BY EmptySeq DEF Offset, Editing
<1>4. Offset \in {0, 1} /\ (clearRequested => Offset = 1)
  BY DEF Offset
<1> HIDE DEF first
<1>5. /\ calls \in Seq(S) /\ Len(calls) = Offset + Len(pending)
      /\ \A i \in 1 .. Offset + Len(pending) :
           calls[i] = IF i <= Offset THEN first[i] ELSE pending[i - Offset]
  BY <1>2, <1>3, ConcatProperties
<1> HIDE DEF calls
<1>6. DOMAIN calls = 1 .. Len(calls)
      /\ \A i \in 1 .. Len(calls) : calls[i] \in S
  BY <1>5, LenProperties, ElementOfSeq
<1>7. \A c \in S : IsCall(c)
  <2>1. ClearCall.fn = "clear"
    BY DEF ClearCall, Fn
  <2>2. IsCall(ClearCall)
    BY <2>1 DEF IsCall, Functions, OfKeys
  <2> QED
    BY <2>2, EditCallProperties
<1>8. IsCallList(calls)
  BY <1>1, <1>4, <1>5, <1>6, <1>7 DEF IsCallList, Offset
<1>9. clearRequested => calls[1] = ClearCall
  BY <1>1, <1>3, <1>4, <1>5
<1>10. ASSUME NEW i \in 1 .. Len(pending)  PROVE calls[Offset + i] = pending[i]
  BY <1>1, <1>4, <1>5
<1> QED
  BY <1>5, <1>8, <1>9, <1>10 DEF calls, first

-----------------------------------------------------------------------------
(***************************************************************************)
(* Calls that begin, and edits.                                            *)
(***************************************************************************)
LEMMA BeginCall ==
  ASSUME Typed, CallInvariant, NEW t \in Threads, NEW kind \in Kinds, NEW calls,
         Begin(t, kind, calls),
         kind # "close" => IsCallList(calls),
         kind = "batchSet" => \A i \in 1 .. Len(calls) : calls[i].fn = "set",
         kind = "flush" =>
           /\ t = Editor /\ platform = "android"
           /\ Len(calls) = Offset + Len(pending)
           /\ clearRequested => calls[1] = ClearCall
           /\ \A i \in 1 .. Len(pending) : calls[Offset + i] = pending[i]
  PROVE  CallInvariant'
<1> DEFINE call == [kind |-> kind, calls |-> calls]
<1>1. /\ pc[t] = "idle" /\ next' = next /\ next[t] = 1
      /\ pending' = pending /\ clearRequested' = clearRequested
      /\ platform' = platform /\ acked' = acked /\ foreign' = foreign
      /\ pc'[t] = "call" /\ op'[t] = call
      /\ \A u \in Threads \ {t} : pc'[u] = pc[u] /\ op'[u] = op[u]
  BY DEF Begin, Typed, CallInvariant, Calling, edits
<1>2. call.kind = kind /\ call.calls = calls
  OBVIOUS
<1> HIDE DEF call
<1>3. Calling'
  <2>1. ASSUME NEW u \in Threads \ {t}
        PROVE  /\ pc'[u] = "idle" => op'[u] = NoOp /\ next'[u] = 1
               /\ pc'[u] # "idle" => op'[u].kind \in Kinds
               /\ next'[u] \in Nat
               /\ op'[u].kind \in Kinds \ {"close"} =>
                    IsCallList(op'[u].calls) /\ next'[u] \in 1 .. Len(op'[u].calls)
               /\ op'[u].kind = "batchSet" =>
                    \A i \in 1 .. Len(op'[u].calls) : op'[u].calls[i].fn = "set"
    BY <1>1 DEF CallInvariant, Calling
  <2>2. IsCallList(calls) => 1 \in 1 .. Len(calls)
    BY DEF IsCallList
  <2> QED
    BY <1>1, <1>2, <2>1, <2>2 DEF Calling
<1>4. Editing' /\ OnePlatform'
  BY <1>1 DEF CallInvariant, Editing, OnePlatform
<1>5. Committing'
  <2> SUFFICES ASSUME NEW u \in Threads, op'[u].kind = "flush"
               PROVE  /\ u = Editor /\ platform' = "android"
                      /\ Len(op'[u].calls) = Offset' + Len(pending')
                      /\ clearRequested' => op'[u].calls[1] = ClearCall
                      /\ \A i \in 1 .. Len(pending') :
                           op'[u].calls[Offset' + i] = pending'[i]
                      /\ \A k \in Keys \ foreign' : Applied(k, next[u], acked[k])'
    BY DEF Committing, Flushing
  <2>1. Offset' = Offset
    BY <1>1 DEF Offset
  <2>2. \A k : Applied(k, next[u], acked[k])' = Applied(k, next[u], acked[k])
    BY <1>1, <2>1 DEF Applied
  <2>3. CASE u # t
    <3>1. op'[u] = op[u] /\ op[u].kind = "flush"
      BY <1>1, <2>3
    <3>2. /\ u = Editor /\ platform = "android"
          /\ Len(op[u].calls) = Offset + Len(pending)
          /\ clearRequested => op[u].calls[1] = ClearCall
          /\ \A i \in 1 .. Len(pending) :
               op[u].calls[Offset + i] = pending[i]
          /\ \A k \in Keys \ foreign : Applied(k, next[u], acked[k])
      BY <3>1 DEF CallInvariant, Committing, Flushing
    <3> QED
      BY <1>1, <2>1, <2>2, <3>1, <3>2
  <2>4. CASE u = t
    <3>1. \A k : Applied(k, 1, acked[k])
      <4>1. \A i \in 1 .. Len(pending) : ~(Offset + i < 1)
        BY LenProperties DEF CallInvariant, Editing, Offset
      <4> QED
        BY <4>1 DEF Applied
    <3> QED
      BY <1>1, <1>2, <2>1, <2>2, <2>4, <3>1
  <2> QED
    BY <2>3, <2>4
<1> QED
  BY <1>1, <1>3, <1>4, <1>5 DEF CallInvariant

LEMMA SingleCall ==
  ASSUME NEW c \in Singles
  PROVE  IsCall(c)
<1>1. ASSUME NEW k \in Keys, c \in KeyCalls(k)  PROVE IsCall(c)
  <2>1. CASE c \in {Fn("set", k, x.type, x.value) : x \in Settable}
    <3>1. PICK x \in Settable : c = Fn("set", k, x.type, x.value)
      BY <2>1
    <3>2. x.type \in Types /\ x.value \in Value(x.type)
      BY InputsAssumption DEF Settable
    <3>3. c.fn = "set" /\ c.key = k /\ c.type = x.type /\ c.value = x.value
      BY <3>1 DEF Fn
    <3> QED
      BY <3>2, <3>3 DEF IsCall, Functions, OfKeys
  <2>2. CASE c \in {Fn("get", k, type, <<>>) : type \in GetTypes}
    <3>1. c.fn = "get" /\ c.key = k
      BY <2>2 DEF Fn
    <3> QED
      BY <3>1 DEF IsCall, Functions, OfKeys
  <2>3. CASE c = Fn("contains", k, "", <<>>)
    <3>1. c.fn = "contains" /\ c.key = k
      BY <2>3 DEF Fn
    <3> QED
      BY <3>1 DEF IsCall, Functions, OfKeys
  <2>4. CASE c = Fn("remove", k, "", <<>>)
    <3>1. c.fn = "remove" /\ c.key = k
      BY <2>4 DEF Fn
    <3> QED
      BY <3>1 DEF IsCall, Functions, OfKeys
  <2> QED
    BY <1>1, <2>1, <2>2, <2>3, <2>4 DEF KeyCalls
<1>2. CASE c \in StoreCalls
  <2>0. PICK name \in {"count", "allKeys", "trim", "clear"} :
          c = Fn(name, "", "", <<>>)
    BY <1>2 DEF StoreCalls
  <2>1. c.fn \in {"count", "allKeys", "trim", "clear"}
    BY <2>0 DEF Fn
  <2> QED
    BY <2>1 DEF IsCall, Functions, OfKeys
<1> QED
  BY <1>1, <1>2 DEF Singles

\* The batch methods make gets only, or sets only.
LEMMA BatchCall ==
  ASSUME NEW t \in Threads, BatchGet(t) \/ BatchSet(t)
  PROVE  \E kind \in {"batchGet", "batchSet"} : \E calls :
           /\ Begin(t, kind, calls) /\ IsCallList(calls)
           /\ kind = "batchSet" =>
                \A i \in 1 .. Len(calls) : calls[i].fn = "set"
<1>1. CASE BatchGet(t)
  <2>1. PICK keys \in BatchKeys, type \in GetTypes \ {"bytes"} :
          Begin(t, "batchGet",
                [i \in DOMAIN keys |-> Fn("get", keys[i], type, <<>>)])
    BY <1>1 DEF BatchGet
  <2>2. \A k \in Keys : IsCall(Fn("get", k, type, <<>>))
    BY DEF IsCall, Fn, Functions, OfKeys
  <2>3. IsCallList([i \in DOMAIN keys |-> Fn("get", keys[i], type, <<>>)])
    BY <2>2, BatchCalls
  <2> QED
    BY <2>1, <2>3
<1>2. CASE BatchSet(t)
  <2>1. PICK keys \in BatchKeys, x \in {y \in Inputs : y.type # "bytes"} :
          Begin(t, "batchSet",
                [i \in DOMAIN keys |-> Fn("set", keys[i], x.type, x.value)])
    BY <1>2 DEF BatchSet
  <2>2. x.type \in Types /\ x.value \in Value(x.type)
    BY InputsAssumption
  <2>3. \A k \in Keys : IsCall(Fn("set", k, x.type, x.value))
    BY <2>2 DEF IsCall, Fn, Functions, OfKeys
  <2> DEFINE calls == [i \in DOMAIN keys |-> Fn("set", keys[i], x.type, x.value)]
  <2>4. IsCallList(calls) /\ \A i \in 1 .. Len(calls) : calls[i].fn = "set"
    BY <2>3, BatchCalls
  <2> HIDE DEF calls
  <2>5. Begin(t, "batchSet", calls)
    BY <2>1 DEF calls
  <2> QED
    BY <2>4, <2>5
<1> QED
  BY <1>1, <1>2

\* Schedule keeps a key's edits to one.
LEMMA ScheduleKeeps ==
  ASSUME Editing, NEW c \in EditCalls, Schedule(c)
  PROVE  /\ pending' \in Seq(EditCalls)
         /\ \A i, j \in 1 .. Len(pending') :
              pending'[i].key = pending'[j].key => i = j
<1> DEFINE n  == Len(pending)
           at == {i \in DOMAIN pending : pending[i].key = c.key}
           s  == [i \in DOMAIN pending |-> IF i \in at THEN c ELSE pending[i]]
<1>1. /\ pending \in Seq(EditCalls) /\ n \in Nat /\ DOMAIN pending = 1 .. n
      /\ \A i \in 1 .. n : pending[i] \in EditCalls
  BY LenProperties, ElementOfSeq DEF Editing
<1>2. CASE at = {}
  <2>1. pending' = Append(pending, c)
    BY <1>2 DEF Schedule
  <2>2. /\ pending' \in Seq(EditCalls) /\ Len(pending') = n + 1
        /\ pending'[n + 1] = c
        /\ \A i \in 1 .. n : pending'[i] = pending[i]
    BY <1>1, <2>1, AppendProperties
  <2>3. \A i \in 1 .. n : pending[i].key # c.key
    BY <1>1, <1>2
  <2> HIDE DEF n, at
  <2>4. ASSUME NEW i \in 1 .. n + 1, NEW j \in 1 .. n + 1,
               pending'[i].key = pending'[j].key
        PROVE  i = j
    BY <1>1, <2>2, <2>3, <2>4 DEF Editing, n
  <2> QED
    BY <2>2, <2>4
<1>3. CASE at # {}
  <2>1. pending' = s
    BY <1>3 DEF Schedule
  <2>2. s \in [1 .. n -> EditCalls]
    BY <1>1
  <2>3. s \in Seq(EditCalls) /\ Len(s) = n
    BY <1>1, <2>2, SeqDef
  <2>4. \A i \in 1 .. n : s[i].key = pending[i].key
    BY <1>1
  <2> HIDE DEF s
  <2> QED
    BY <1>1, <2>1, <2>3, <2>4 DEF Editing
<1> QED
  BY <1>2, <1>3

LEMMA EditCall ==
  ASSUME Typed, CallInvariant, NEW t \in Threads, Edit(t)
  PROVE  CallInvariant'
<1>1. /\ pc' = pc /\ op' = op /\ next' = next /\ acked' = acked
      /\ platform' = platform /\ foreign' = foreign
      /\ t = Editor /\ op[t] = NoOp
  BY DEF Edit, local, history, CallInvariant, Calling
<1>2. Calling' /\ OnePlatform'
  BY <1>1 DEF CallInvariant, Calling, OnePlatform
<1>3. Committing'
  BY <1>1 DEF Committing, Flushing, NoOp, CallInvariant
<1>4. Editing'
  <2>1. CASE \E k \in Keys : Schedule(Fn("remove", k, "", <<>>))
    <3>1. \A k \in Keys : Fn("remove", k, "", <<>>) \in EditCalls
      BY DEF EditCalls, Removal
    <3>2. UNCHANGED clearRequested \/ clearRequested' = TRUE
      BY DEF Edit
    <3> QED
      BY <2>1, <3>1, <3>2, ScheduleKeeps DEF CallInvariant, Editing
  <2>2. CASE \E k \in Keys, x \in EditorInputs :
               Schedule(Fn("set", k, x.type, x.value))
    <3>1. \A k \in Keys, x \in EditorInputs :
            Fn("set", k, x.type, x.value) \in EditCalls
      BY DEF EditCalls, Puts
    <3>2. UNCHANGED clearRequested \/ clearRequested' = TRUE
      BY DEF Edit
    <3> QED
      BY <2>2, <3>1, <3>2, ScheduleKeeps DEF CallInvariant, Editing
  <2>3. CASE clearRequested' = TRUE /\ UNCHANGED pending
    BY <2>3 DEF CallInvariant, Editing
  <2> QED
    BY <2>1, <2>2, <2>3 DEF Edit
<1> QED
  BY <1>1, <1>2, <1>3, <1>4 DEF CallInvariant

LEMMA StartsCall ==
  ASSUME Typed, CallInvariant, NEW t \in Threads, Starts(t)
  PROVE  CallInvariant'
<1>1. CASE Single(t)
  <2>1. PICK c \in Singles : Begin(t, "single", <<c>>)
    BY <1>1 DEF Single
  <2>2. IsCallList(<<c>>)
    BY SingleCall, OneCall
  <2> QED
    BY <2>1, <2>2, BeginCall DEF Kinds
<1>2. CASE BatchGet(t) \/ BatchSet(t)
  BY <1>2, BatchCall, BeginCall DEF Kinds
<1>3. CASE Close(t)
  BY <1>3, BeginCall DEF Close, Kinds
<1>4. CASE Flush(t)
  <2> DEFINE calls == (IF clearRequested THEN <<ClearCall>> ELSE <<>>) \o pending
  <2>1. /\ t = Editor /\ platform = "android"
        /\ Begin(t, "flush", calls)
    BY <1>4 DEF Flush, ClearCall
  <2>2. /\ IsCallList(calls)
        /\ Len(calls) = Offset + Len(pending)
        /\ clearRequested => calls[1] = ClearCall
        /\ \A i \in 1 .. Len(pending) : calls[Offset + i] = pending[i]
    BY <1>4, FlushCalls DEF Flush, CallInvariant
  <2> HIDE DEF calls
  <2> QED
    BY <2>1, <2>2, BeginCall DEF Kinds
<1> QED
  BY <1>1, <1>2, <1>3, <1>4, EditCall DEF Starts

-----------------------------------------------------------------------------
(***************************************************************************)
(* Steps inside a call.                                                    *)
(***************************************************************************)
LEMMA QuietCall ==
  ASSUME CallInvariant,
         UNCHANGED <<op, next, pending, clearRequested, platform, acked, foreign>>,
         \A t \in Threads : pc'[t] = "idle" <=> pc[t] = "idle"
  PROVE  CallInvariant'
<1>1. Calling' /\ Editing' /\ OnePlatform'
  BY DEF CallInvariant, Calling, Editing, OnePlatform
<1>2. Committing'
  <2>1. Offset' = Offset
    BY DEF Offset
  <2>2. \A k, t : Applied(k, next[t], acked[k])' = Applied(k, next[t], acked[k])
    BY <2>1 DEF Applied
  <2> QED
    BY <2>1, <2>2 DEF CallInvariant, Committing, Flushing
<1> QED
  BY <1>1, <1>2 DEF CallInvariant

\* A thread that has nothing to commit leaves the flush of another alone.
Leaves(u) == /\ op'[u] = op[u] /\ next'[u] = next[u]
             /\ UNCHANGED <<pending, clearRequested, platform>>
             /\ foreign \subseteq foreign'
             /\ \A k \in Keys \ foreign' : acked'[k] = acked[k]

CommittingAt(t) ==
  Flushing(t) =>
    /\ t = Editor /\ platform = "android"
    /\ Len(op[t].calls) = Offset + Len(pending)
    /\ clearRequested => op[t].calls[1] = ClearCall
    /\ \A i \in 1 .. Len(pending) : op[t].calls[Offset + i] = pending[i]
    /\ \A k \in Keys \ foreign : Applied(k, next[t], acked[k])

LEMMA LeavesCommitting ==
  ASSUME NEW u \in Threads, CommittingAt(u), Leaves(u)
  PROVE  CommittingAt(u)'
<1>1. Offset' = Offset
  BY DEF Offset, Leaves
<1>2. ASSUME NEW k \in Keys \ foreign'
      PROVE  Applied(k, next[u], acked[k])' = Applied(k, next[u], acked[k])
  BY <1>1 DEF Applied, Leaves
<1> QED
  BY <1>1, <1>2 DEF CommittingAt, Flushing, Leaves

\* A call returns without a result: close().
LEMMA ReturnCall ==
  ASSUME Typed, CallInvariant, NEW t \in Threads, op[t].kind = "close", Return(t),
         UNCHANGED <<pending, clearRequested, platform, acked, foreign>>
  PROVE  CallInvariant'
<1>1. /\ pc'[t] = "idle" /\ op'[t] = NoOp /\ next'[t] = 1
      /\ next' = [u \in Threads |-> next'[u]]
      /\ \A u \in Threads \ {t} :
           pc'[u] = pc[u] /\ op'[u] = op[u] /\ next'[u] = next[u]
  BY DEF Return, Typed, CallInvariant
<1>2. Calling' /\ Editing' /\ OnePlatform'
  BY <1>1 DEF CallInvariant, Calling, Editing, OnePlatform, NoOp, Kinds
<1>3. ASSUME NEW u \in Threads  PROVE CommittingAt(u)'
  <2>1. CASE u = t
    BY <1>1, <2>1 DEF CommittingAt, Flushing, NoOp
  <2>2. CASE u # t
    BY <1>1, <2>2, LeavesCommitting
    DEF Leaves, CallInvariant, Committing, CommittingAt
  <2> QED
    BY <2>1, <2>2
<1> QED
  BY <1>1, <1>2, <1>3 DEF CallInvariant, Committing, CommittingAt

\* What Deliver does to the thread's own state.
LEMMA DeliverEffect ==
  ASSUME Typed, CallInvariant, NEW t \in Threads, NEW r, Deliver(t, r)
  PROVE  /\ next' = [u \in Threads |-> next'[u]]
         /\ \A u \in Threads \ {t} :
              pc'[u] = pc[u] /\ op'[u] = op[u] /\ next'[u] = next[u]
         /\ IF next[t] = Len(op[t].calls) \/ Result(t, r).as = "thrown"
              THEN pc'[t] = "idle" /\ op'[t] = NoOp /\ next'[t] = 1
              ELSE /\ pc'[t] = "call" /\ op'[t] = op[t]
                   /\ next'[t] = next[t] + 1
         /\ IF /\ Flushing(t) /\ next[t] = Len(op[t].calls)
               /\ Result(t, r).as # "thrown"
              THEN pending' = <<>> /\ clearRequested' = FALSE
              ELSE UNCHANGED <<pending, clearRequested>>
<1> DEFINE last == next[t] = Len(op[t].calls)
           thrown == Result(t, r).as = "thrown"
<1>1. CASE last \/ thrown
  BY <1>1 DEF Deliver, Return, Typed, CallInvariant, edits
<1>2. CASE ~(last \/ thrown)
  BY <1>2 DEF Deliver, Typed, CallInvariant, edits
<1> QED
  BY <1>1, <1>2

LEMMA DeliverCall ==
  ASSUME Typed, CallInvariant, NEW t \in Threads, NEW r, Deliver(t, r),
         pc[t] # "idle", op[t].kind # "close", platform' = platform,
         acked' = [k \in Keys |-> acked'[k]],
         \A u \in Threads \ {t} :
           Flushing(u) => /\ foreign \subseteq foreign'
                          /\ \A k \in Keys \ foreign' : acked'[k] = acked[k],
         Flushing(t) /\ Flushing(t)' =>
           /\ foreign \subseteq foreign'
           /\ \A k \in Keys \ foreign : Applied(k, next[t] + 1, acked'[k])
  PROVE  CallInvariant'
<1> DEFINE n == Len(op[t].calls)
           ends == next[t] = n \/ Result(t, r).as = "thrown"
<1>1. /\ next' = [u \in Threads |-> next'[u]]
      /\ \A u \in Threads \ {t} :
           pc'[u] = pc[u] /\ op'[u] = op[u] /\ next'[u] = next[u]
      /\ ends => pc'[t] = "idle" /\ op'[t] = NoOp /\ next'[t] = 1
      /\ ~ends => /\ pc'[t] = "call" /\ op'[t] = op[t]
                  /\ next'[t] = next[t] + 1
      /\ ~ends \/ ~Flushing(t) => UNCHANGED <<pending, clearRequested>>
      /\ \/ UNCHANGED <<pending, clearRequested>>
         \/ pending' = <<>> /\ clearRequested' = FALSE
  BY DeliverEffect
<1>2. /\ op[t].kind \in Kinds \ {"close"} /\ IsCallList(op[t].calls)
      /\ next[t] \in 1 .. n /\ n \in Nat
  BY DEF CallInvariant, Calling, IsCallList
<1> HIDE DEF n, ends
<1>3. Calling'
  <2>1. ~ends => next[t] + 1 \in 1 .. n /\ next[t] + 1 \in Nat
    BY <1>2 DEF ends
  <2>2. CASE ends
    BY <1>1, <2>2 DEF CallInvariant, Calling, NoOp, Kinds
  <2>3. CASE ~ends
    BY <1>1, <1>2, <2>1, <2>3 DEF CallInvariant, Calling, n
  <2> QED
    BY <2>2, <2>3
<1>4. Editing' /\ OnePlatform'
  <2>1. CASE pending' = <<>> /\ clearRequested' = FALSE
    <3>1. pending' \in Seq(EditCalls) /\ Len(pending') = 0
      BY <2>1, EmptySeq
    <3>2. clearRequested' \in BOOLEAN /\ OnePlatform'
      BY <2>1 DEF CallInvariant, OnePlatform
    <3> QED
      BY <3>1, <3>2 DEF Editing
  <2>2. CASE UNCHANGED <<pending, clearRequested>>
    BY <2>2 DEF CallInvariant, Editing, OnePlatform
  <2> QED
    BY <1>1, <2>1, <2>2
<1>5. ASSUME NEW u \in Threads  PROVE CommittingAt(u)'
  <2>0. CommittingAt(u) /\ CommittingAt(t)
    BY DEF CallInvariant, Committing, CommittingAt
  <2>1. CASE u # t
    <3>1. op'[u] = op[u] /\ next'[u] = next[u]
      BY <1>1, <2>1
    <3>2. SUFFICES ASSUME Flushing(u)  PROVE CommittingAt(u)'
      BY <3>1 DEF CommittingAt, Flushing
    <3>3. ~Flushing(t)
      BY <2>0, <2>1, <3>2 DEF CommittingAt
    <3> QED
      BY <1>1, <2>0, <2>1, <3>1, <3>2, <3>3, LeavesCommitting DEF Leaves
  <2>2. CASE u = t /\ ends
    BY <1>1, <2>2 DEF CommittingAt, Flushing, NoOp
  <2>3. CASE u = t /\ ~ends
    <3>1. SUFFICES ASSUME Flushing(t)  PROVE CommittingAt(t)'
      BY <1>1, <2>3 DEF CommittingAt, Flushing
    <3>2. /\ pending' = pending /\ clearRequested' = clearRequested
          /\ op'[t] = op[t] /\ next'[t] = next[t] + 1 /\ Flushing(t)'
      BY <1>1, <2>3, <3>1 DEF Flushing
    <3>3. Offset' = Offset
      BY <3>2 DEF Offset
    <3>4. ASSUME NEW k \in Keys \ foreign'
          PROVE  Applied(k, next[t], acked[k])'
      <4>1. Applied(k, next[t] + 1, acked'[k])
        BY <3>1, <3>2
      <4> QED
        BY <3>2, <3>3, <4>1 DEF Applied
    <3> QED
      BY <2>0, <3>1, <3>2, <3>3, <3>4 DEF CommittingAt
  <2> QED
    BY <2>1, <2>2, <2>3
<1> QED
  BY <1>1, <1>3, <1>4, <1>5 DEF CallInvariant, Committing, CommittingAt

-----------------------------------------------------------------------------
(***************************************************************************)
(* A native call of a flush that does not throw has done what it is for.   *)
(***************************************************************************)
LEMMA EditStatus ==
  ASSUME NEW c, NEW r \in Outcomes(c), Succeeds(r)
  PROVE  /\ c.fn \in {"set", "remove"} => r.status = "KV_OK"
         /\ c.fn = "clear" => r.status # "KV_CLOSED"
<1>1. r.status \in {"KV_OK", "KV_NOT_FOUND"} /\ store # "closed"
  BY DEF Succeeds, Outcomes, Reading, Outcome
<1>2. CASE c.fn = "set"
  BY <1>1, <1>2 DEF Outcomes, KvSet, Outcome, Done, Failures
<1>3. CASE c.fn = "remove"
  BY <1>1, <1>3 DEF Outcomes, KvRemove, Reading, Outcome, Done, Fails, Failures
<1> QED
  BY <1>1, <1>2, <1>3

LEMMA ExecuteApplies ==
  ASSUME CallInvariant, NEW t \in Threads, Flushing(t),
         NEW r \in Outcomes(Current(t)), Acknowledge(t, Current(t), r),
         Result(t, r).as # "thrown"
  PROVE  \A k \in Keys \ foreign : Applied(k, next[t] + 1, acked'[k])
<1> DEFINE c == Current(t)
           n == next[t]
<1>1. /\ platform = "android" /\ op[t].kind = "flush"
      /\ n \in Nat /\ n \in 1 .. Offset + Len(pending)
      /\ clearRequested => op[t].calls[1] = ClearCall
      /\ \A i \in 1 .. Len(pending) : op[t].calls[Offset + i] = pending[i]
      /\ \A k \in Keys \ foreign : Applied(k, n, acked[k])
      /\ c = op[t].calls[n]
  BY DEF CallInvariant, Calling, Committing, Flushing, Kinds, Current
<1>2. /\ pending \in Seq(EditCalls) /\ Len(pending) \in Nat
      /\ \A i \in 1 .. Len(pending) : pending[i] \in EditCalls
      /\ \A i, j \in 1 .. Len(pending) : pending[i].key = pending[j].key => i = j
  BY LenProperties, ElementOfSeq DEF CallInvariant, Editing
<1>3. /\ Offset \in {0, 1} /\ (Offset = 1 <=> clearRequested)
      /\ acked = [k \in Keys |-> acked[k]]
  BY DEF Offset, CallInvariant
<1>4. Succeeds(r)
  BY <1>1 DEF Result, AndroidResult, Throws
<1>5. /\ c.fn \in {"set", "remove"} => r.status = "KV_OK"
      /\ c.fn = "clear" => r.status # "KV_CLOSED"
  BY <1>4, EditStatus
<1>6. CASE n <= Offset
  <2>1. n = 1 /\ clearRequested /\ Offset = 1 /\ c = ClearCall
    BY <1>1, <1>3, <1>6
  <2>2. c.fn = "clear"
    <3>1. ClearCall.fn = "clear"
      BY DEF ClearCall, Fn
    <3> QED
      BY <2>1, <3>1
  <2>3. acked' = [k \in Keys |-> NotSet]
    BY <1>5, <2>2 DEF Acknowledge, DropsAll
  <2>4. \A i \in 1 .. Len(pending) : ~(Offset + i < n + 1)
    BY <1>2, <2>1
  <2> HIDE DEF n
  <2> QED
    BY <2>3, <2>4 DEF Applied, n
<1>7. CASE n > Offset
  <2> DEFINE j == n - Offset
  <2>1. j \in 1 .. Len(pending) /\ Offset + j = n /\ c = pending[j]
    <3>1. j \in 1 .. Len(pending) /\ Offset + j = n
      BY <1>1, <1>2, <1>3, <1>7
    <3> HIDE DEF j, n
    <3> QED
      BY <1>1, <3>1
  <2>2. c \in EditCalls
    BY <1>2, <2>1
  <2>3. c.fn \in {"set", "remove"}
    BY <2>2, EditCallProperties
  <2>4. acked' = [acked EXCEPT ![c.key] = Target(c)]
    BY <1>5, <2>3 DEF Acknowledge, DropsAll, Target
  <2> HIDE DEF j, n, c
  <2> SUFFICES ASSUME NEW k \in Keys \ foreign
               PROVE  Applied(k, n + 1, acked'[k])
    BY DEF n
  <2>5. acked'[k] = IF k = c.key THEN Target(c) ELSE acked[k]
    BY <1>3, <2>4
  <2>6. ASSUME NEW i \in 1 .. Len(pending), Offset + i < n + 1,
               pending[i].key = k
        PROVE  acked'[k] = Target(pending[i])
    <3>1. CASE i = j
      BY <2>1, <2>5, <2>6, <3>1
    <3>2. CASE i # j
      <4>1. Offset + i < n /\ k # c.key
        BY <1>1, <1>2, <1>3, <2>1, <2>6, <3>2
      <4> QED
        BY <1>1, <2>5, <2>6, <4>1 DEF Applied
    <3> QED
      BY <3>1, <3>2
  <2>7. ASSUME clearRequested,
               \A i \in 1 .. Len(pending) : Offset + i < n + 1 => pending[i].key # k
        PROVE  acked'[k] = NotSet
    <3>1. k # c.key
      BY <1>1, <1>3, <2>1, <2>7
    <3>2. n > 1
      BY <1>1, <1>3, <1>7, <2>7
    <3>3. \A i \in 1 .. Len(pending) : Offset + i < n => pending[i].key # k
      BY <1>1, <1>2, <1>3, <2>7
    <3> QED
      BY <1>1, <2>5, <2>7, <3>1, <3>2, <3>3 DEF Applied
  <2> QED
    BY <2>6, <2>7 DEF Applied
<1> QED
  BY <1>1, <1>3, <1>6, <1>7

\* While the Editor flushes, what another thread writes is foreign.
LEMMA OthersAreForeign ==
  ASSUME CallInvariant, NEW t \in Threads, NEW c, NEW r, IsCall(c),
         Acknowledge(t, c, r), t # Editor, op'[Editor].kind = "flush"
  PROVE  /\ foreign \subseteq foreign'
         /\ \A k \in Keys \ foreign' : acked'[k] = acked[k]
<1>1. /\ acked = [k \in Keys |-> acked[k]]
      /\ c.fn \in {"set", "remove"} => c.key \in Keys
  BY DEF CallInvariant, IsCall, OfKeys
<1>2. foreign' = IF Reads(c) THEN foreign
                 ELSE foreign \cup IF DropsAll(c, r) THEN Keys
                                   ELSE {c.key} \cap Keys
  BY DEF Acknowledge
<1>3. CASE c.fn \in {"set", "remove"}
  <2>1. c.key \in foreign'
    BY <1>1, <1>2, <1>3 DEF Reads, DropsAll
  <2>2. \A k \in Keys : k # c.key => acked'[k] = acked[k]
    BY <1>1, <1>3 DEF Acknowledge, DropsAll
  <2> QED
    BY <1>2, <2>1, <2>2
<1>4. CASE DropsAll(c, r)
  BY <1>2, <1>4 DEF Reads, DropsAll
<1>5. CASE c.fn \notin {"set", "remove"} /\ ~DropsAll(c, r)
  <2>1. acked' = acked
    BY <1>5 DEF Acknowledge
  <2> QED
    BY <1>2, <2>1
<1> QED
  BY <1>3, <1>4, <1>5

LEMMA ExecuteCall ==
  ASSUME Inv, CallInvariant, NEW t \in Threads, Execute(t)
  PROVE  CallInvariant'
<1> DEFINE c == Current(t)
<1>1. PICK r \in Outcomes(c) : Deliver(t, r) /\ Acknowledge(t, c, r)
  BY DEF Execute
<1>2. /\ pc[t] = "body" /\ op[t].kind # "close" /\ platform' = platform
      /\ op[t].kind \in Kinds
  BY DEF Execute, CallInvariant, Calling
<1>3. IsCall(c)
  BY <1>2 DEF Current, CallInvariant, Calling, IsCallList
<1>4. acked' = [k \in Keys |-> acked'[k]]
  <2>1. acked = [k \in Keys |-> acked[k]]
    BY DEF CallInvariant
  <2> HIDE DEF c
  <2>2. CASE c.fn = "set" /\ r.status = "KV_OK"
    BY <1>1, <2>1, <2>2 DEF Acknowledge, DropsAll
  <2>3. CASE c.fn = "remove" /\ r.status = "KV_OK"
    BY <1>1, <2>1, <2>3 DEF Acknowledge, DropsAll
  <2>4. CASE c.fn \in {"set", "remove"} /\ r.status # "KV_OK"
    BY <1>1, <2>1, <2>4 DEF Acknowledge, DropsAll
  <2>5. CASE c.fn \notin {"set", "remove"}
    BY <1>1, <2>1, <2>5 DEF Acknowledge
  <2> QED
    BY <2>2, <2>3, <2>4, <2>5
<1>5. /\ \A u \in Threads \ {t} : op'[u] = op[u]
      /\ Result(t, r).as = "thrown" => op'[t] = NoOp
  BY <1>1, DeliverEffect DEF Inv
<1>6. \A u \in Threads : Flushing(u) => u = Editor
  BY DEF CallInvariant, Committing
<1>7. ASSUME NEW u \in Threads \ {t}, Flushing(u)
      PROVE  /\ foreign \subseteq foreign'
             /\ \A k \in Keys \ foreign' : acked'[k] = acked[k]
  <2>1. t # Editor /\ op'[Editor].kind = "flush"
    BY <1>5, <1>6, <1>7 DEF Flushing
  <2> HIDE DEF c
  <2> QED
    BY <1>1, <1>3, <2>1, OthersAreForeign
<1>8. ASSUME Flushing(t), Flushing(t)'
      PROVE  /\ foreign \subseteq foreign'
             /\ \A k \in Keys \ foreign : Applied(k, next[t] + 1, acked'[k])
  <2>1. Result(t, r).as # "thrown"
    BY <1>5, <1>8 DEF Flushing, NoOp
  <2>2. foreign' = foreign
    BY <1>1, <1>6, <1>8 DEF Acknowledge, Flushing
  <2> QED
    BY <1>1, <1>8, <2>1, <2>2, ExecuteApplies
<1>9. Typed /\ pc[t] # "idle"
  BY <1>2 DEF Inv
<1> HIDE DEF c
<1> QED
  BY <1>1, <1>2, <1>4, <1>7, <1>8, <1>9, DeliverCall

LEMMA CallCall ==
  ASSUME Inv, CallInvariant, NEW t \in Threads, Call(t)
  PROVE  CallInvariant'
<1> DEFINE p == IF Rereads(t) THEN handle ELSE ptr[t]
<1>1. /\ pc[t] = "call" /\ Typed
      /\ UNCHANGED <<platform, acked, foreign>>
  BY DEF Call, Inv, history
<1>2. CASE p # 0
  <2>1. UNCHANGED <<op, next, pending, clearRequested>>
        /\ pc' = [pc EXCEPT ![t] = "lock"]
    BY <1>2 DEF Call, edits
  <2>2. \A u \in Threads : pc'[u] = "idle" <=> pc[u] = "idle"
    BY <1>1, <2>1 DEF Typed
  <2> QED
    BY <1>1, <2>1, <2>2, QuietCall
<1>3. CASE p = 0 /\ op[t].kind = "close"
  <2>1. Return(t) /\ UNCHANGED <<pending, clearRequested>>
    BY <1>3 DEF Call, edits
  <2> QED
    BY <1>1, <1>3, <2>1, ReturnCall
<1>4. CASE p = 0 /\ op[t].kind # "close"
  <2>1. Deliver(t, NullStore)
    BY <1>4 DEF Call
  <2>2. acked' = [k \in Keys |-> acked'[k]]
    BY <1>1 DEF CallInvariant
  <2>3. ~(Flushing(t) /\ Flushing(t)')
    <3> SUFFICES ASSUME Flushing(t)  PROVE ~Flushing(t)'
      OBVIOUS
    <3>1. platform = "android" /\ op[t].kind = "flush"
      BY DEF CallInvariant, Committing, Flushing
    <3>2. ~Succeeds(NullStore)
      BY DEF Succeeds, NullStore, Reading, Outcome
    <3>3. Result(t, NullStore).as = "thrown"
      BY <3>1, <3>2 DEF Result, AndroidResult, Throws
    <3>4. op'[t] = NoOp
      BY <1>1, <2>1, <3>3, DeliverEffect
    <3> QED
      BY <3>4 DEF Flushing, NoOp
  <2> QED
    BY <1>1, <1>4, <2>1, <2>2, <2>3, DeliverCall
<1> QED
  BY <1>2, <1>3, <1>4

LEMMA StepCall ==
  ASSUME Inv, CallInvariant, NEW t \in Threads, Step(t)
  PROVE  CallInvariant'
<1>0. Typed
  BY DEF Inv
<1>1. CASE UseAfterFree(t) \/ Acquire(t) \/ CloseBody(t) \/ Delete(t)
  <2>1. UNCHANGED <<op, next, pending, clearRequested, platform, acked, foreign>>
    BY <1>1 DEF UseAfterFree, Acquire, CloseBody, Delete, local, edits, history
  <2>2. \A u \in Threads : pc'[u] = "idle" <=> pc[u] = "idle"
    BY <1>0, <1>1
    DEF Typed, UseAfterFree, Acquire, CloseBody, Delete, local, Touches
  <2> QED
    BY <2>1, <2>2, QuietCall
<1>2. CASE ForgetHandle(t)
  <2>1. op[t].kind = "close"
    BY <1>2 DEF ForgetHandle, Inv, Addressed
  <2> QED
    BY <1>0, <1>2, <2>1, ReturnCall DEF ForgetHandle, edits, history
<1> QED
  BY <1>1, <1>2, CallCall, ExecuteCall DEF Step

LEMMA NextCall ==
  ASSUME Inv, CallInvariant, [Next]_vars
  PROVE  CallInvariant'
<1>1. CASE UNCHANGED vars
  <2>1. /\ UNCHANGED <<op, next, pending, clearRequested, platform, acked, foreign>>
        /\ pc' = pc
    BY <1>1 DEF vars, local, edits, history
  <2> QED
    BY <2>1, QuietCall
<1>2. CASE Construct
  <2>1. /\ UNCHANGED <<pc, op, next, pending, clearRequested, platform>>
        /\ acked' = [k \in Keys |-> acked'[k]]
        /\ store = "none"
    BY <1>2 DEF Construct, KvOpen, local, edits
  <2>2. Calling' /\ Editing' /\ OnePlatform'
    BY <2>1 DEF CallInvariant, Calling, Editing, OnePlatform
  <2>3. ASSUME NEW t \in Threads  PROVE ~Flushing(t)'
    <3>1. op[t] = NoOp
      BY <2>1 DEF Inv, Stages, CallInvariant, Calling
    <3> QED
      BY <2>1, <3>1 DEF Flushing, NoOp
  <2> QED
    BY <2>1, <2>2, <2>3 DEF CallInvariant, Committing
<1>3. Typed
  BY DEF Inv
<1> QED
  BY <1>1, <1>2, <1>3, StartsCall, StepCall DEF Next

-----------------------------------------------------------------------------
(***************************************************************************)
(* The end of a commit.                                                    *)
(***************************************************************************)
\* A step of a thread leaves the others where they are.
LEMMA OthersStay ==
  ASSUME Inv, CallInvariant, [Next]_vars, NEW t \in Threads,
         pc[t] # "idle", ~Step(t)
  PROVE  pc'[t] = pc[t]
<1>0. Typed
  BY DEF Inv
<1>1. CASE Construct \/ UNCHANGED vars
  BY <1>1 DEF Construct, vars, local
<1>2. ASSUME NEW u \in Threads, Starts(u)  PROVE pc'[t] = pc[t]
  <2>1. CASE Edit(u)
    BY <2>1 DEF Edit, local
  <2>2. CASE ~Edit(u)
    <3>1. \E kind, calls : Begin(u, kind, calls)
      BY <1>2, <2>2 DEF Starts, Single, BatchGet, BatchSet, Close, Flush
    <3>2. pc[u] = "idle" /\ pc' = [pc EXCEPT ![u] = "call"]
      BY <3>1 DEF Begin
    <3> QED
      BY <1>0, <3>2 DEF Typed
  <2> QED
    BY <2>1, <2>2
<1>3. ASSUME NEW u \in Threads \ {t}, Step(u)  PROVE pc'[t] = pc[t]
  <2>1. CASE \E r : Deliver(u, r)
    BY <1>0, <1>3, <2>1, DeliverEffect
  <2>2. CASE ~\E r : Deliver(u, r)
    <3>1. ~Execute(u)
      BY <2>2 DEF Execute
    <3> QED
      BY <1>0, <1>3, <2>2, <3>1
      DEF Step, Call, UseAfterFree, Acquire, CloseBody, Delete, ForgetHandle,
          Return, local, Typed
  <2> QED
    BY <2>1, <2>2
<1> QED
  BY <1>1, <1>2, <1>3 DEF Next

\* A flush that ends otherwise than by its last call leaves its edits.
LEMMA CommitEnds ==
  ASSUME Inv, CallInvariant, NEW t \in Threads, Step(t),
         Flushing(t), pc'[t] = "idle", pending' = <<>>, ~clearRequested'
  PROVE  \E r \in Outcomes(Current(t)) :
           /\ Acknowledge(t, Current(t), r)
           /\ next[t] = Len(op[t].calls)
           /\ Result(t, r).as # "thrown"
<1>1. /\ op[t].kind = "flush" /\ platform = "android"
      /\ next[t] \in 1 .. Len(op[t].calls)
      /\ Len(op[t].calls) = Offset + Len(pending)
      /\ Typed /\ pc[t] # "idle"
  BY DEF CallInvariant, Calling, Committing, Flushing, Kinds, NoOp, Inv
<1>2. ~(pending' = pending /\ clearRequested' = clearRequested)
  <2> SUFFICES ASSUME pending' = pending, clearRequested' = clearRequested
               PROVE  FALSE
    OBVIOUS
  <2>1. Offset = 0
    BY DEF Offset
  <2>2. Len(pending) = 0
    <3>1. pending = <<>>
      OBVIOUS
    <3> QED
      BY <3>1
  <2> QED
    BY <1>1, <2>1, <2>2
<1>3. Call(t) \/ Execute(t)
  BY <1>2 DEF Step, UseAfterFree, Acquire, CloseBody, Delete, ForgetHandle, edits
<1>4. ASSUME Call(t)  PROVE FALSE
  <2>1. Deliver(t, NullStore)
    BY <1>1, <1>2, <1>4 DEF Call, edits
  <2>2. ~Succeeds(NullStore)
    BY DEF Succeeds, NullStore, Reading, Outcome
  <2>3. Result(t, NullStore).as = "thrown"
    BY <1>1, <2>2 DEF Result, AndroidResult, Throws
  <2> QED
    BY <1>1, <1>2, <2>1, <2>3, DeliverEffect
<1>5. PICK r \in Outcomes(Current(t)) :
        Deliver(t, r) /\ Acknowledge(t, Current(t), r)
  BY <1>3, <1>4 DEF Execute
<1>6. next[t] = Len(op[t].calls) /\ Result(t, r).as # "thrown"
  BY <1>1, <1>2, <1>5, DeliverEffect
<1> QED
  BY <1>5, <1>6

LEMMA CommitStep ==
  ASSUME Inv, CallInvariant, [Next]_vars, NEW t \in Threads,
         Flushing(t), pc'[t] = "idle", pending' = <<>>, ~clearRequested',
         NEW k \in Keys \ foreign
  PROVE  LET puts == {i \in DOMAIN pending : pending[i].key = k}
         IN  /\ \A i \in puts :
                  acked'[k] = IF pending[i].fn = "remove" THEN NotSet
                              ELSE [type  |-> pending[i].type,
                                    value |-> Some(pending[i].value)]
             /\ puts = {} /\ clearRequested => acked'[k] = NotSet
<1>1. pc[t] # "idle"
  BY DEF CallInvariant, Calling, Flushing, NoOp
<1>2. Step(t)
  BY <1>1, OthersStay
<1>3. PICK r \in Outcomes(Current(t)) :
        /\ Acknowledge(t, Current(t), r)
        /\ next[t] = Len(op[t].calls)
        /\ Result(t, r).as # "thrown"
  BY <1>2, CommitEnds
<1>4. Applied(k, next[t] + 1, acked'[k])
  BY <1>3, ExecuteApplies
<1>5. /\ next[t] = Offset + Len(pending) /\ next[t] \in 1 .. next[t]
      /\ pending \in Seq(EditCalls)
  BY <1>3 DEF CallInvariant, Calling, Committing, Editing, Flushing, Kinds
<1>6. /\ DOMAIN pending = 1 .. Len(pending) /\ Len(pending) \in Nat
      /\ Offset \in {0, 1}
  BY <1>5, LenProperties DEF Offset
<1>7. /\ \A i \in 1 .. Len(pending) : Offset + i < next[t] + 1
      /\ next[t] + 1 > 1
  BY <1>5, <1>6
<1>8. /\ \A i \in 1 .. Len(pending) :
           pending[i].key = k => acked'[k] = Target(pending[i])
      /\ clearRequested /\ (\A i \in 1 .. Len(pending) : pending[i].key # k) =>
           acked'[k] = NotSet
  BY <1>4, <1>7 DEF Applied
<1> QED
  BY <1>6, <1>8 DEF Target

\* Whatever the other threads do, and whichever of the calls fail: a commit()
\* that returns has applied its clear and its edits to every key that no other
\* thread has written meanwhile (QuickStoreSharedPreferences.kt:217-238).
THEOREM CommitsAreApplied == Spec => CommitApplied
<1>1. Init => Inv /\ CallInvariant
  BY InitInv, InitCallInvariant
<1>2. Inv /\ CallInvariant /\ [Next]_vars => (Inv /\ CallInvariant)'
  BY NextInv, NextCall
<1> DEFINE Applies ==
      \A t \in Threads :
       Flushing(t) /\ pc'[t] = "idle" /\ pending' = <<>> /\ ~clearRequested' =>
         \A k \in Keys \ foreign :
           LET puts == {i \in DOMAIN pending : pending[i].key = k}
           IN  /\ \A i \in puts :
                    acked'[k] = IF pending[i].fn = "remove" THEN NotSet
                                ELSE [type  |-> pending[i].type,
                                      value |-> Some(pending[i].value)]
               /\ puts = {} /\ clearRequested => acked'[k] = NotSet
<1>3. Inv /\ CallInvariant /\ [Next]_vars => [Applies]_vars
  <2> SUFFICES ASSUME Inv, CallInvariant, [Next]_vars,
                      NEW t \in Threads, Flushing(t), pc'[t] = "idle",
                      pending' = <<>>, ~clearRequested',
                      NEW k \in Keys \ foreign
               PROVE  LET puts == {i \in DOMAIN pending : pending[i].key = k}
                      IN  /\ \A i \in puts :
                               acked'[k] =
                                 IF pending[i].fn = "remove" THEN NotSet
                                 ELSE [type  |-> pending[i].type,
                                       value |-> Some(pending[i].value)]
                          /\ puts = {} /\ clearRequested => acked'[k] = NotSet
    OBVIOUS
  <2> QED
    BY CommitStep
<1>4. Spec => [][Applies]_vars
  <2> HIDE DEF Applies
  <2> QED
    BY <1>1, <1>2, <1>3, PTL DEF Spec
<1> QED
  BY <1>4 DEF CommitApplied

-----------------------------------------------------------------------------
(***************************************************************************)
(* What a getter reads: the contents are the encoding of what was          *)
(* acknowledged last.                                                      *)
(***************************************************************************)
KeyHolds(a, blob) ==
  \/ a = NotSet /\ blob = Absent
  \/ \E type \in Types : \E v \in Value(type) :
       /\ a = [type |-> type, value |-> Some(v)]
       /\ blob = Encode(type, v)

Holding == /\ \A k \in Keys : \/ KeyHolds(acked[k], contents[k])
                              \/ store \in {"closed", "freed"} /\ contents[k] = Absent
           /\ contents = [k \in Keys |-> contents[k]]

LEMMA InitHolding == Init => Holding
BY DEF Init, Holding, KeyHolds, Empty

\* A call that fails, unless it is a clear, and one that only reads.
LEMMA NothingAcknowledged ==
  ASSUME Holding, NEW c, NEW r, NEW t, Acknowledge(t, c, r),
         c.fn \in {"set", "remove"} => r.status # "KV_OK", ~DropsAll(c, r),
         contents' = contents, store' = store
  PROVE  Holding'
<1>1. acked' = acked
  BY DEF Acknowledge
<1> QED
  BY <1>1 DEF Holding

\* All keys are dropped.
LEMMA AllDropped ==
  ASSUME NEW c, NEW r, NEW t, Acknowledge(t, c, r), DropsAll(c, r),
         contents' = Empty
  PROVE  Holding'
<1>1. acked' = [k \in Keys |-> NotSet]
  BY DEF Acknowledge, DropsAll
<1> QED
  BY <1>1 DEF Holding, KeyHolds, Empty

LEMMA ExecuteHolding ==
  ASSUME CallInvariant, Holding, NEW c, IsCall(c), NEW r \in Outcomes(c),
         contents' = r.after, NEW t, Acknowledge(t, c, r),
         store # "freed", store' = store
  PROVE  Holding'
<1>1. /\ acked = [k \in Keys |-> acked[k]]
      /\ c.fn \in {"set", "remove"} => c.key \in Keys
      /\ c.fn = "set" => c.type \in Types /\ c.value \in Value(c.type)
      /\ c.fn \in Functions
  BY DEF CallInvariant, IsCall, OfKeys
<1>2. CASE store = "closed"
  <2>1. r.status = "KV_CLOSED" /\ r.after = contents
    BY <1>2 DEF Outcomes, Reading, Outcome
  <2>2. ~DropsAll(c, r)
    BY <2>1 DEF DropsAll
  <2> QED
    BY <2>1, <2>2, NothingAcknowledged
<1>3. ASSUME store # "closed", r.status # "KV_OK", r.after = contents,
             c.fn # "clear"
      PROVE  Holding'
  <2>1. ~DropsAll(c, r)
    BY <1>3 DEF DropsAll
  <2> QED
    BY <1>3, <2>1, NothingAcknowledged
<1>4. CASE store # "closed" /\ c.fn = "set"
  <2>1. r \in KvSet(c)
    BY <1>4 DEF Outcomes
  <2>2. CASE r \in Failures(contents)
    <3>1. r.status = "KV_IO" /\ r.after = contents
      BY <2>2 DEF Failures, Outcome
    <3> QED
      BY <1>3, <1>4, <3>1
  <2>3. CASE r = Done([contents EXCEPT ![c.key] = Encode(c.type, c.value)])
    <3> DEFINE e == Encode(c.type, c.value)
               a == [type |-> c.type, value |-> Some(c.value)]
    <3> HIDE DEF e
    <3>0. r = Done([contents EXCEPT ![c.key] = e])
      BY <2>3 DEF e
    <3>1. r.status = "KV_OK" /\ r.after = [contents EXCEPT ![c.key] = e]
      BY <3>0 DEF Done, Outcome
    <3>2. acked' = [acked EXCEPT ![c.key] = a]
      BY <1>4, <3>1 DEF Acknowledge, DropsAll
    <3> HIDE DEF a
    <3>3. KeyHolds(a, e)
      BY <1>1, <1>4 DEF KeyHolds, a, e
    <3>4. \A k \in Keys :
            /\ acked'[k] = IF k = c.key THEN a ELSE acked[k]
            /\ contents'[k] = IF k = c.key THEN e ELSE contents[k]
      BY <1>1, <3>1, <3>2 DEF Holding
    <3>5. contents' = [k \in Keys |-> contents'[k]]
      BY <3>1 DEF Holding
    <3> QED
      BY <3>3, <3>4, <3>5 DEF Holding
  <2> QED
    BY <2>1, <2>2, <2>3 DEF KvSet
<1>5. CASE store # "closed" /\ c.fn = "remove"
  <2>1. r \in KvRemove(c)
    BY <1>5 DEF Outcomes
  <2>2. CASE r = Fails \/ r \in Failures(contents)
    <3>1. r.status = "KV_IO" /\ r.after = contents
      BY <2>2 DEF Fails, Failures, Reading, Outcome
    <3> QED
      BY <1>3, <1>5, <3>1
  <2>3. CASE r = Done([contents EXCEPT ![c.key] = Absent])
    <3>1. r.status = "KV_OK" /\ r.after = [contents EXCEPT ![c.key] = Absent]
      BY <2>3 DEF Done, Outcome
    <3>2. acked' = [acked EXCEPT ![c.key] = NotSet]
      BY <1>5, <3>1 DEF Acknowledge, DropsAll
    <3>4. \A k \in Keys :
            /\ acked'[k] = IF k = c.key THEN NotSet ELSE acked[k]
            /\ contents'[k] = IF k = c.key THEN Absent ELSE contents[k]
      BY <1>1, <3>1, <3>2 DEF Holding
    <3>5. contents' = [k \in Keys |-> contents'[k]]
      BY <3>1 DEF Holding
    <3>6. KeyHolds(NotSet, Absent)
      BY DEF KeyHolds
    <3> QED
      BY <3>4, <3>5, <3>6 DEF Holding
  <2> QED
    BY <2>1, <2>2, <2>3 DEF KvRemove
<1>6. CASE store # "closed" /\ c.fn = "clear"
  <2>1. r \in KvClear
    BY <1>6 DEF Outcomes
  <2>2. r.status # "KV_CLOSED" /\ r.after = Empty
    BY <2>1 DEF KvClear, Done, Failures, Outcome
  <2>3. DropsAll(c, r)
    BY <1>6, <2>2 DEF DropsAll
  <2> QED
    BY <2>2, <2>3, AllDropped
<1>7. CASE store # "closed" /\ c.fn = "trim"
  <2>1. r \in KvTrim
    BY <1>7 DEF Outcomes
  <2>2. CASE r \in Failures(contents)
    <3>1. r.status = "KV_IO" /\ r.after = contents
      BY <2>2 DEF Failures, Outcome
    <3> QED
      BY <1>3, <1>7, <3>1
  <2>3. CASE r = Done(IF mapped THEN contents ELSE Empty)
    <3>1. r.status = "KV_OK" /\ r.after = IF mapped THEN contents ELSE Empty
      BY <2>3 DEF Done, Outcome
    <3>2. CASE mapped
      <4>1. ~DropsAll(c, r)
        BY <1>7, <3>2 DEF DropsAll
      <4> QED
        BY <1>7, <3>1, <3>2, <4>1, NothingAcknowledged
    <3>3. CASE ~mapped
      <4>1. DropsAll(c, r)
        BY <1>7, <3>1, <3>3 DEF DropsAll
      <4> QED
        BY <3>1, <3>3, <4>1, AllDropped
    <3> QED
      BY <3>2, <3>3
  <2> QED
    BY <2>1, <2>2, <2>3 DEF KvTrim
<1>8. CASE store # "closed" /\ c.fn \notin {"set", "remove", "clear", "trim"}
  <2>1. ~DropsAll(c, r)
    BY <1>8 DEF DropsAll
  <2>2. r.after = contents
    BY <1>1, <1>8 DEF Functions, Outcomes, Reading, Outcome, KvGet, KvContains,
                      KvCount, KvAllKeys, Fails
  <2> QED
    BY <1>8, <2>1, <2>2, NothingAcknowledged
<1> QED
  BY <1>2, <1>4, <1>5, <1>6, <1>7, <1>8

\* The store is opened with the encodings of what was set before.
LEMMA ConstructHolding ==
  ASSUME Construct
  PROVE  Holding'
<1>0. PICK S \in SUBSET Keys : \E was \in [S -> Inputs] :
        /\ KvOpen([k \in Keys |-> IF k \in S THEN Encode(was[k].type, was[k].value)
                                 ELSE Absent])
        /\ acked' = [k \in Keys |->
                      IF k \in S
                        THEN [type |-> was[k].type, value |-> Some(was[k].value)]
                        ELSE NotSet]
  BY DEF Construct
<1>1. PICK was \in [S -> Inputs] :
        /\ contents' = [k \in Keys |-> IF k \in S
                                         THEN Encode(was[k].type, was[k].value)
                                         ELSE Absent]
        /\ acked' = [k \in Keys |->
                      IF k \in S
                        THEN [type |-> was[k].type, value |-> Some(was[k].value)]
                        ELSE NotSet]
  BY <1>0 DEF KvOpen
<1>2. ASSUME NEW k \in Keys  PROVE KeyHolds(acked'[k], contents'[k])
  <2>1. CASE k \in S
    <3>1. was[k].type \in Types /\ was[k].value \in Value(was[k].type)
      BY <2>1, InputsAssumption
    <3>2. /\ acked'[k] = [type |-> was[k].type, value |-> Some(was[k].value)]
          /\ contents'[k] = Encode(was[k].type, was[k].value)
      BY <1>1, <2>1
    <3> QED
      BY <3>1, <3>2 DEF KeyHolds
  <2>2. CASE k \notin S
    BY <1>1, <2>2 DEF KeyHolds
  <2> QED
    BY <2>1, <2>2
<1> QED
  BY <1>1, <1>2 DEF Holding

LEMMA NextHolding ==
  ASSUME CallInvariant, Holding, [Next]_vars
  PROVE  Holding'
<1>1. ASSUME NEW t \in Threads, Execute(t)  PROVE Holding'
  <2> DEFINE c == Current(t)
  <2>1. PICK r \in Outcomes(c) : Body(c, r) /\ Acknowledge(t, c, r)
    BY <1>1 DEF Execute
  <2>2. op[t].kind \in Kinds \ {"close"} /\ store # "freed"
    BY <1>1 DEF Execute, Touches, CallInvariant, Calling
  <2>3. IsCall(c)
    BY <2>2 DEF Current, CallInvariant, Calling, IsCallList
  <2> HIDE DEF c
  <2> QED
    BY <2>1, <2>2, <2>3, ExecuteHolding DEF Body
<1>2. ASSUME NEW t \in Threads, CloseBody(t)  PROVE Holding'
  BY <1>2 DEF CloseBody, KvCloseBody, Holding, Empty
<1>3. ASSUME NEW t \in Threads, Delete(t)  PROVE Holding'
  BY <1>3 DEF Delete, KvDelete, history, Holding
<1>4. ASSUME ~\E t \in Threads : Execute(t) \/ CloseBody(t) \/ Delete(t),
             ~Construct
      PROVE  acked' = acked /\ contents' = contents /\ store' = store
  BY <1>4 DEF Next, Starts, Single, BatchGet, BatchSet, Close, Flush, Edit,
     Begin, Step, Call, UseAfterFree, Acquire, Lock, ForgetHandle, vars, kv,
     history
<1> QED
  BY <1>1, <1>2, <1>3, <1>4, ConstructHolding DEF Holding

\* Only bytes are decoded from nothing.
LEMMA NothingDecoded ==
  ASSUME NEW type \in Types \ {"bytes"}
  PROVE  Decode(type, <<>>) = None
<1>1. \A bits : ReadUInt(bits, <<>>).error
  <2>1. ASSUME NEW bits
        PROVE  {i \in DOMAIN <<>> : i <= MaxGroups(bits) /\ <<>>[i] < Group} = {}
    OBVIOUS
  <2> QED
    BY <2>1 DEF ReadUInt
<1>2. \A bits : DecodeVarint(bits, <<>>) = {}
  BY <1>1 DEF DecodeVarint, None
<1>3. DecodeInt32(<<>>) = {} /\ DecodeInt64(<<>>) = {}
      /\ \A bits : DecodeUInt(bits, <<>>) = {}
  BY <1>2 DEF DecodeInt32, DecodeInt64, DecodeUInt, Integer
<1>4. DecodeFixed(FloatBytes, <<>>) = {} /\ DecodeFixed(DoubleBytes, <<>>) = {}
  BY WidthAssumption DEF DecodeFixed, None
<1>5. DecodeBool(<<>>) = {}
  BY DEF DecodeBool, None
<1> QED
  BY <1>3, <1>4, <1>5 DEF Types, Decode, None

\* What a key holds is read back by a getter of its type.
LEMMA HeldIsDecoded ==
  ASSUME NEW a, NEW blob, KeyHolds(a, blob), NEW type,
         a.type = type, type = "bytes" => a.value # Some(<<>>)
  PROVE  (IF blob = Absent THEN None ELSE Decode(type, blob)) = a.value
<1>1. CASE a = NotSet /\ blob = Absent
  BY <1>1 DEF NotSet
<1>2. CASE ~(a = NotSet /\ blob = Absent)
  <2>1. PICK v \in Value(type) :
          /\ type \in Types /\ a.value = Some(v) /\ blob = Encode(type, v)
    BY <1>2 DEF KeyHolds
  <2>2. CASE type = "bytes"
    <3>1. blob = v /\ v # <<>>
      BY <2>1, <2>2 DEF Encode
    <3>2. Decode(type, blob) = Some(v)
      BY <2>2, <3>1 DEF Decode, DecodeBytes
    <3> QED
      BY <2>1, <3>1, <3>2 DEF Absent
  <2>3. CASE type # "bytes"
    <3>1. Decode(type, blob) = Some(v)
      BY <2>1, <2>3, EveryValueReturns DEF RoundTrip, Value
    <3>2. Some(v) # None
      BY DEF Some, None
    <3>3. blob # Absent
      BY <2>1, <2>3, <3>1, <3>2, NothingDecoded DEF Absent
    <3> QED
      BY <2>1, <3>1, <3>3
  <2> QED
    BY <2>2, <2>3
<1> QED
  BY <1>1, <1>2

\* A get that is let in yields what can be decoded, but on iOS where the bytes
\* cannot be allocated.
LEMMA GetOutcome ==
  ASSUME CallInvariant, NEW t \in Threads, Current(t).fn = "get",
         store = "open", op[t].kind # "batchSet",
         NEW r \in Outcomes(Current(t)), Result(t, r).as # "thrown"
  PROVE  LET c == Current(t)
             v == IF contents[c.key] = Absent \/ ~mapped THEN None
                  ELSE Decode(c.type, contents[c.key])
         IN  \/ Result(t, r).value = v
             \/ platform = "ios" /\ c.type = "bytes" /\ v # None
<1> DEFINE c == Current(t)
           v == IF contents[c.key] = Absent \/ ~mapped THEN None
                ELSE Decode(c.type, contents[c.key])
<1>0. c.fn = "get"
  OBVIOUS
<1> HIDE DEF c
<1>1. r \in KvGet(c)
  BY <1>0 DEF Outcomes, c
<1>2. \/ /\ r.value = v
         /\ r.status = IF v = None THEN "KV_NOT_FOUND" ELSE "KV_OK"
      \/ r = Fails /\ c.type = "bytes" /\ v # None
  BY <1>1 DEF KvGet, Reading, Outcome
<1> HIDE DEF v
<1>3. CASE r.value = v /\ r.status = IF v = None THEN "KV_NOT_FOUND" ELSE "KV_OK"
  <2>1. Succeeds(r)
    BY <1>3 DEF Succeeds
  <2>2. Result(t, r).value = r.value
    BY <2>1 DEF Result, AndroidResult, IosResult, Throws
  <2> QED
    BY <1>3, <2>2 DEF c, v
<1>4. CASE r = Fails /\ c.type = "bytes" /\ v # None
  <2>1. ~Succeeds(r)
    BY <1>4 DEF Succeeds, Fails, Reading, Outcome
  <2>2. platform # "android"
    BY <2>1 DEF Result, AndroidResult, Throws
  <2> QED
    BY <1>4, <2>2 DEF CallInvariant, OnePlatform, c, v
<1> QED
  BY <1>2, <1>3, <1>4

\* A function's body is left by running it, or by the body of kv_close.
LEMMA LeavesBody ==
  ASSUME Inv, CallInvariant, [Next]_vars, NEW t \in Threads,
         pc[t] = "body", pc'[t] # "body", op[t].kind # "close"
  PROVE  Execute(t)
<1>1. Step(t)
  BY OthersStay
<1> QED
  BY <1>1 DEF Step, Call, UseAfterFree, Acquire, CloseBody, Delete,
              ForgetHandle, local

LEMMA ReadStep ==
  ASSUME Inv, CallInvariant, Holding, [Next]_vars, NEW t \in Threads,
         pc[t] = "body", pc'[t] # "body", op[t].kind # "close",
         store = "open", Current(t).fn = "get", out'.as # "thrown"
  PROVE  LET c == Current(t)
             a == acked[c.key]
         IN  /\ a = NotSet \/ ~mapped => out'.value = None
             /\ /\ mapped /\ a.type = c.type
                /\ c.type = "bytes" => a.value # Some(<<>>) /\ platform # "ios"
                => out'.value = a.value
<1> DEFINE c == Current(t)
           a == acked[c.key]
           blob == contents[c.key]
           v == IF blob = Absent \/ ~mapped THEN None ELSE Decode(c.type, blob)
<1>1. Execute(t)
  BY LeavesBody
<1>2. PICK r \in Outcomes(c) : Deliver(t, r)
  BY <1>1 DEF Execute
<1>3. out' = Result(t, r)
  BY <1>2 DEF Deliver, Reads
<1>4. IsCallList(op[t].calls) /\ next[t] \in 1 .. Len(op[t].calls)
      /\ op[t].kind \in Kinds
  BY DEF CallInvariant, Calling
<1>5. IsCall(c) /\ op[t].kind # "batchSet"
  BY <1>4 DEF IsCallList, CallInvariant, Calling, Current
<1>6. c.fn = "get"
  OBVIOUS
<1>7. \/ out'.value = v
      \/ platform = "ios" /\ c.type = "bytes" /\ v # None
  BY <1>2, <1>3, <1>5, GetOutcome
<1> HIDE DEF c
<1>8. KeyHolds(a, blob)
  BY <1>5, <1>6 DEF IsCall, OfKeys, Holding
<1> HIDE DEF a, blob
<1>9. ASSUME a = NotSet \/ ~mapped  PROVE out'.value = None
  <2>1. ASSUME a = NotSet  PROVE blob = Absent
    <3>1. ~\E type \in Types : a.type = type
      BY <2>1 DEF NotSet, Types
    <3> QED
      BY <1>8, <3>1 DEF KeyHolds
  <2>2. v = None
    BY <1>9, <2>1
  <2> HIDE DEF v
  <2> QED
    BY <1>7, <2>2
<1>10. ASSUME mapped, a.type = c.type,
              c.type = "bytes" => a.value # Some(<<>>) /\ platform # "ios"
       PROVE  out'.value = a.value
  <2>1. v = a.value
    BY <1>8, <1>10, HeldIsDecoded
  <2> HIDE DEF v
  <2> QED
    BY <1>7, <1>10, <2>1
<1> QED
  BY <1>9, <1>10 DEF a, c

\* From whatever thread and in whatever call a value was set, a getter of its
\* type yields it, with bytes of length 0 and of iOS excepted: every encoding
\* decodes to what was encoded.  It does so only while the file is mapped: after
\* a grow() whose mmap failed every getter yields null, until a call grows the
\* mapping again, and if that call is trim() it has dropped every key and
\* returned true (mmap_region.cpp:60-66, writer.cpp:374-375, 542-596).
THEOREM GettersReadBack == Spec => ReadsBack
<1> DEFINE I == Inv /\ CallInvariant /\ Holding
           Read ==
             \A t \in Threads :
               pc[t] = "body" /\ pc'[t] # "body" /\ op[t].kind # "close"
                 /\ store = "open" /\ Current(t).fn = "get" /\ out'.as # "thrown" =>
                 LET c == Current(t)
                     a == acked[c.key]
                 IN  /\ a = NotSet \/ ~mapped => out'.value = None
                     /\ /\ mapped /\ a.type = c.type
                        /\ c.type = "bytes" => a.value # Some(<<>>) /\ platform # "ios"
                        => out'.value = a.value
<1>1. Init => I
  BY InitInv, InitCallInvariant, InitHolding
<1>2. I /\ [Next]_vars => I'
  BY NextInv, NextCall, NextHolding
<1>3. I /\ [Next]_vars => [Read]_vars
  <2> SUFFICES ASSUME I, [Next]_vars  PROVE Read
    OBVIOUS
  <2> QED
    BY ReadStep
<1>4. Spec => [][Read]_vars
  <2> HIDE DEF I, Read
  <2> QED
    BY <1>1, <1>2, <1>3, PTL DEF Spec
<1> QED
  BY <1>4 DEF ReadsBack

-----------------------------------------------------------------------------
(***************************************************************************)
(* The type invariant.  The contents are bytes because they are encodings. *)
(***************************************************************************)
LEMMA EncodingsAreBytes ==
  ASSUME NEW type \in Types, NEW v \in Value(type)
  PROVE  Encode(type, v) \in Seq(Byte)
<1>0. /\ Bits32 \in Nat \ {0} /\ Bits64 \in Nat \ {0} /\ Bits32 <= Bits64
      /\ FloatBytes \in Nat /\ DoubleBytes \in Nat
  BY WidthAssumption
<1>1. ASSUME NEW x \in Nat  PROVE WriteUInt(x) \in Seq(Byte)
  <2> DEFINE w == Varint[x]
  <2>1. w \in Seq(Nat) /\ \A i \in 1 .. Len(w) : w[i] \in Byte
    BY VarintWrites DEF Writes
  <2> HIDE DEF w
  <2>2. w \in Seq(Byte)
    BY <2>1
  <2> QED
    BY <2>2 DEF w, WriteUInt
<1>2. ASSUME NEW bits \in Nat \ {0}, bits <= Bits64, NEW i \in Signed(bits)
      PROVE  WriteUInt(ToUnsigned(Bits64, i)) \in Seq(Byte)
  BY <1>0, <1>1, <1>2, SignedThrough
<1>3. ASSUME NEW bits \in Nat \ {0}, NEW i \in Unsigned(bits)
      PROVE  WriteUInt(i) \in Seq(Byte)
  <2>1. i \in Nat
    BY PowerPositive DEF Unsigned
  <2> QED
    BY <1>1, <2>1
<1>4. CASE type = "int32" \/ type = "int64"
  <2>1. PICK bits \in {Bits32, Bits64} : \E i \in Signed(bits) : v = <<i>>
    BY <1>4 DEF Value, Domain
  <2>2. PICK i \in Signed(bits) : v = <<i>>
    BY <2>1
  <2>3. Encode(type, v) = WriteUInt(ToUnsigned(Bits64, i))
    BY <1>4, <2>2 DEF Encode
  <2> QED
    BY <1>0, <1>2, <2>1, <2>2, <2>3
<1>5. CASE type = "uint32" \/ type = "uint64"
  <2>1. PICK bits \in {Bits32, Bits64} : \E i \in Unsigned(bits) : v = <<i>>
    BY <1>5 DEF Value, Domain
  <2>2. PICK i \in Unsigned(bits) : v = <<i>>
    BY <2>1
  <2>3. Encode(type, v) = WriteUInt(i)
    BY <1>5, <2>2 DEF Encode
  <2> QED
    BY <1>0, <1>3, <2>1, <2>2, <2>3
<1>6. CASE type = "bool"
  <2>1. 0 \in Byte /\ 1 \in Byte
    BY GroupFacts DEF Byte
  <2>2. v = <<0>> \/ v = <<1>>
    BY <1>6 DEF Value, Domain
  <2>3. <<0>> \in Seq(Byte) /\ <<1>> \in Seq(Byte)
    BY <2>1
  <2> QED
    BY <1>6, <2>2, <2>3 DEF Encode
<1>7. CASE type = "float" \/ type = "double"
  <2>1. PICK size \in {FloatBytes, DoubleBytes} : v \in Fixed(size)
    BY <1>7 DEF Value, Domain
  <2>2. v \in Seq(Byte)
    BY <1>0, <2>1 DEF Fixed
  <2> QED
    BY <1>7, <2>2 DEF Encode
<1>8. CASE type = "bytes"
  BY <1>8 DEF Value, Encode
<1> QED
  BY <1>4, <1>5, <1>6, <1>7, <1>8 DEF Types

\* What neither the calls nor the contents say.
Outside == /\ owner \in {NoThread} \cup {{t} : t \in Threads}
           /\ out.as \in {"none", "returned", "thrown", "refused", "stale"}
           /\ foreign \subseteq Keys
           /\ mapped \in BOOLEAN

LEMMA InitOutside == Init => Outside
<1>1. Init => mapped \in BOOLEAN
  BY DEF Init
<1>2. Init => owner = NoThread /\ out.as = "none" /\ foreign = {}
  BY DEF Init, NoResult
<1> QED
  BY <1>1, <1>2 DEF Outside

LEMMA DeliverOut ==
  ASSUME NEW t, NEW r, Deliver(t, r)
  PROVE  out'.as \in {"none", "returned", "thrown", "refused", "stale"}
<1>1. Result(t, r).as \in {"returned", "thrown", "refused", "stale"}
  BY DEF Result, AndroidResult, IosResult, IosError
<1>2. out' = Result(t, r) \/ out' = NoResult
  BY DEF Deliver
<1> QED
  BY <1>1, <1>2 DEF NoResult

LEMMA OutcomeMapped ==
  ASSUME NEW c, IsCall(c), NEW r \in Outcomes(c), mapped \in BOOLEAN
  PROVE  r.mapped \in BOOLEAN
<1>1. CASE store = "closed"
  BY <1>1 DEF Outcomes, Reading, Outcome
<1>2. ASSUME NEW after, r \in Failures(after)  PROVE r.mapped \in BOOLEAN
  <2>1. PICK m \in {mapped, FALSE} : r = Outcome("KV_IO", None, after, m)
    BY <1>2 DEF Failures
  <2>2. r.mapped = m
    BY <2>1 DEF Outcome
  <2> QED
    BY <2>2
<1>3. ASSUME NEW after, r = Done(after)  PROVE r.mapped \in BOOLEAN
  BY <1>3 DEF Done, Outcome
<1>4. ASSUME r = Fails \/ \E status, value : r = Reading(status, value)
      PROVE  r.mapped \in BOOLEAN
  BY <1>4 DEF Fails, Reading, Outcome
<1>5. CASE store # "closed" /\ c.fn = "set"
  <2>1. r \in KvSet(c)
    BY <1>5 DEF Outcomes
  <2> QED
    BY <1>2, <1>3, <2>1 DEF KvSet
<1>6. CASE store # "closed" /\ c.fn = "remove"
  <2>1. r \in KvRemove(c)
    BY <1>6 DEF Outcomes
  <2> QED
    BY <1>2, <1>3, <1>4, <2>1 DEF KvRemove
<1>7. CASE store # "closed" /\ c.fn = "trim"
  <2>1. r \in KvTrim
    BY <1>7 DEF Outcomes
  <2> QED
    BY <1>2, <1>3, <2>1 DEF KvTrim
<1>8. CASE store # "closed" /\ c.fn = "clear"
  <2>1. r \in KvClear
    BY <1>8 DEF Outcomes
  <2> QED
    BY <1>2, <1>3, <2>1 DEF KvClear
<1>9. CASE store # "closed" /\ c.fn \in {"get", "contains", "count", "allKeys"}
  BY <1>9 DEF Outcomes, KvGet, KvContains, KvCount, KvAllKeys, Fails, Reading,
              Outcome
<1> QED
  BY <1>1, <1>5, <1>6, <1>7, <1>8, <1>9 DEF IsCall, Functions

LEMMA NextOutside ==
  ASSUME CallInvariant, Outside, [Next]_vars
  PROVE  Outside'
<1>1. ASSUME NEW t \in Threads, Execute(t)  PROVE Outside'
  <2>1. PICK r \in Outcomes(Current(t)) :
          /\ Body(Current(t), r) /\ Deliver(t, r)
          /\ Acknowledge(t, Current(t), r)
    BY <1>1 DEF Execute
  <2>2. owner' = NoThread /\ mapped' = r.mapped
    BY <2>1 DEF Body
  <2>3. foreign' \subseteq Keys
    BY <2>1 DEF Acknowledge, Outside
  <2>4. IsCall(Current(t))
    BY <1>1 DEF Execute, CallInvariant, Calling, IsCallList, Current
  <2>5. r.mapped \in BOOLEAN
    BY <2>4, OutcomeMapped DEF Outside
  <2> QED
    BY <2>1, <2>2, <2>3, <2>5, DeliverOut DEF Outside
<1>2. ASSUME NEW t \in Threads, Call(t)  PROVE Outside'
  <2>1. owner' = owner /\ foreign' = foreign /\ mapped' = mapped
    BY <1>2 DEF Call, kv, history
  <2>2. out' = NoResult \/ Deliver(t, NullStore)
    BY <1>2 DEF Call, Silent
  <2> QED
    BY <2>1, <2>2, DeliverOut DEF Outside, NoResult
<1>3. ASSUME NEW t \in Threads, Acquire(t)  PROVE Outside'
  BY <1>3 DEF Acquire, Lock, Silent, Outside, NoResult, history
<1>4. ASSUME NEW t \in Threads, CloseBody(t)  PROVE Outside'
  BY <1>4 DEF CloseBody, KvCloseBody, Silent, Outside, NoResult, history
<1>5. ASSUME NEW t \in Threads,
             Starts(t) \/ UseAfterFree(t) \/ Delete(t) \/ ForgetHandle(t)
      PROVE  Outside'
  <2>1. /\ owner' = owner /\ foreign' = foreign /\ out' = NoResult
        /\ mapped' \in {mapped, FALSE}
    <3>1. CASE Starts(t)
      BY <3>1 DEF Starts, Single, BatchGet, BatchSet, Close, Flush, Edit, Begin,
                  kv, history, Silent
    <3>2. CASE UseAfterFree(t) \/ Delete(t) \/ ForgetHandle(t)
      BY <3>2 DEF UseAfterFree, Delete, KvDelete, ForgetHandle, kv, history,
                  Silent
    <3> QED
      BY <1>5, <3>1, <3>2
  <2> QED
    BY <2>1 DEF Outside, NoResult
<1>6. CASE Construct
  BY <1>6 DEF Construct, KvOpen, Silent, NoResult, history, Outside
<1>7. CASE UNCHANGED vars
  BY <1>7 DEF vars, kv, history, Outside
<1> QED
  BY <1>1, <1>2, <1>3, <1>4, <1>5, <1>6, <1>7 DEF Next, Step

\* Every state the store and its callers reach is of the types it is meant to
\* be: the contents are bytes, a call is at one of its native calls, and no key
\* is pending twice.
THEOREM AppTypesCorrect == Spec => []TypeOK
<1> DEFINE I == Inv /\ CallInvariant /\ Holding /\ Outside
<1>1. Init => I
  BY InitInv, InitCallInvariant, InitHolding, InitOutside
<1>2. I /\ [Next]_vars => I'
  BY NextInv, NextCall, NextHolding, NextOutside
<1>3. I => TypeOK
  <2> SUFFICES ASSUME I  PROVE TypeOK
    OBVIOUS
  <2>1. ASSUME NEW k \in Keys  PROVE contents[k] \in Seq(Byte)
    <3>1. KeyHolds(acked[k], contents[k]) \/ contents[k] = Absent
      BY DEF Holding
    <3>2. Absent \in Seq(Byte)
      BY DEF Absent
    <3> QED
      BY <3>1, <3>2, EncodingsAreBytes DEF KeyHolds
  <2>2. ASSUME NEW t \in Threads
        PROVE  /\ pc[t] \in {"idle", "call", "lock", "body", "delete", "forget"}
               /\ pc[t] = "idle" <=> op[t] = NoOp
               /\ op[t].kind \notin {"none", "close"} =>
                    next[t] \in DOMAIN op[t].calls
               /\ ptr[t] \in {0, 1}
    <3>1. pc[t] \in PCs /\ ptr[t] \in {0, 1}
      BY DEF Inv, Typed
    <3>2. /\ pc[t] = "idle" => op[t] = NoOp
          /\ pc[t] # "idle" => op[t].kind \in Kinds
          /\ op[t].kind \in Kinds \ {"close"} =>
               IsCallList(op[t].calls) /\ next[t] \in 1 .. Len(op[t].calls)
      BY DEF CallInvariant, Calling
    <3>3. NoOp.kind = "none"
      BY DEF NoOp
    <3> QED
      BY <3>1, <3>2, <3>3 DEF PCs, Kinds, IsCallList
  <2>3. \A i, j \in DOMAIN pending : pending[i].key = pending[j].key => i = j
    BY DEF CallInvariant, Editing
  <2> QED
    BY <2>1, <2>2, <2>3
    DEF TypeOK, Inv, Typed, CallInvariant, OnePlatform, Outside
<1> QED
  <2> HIDE DEF I
  <2> QED
    BY <1>1, <1>2, <1>3, PTL DEF Spec

-----------------------------------------------------------------------------
(***************************************************************************)
(* The keys of kv_all_keys.                                                *)
(***************************************************************************)
LEMMA WalkEquation ==
  ASSUME NEW step, NEW count \in Nat \ {0}, DOMAIN step \subseteq Nat
  PROVE  /\ Walk(step, count)[1] = 1
         /\ \A i \in 2 .. count :
              Walk(step, count)[i] =
                LET p == Walk(step, count)[i - 1]
                IN  IF p # 0 /\ p + step[p] \in DOMAIN step THEN p + step[p] ELSE 0
<1> DEFINE Goes(p) == IF p # 0 /\ p + step[p] \in DOMAIN step THEN p + step[p] ELSE 0
           D == 1 .. count
           S == Nat
           B == {1}
           a == [i \in D |-> 1]
           d == [i \in D |-> i - 1]
           h == [i \in D |-> [p \in S |-> Goes(p)]]
           Right(f) == f = [i \in 1 .. count |->
             IF i = 1 THEN 1
             ELSE LET p == f[i - 1]
                  IN  IF p # 0 /\ p + step[p] \in DOMAIN step THEN p + step[p] ELSE 0]
<1>1. Recursion(D, S, B, a, d, h)
  <2>1. D \in SUBSET Nat /\ a \in [D -> S]
    OBVIOUS
  <2>2. \A i \in D \ B : d[i] \in D /\ d[i] < i
    OBVIOUS
  <2>3. ASSUME NEW i \in D \ B, NEW p \in S  PROVE h[i][p] \in S
    <3>1. Goes(p) \in Nat
      OBVIOUS
    <3> HIDE DEF Goes
    <3> QED
      BY <3>1
  <2> HIDE DEF D, S, B, a, d, h
  <2> QED
    BY <2>1, <2>2, <2>3 DEF Recursion
<1>2. PICK f \in [D -> S] : \A i \in D : f[i] = StepAt(f, i, B, a, d, h)
  <2> HIDE DEF D, S, B, a, d, h
  <2> QED
    BY <1>1, RecursiveFunction
<1>3. ASSUME NEW i \in D
      PROVE  f[i] = IF i = 1 THEN 1 ELSE Goes(f[i - 1])
  <2> HIDE DEF Goes
  <2>1. i # 1 => i - 1 \in D /\ f[i - 1] \in S
    OBVIOUS
  <2>2. i # 1 => h[i][f[i - 1]] = Goes(f[i - 1])
    BY <2>1
  <2> QED
    BY <1>2, <2>1, <2>2 DEF StepAt
<1>4. Right(f)
  <2>1. f = [i \in 1 .. count |-> IF i = 1 THEN 1 ELSE Goes(f[i - 1])]
    <3> HIDE DEF Goes
    <3> QED
      BY <1>3
  <2> QED
    BY <2>1
<1>5. Right(Walk(step, count))
  BY <1>4 DEF Walk
<1> DEFINE g == Walk(step, count)
<1>6. \A i \in D : g[i] = IF i = 1 THEN 1 ELSE Goes(g[i - 1])
  BY <1>5
<1> HIDE DEF g, Right, Goes
<1>7. 1 \in D /\ \A i \in 2 .. count : i \in D /\ i # 1
  OBVIOUS
<1>8. g[1] = 1 /\ \A i \in 2 .. count : g[i] = Goes(g[i - 1])
  BY <1>6, <1>7
<1> QED
  BY <1>8 DEF g, Goes

\* A walk, and the places it should come to.
Walks(step, count, place) ==
  /\ count \in Nat \ {0} /\ DOMAIN step \subseteq Nat \ {0}
  /\ place \in [1 .. count -> DOMAIN step] /\ place[1] = 1

Finds(step, count, place, i) == Walk(step, count)[i] = place[i]

LeadsOn(step, place, i) == place[i] + step[place[i]] = place[i + 1]

\* From a place that is found the next one is found exactly where the step leads
\* there.
LEMMA WalkStep ==
  ASSUME NEW step, NEW count, NEW place, Walks(step, count, place),
         NEW i \in 1 .. count - 1, Finds(step, count, place, i)
  PROVE  Finds(step, count, place, i + 1) <=> LeadsOn(step, place, i)
<1> DEFINE g == Walk(step, count)
           q == place[i] + step[place[i]]
<1>0. /\ count \in Nat \ {0} /\ DOMAIN step \subseteq Nat \ {0}
      /\ place \in [1 .. count -> DOMAIN step]
  BY DEF Walks
<1>1. \A j \in 2 .. count :
        g[j] = LET p == g[j - 1]
               IN  IF p # 0 /\ p + step[p] \in DOMAIN step THEN p + step[p] ELSE 0
  BY <1>0, WalkEquation
<1>2. g[i] = place[i]
  BY DEF Finds
<1> HIDE DEF g
<1>3. /\ i + 1 \in 2 .. count /\ (i + 1) - 1 = i /\ i \in 1 .. count
      /\ i + 1 \in 1 .. count
  BY <1>0
<1>4. /\ place[i] \in DOMAIN step /\ place[i + 1] \in DOMAIN step
      /\ place[i] # 0 /\ place[i + 1] # 0
  BY <1>0, <1>3
<1>5. g[i + 1] = IF q \in DOMAIN step THEN q ELSE 0
  <2>1. g[i + 1] = LET p == g[(i + 1) - 1]
                   IN  IF p # 0 /\ p + step[p] \in DOMAIN step
                         THEN p + step[p] ELSE 0
    BY <1>1, <1>3
  <2>2. g[(i + 1) - 1] = place[i]
    BY <1>2, <1>3
  <2> QED
    BY <1>4, <2>1, <2>2
<1> HIDE DEF q
<1>6. g[i + 1] = place[i + 1] <=> q = place[i + 1]
  BY <1>4, <1>5
<1> QED
  BY <1>6 DEF g, q, Finds, LeadsOn

\* A walk whose steps lead from each place to the next one finds them all.
LEMMA WalkFinds ==
  ASSUME NEW step, NEW count, NEW place, Walks(step, count, place),
         \A i \in 1 .. count - 1 : LeadsOn(step, place, i)
  PROVE  \A i \in 1 .. count : Finds(step, count, place, i)
<1> DEFINE T == {i \in Nat : i + 1 <= count => Finds(step, count, place, i + 1)}
<1>0. count \in Nat \ {0}
  BY DEF Walks
<1>1. Finds(step, count, place, 1)
  <2>1. count \in Nat \ {0} /\ DOMAIN step \subseteq Nat /\ place[1] = 1
    BY DEF Walks
  <2> QED
    BY <2>1, WalkEquation DEF Finds
<1>2. ASSUME NEW i \in 1 .. count - 1, Finds(step, count, place, i)
      PROVE  Finds(step, count, place, i + 1)
  BY <1>2, WalkStep
<1>3. 0 \in T
  BY <1>1
<1>4. ASSUME NEW i \in Nat, i \in T  PROVE i + 1 \in T
  <2> SUFFICES ASSUME (i + 1) + 1 <= count  PROVE Finds(step, count, place, (i + 1) + 1)
    OBVIOUS
  <2>1. i + 1 \in 1 .. count - 1 /\ i + 1 <= count
    BY <1>0
  <2>2. Finds(step, count, place, i + 1)
    BY <1>4, <2>1
  <2> QED
    BY <1>2, <2>1, <2>2
<1> HIDE DEF T
<1>5. Nat \subseteq T
  BY <1>3, <1>4, NatInduct
<1>6. ASSUME NEW j \in 1 .. count  PROVE Finds(step, count, place, j)
  <2>1. j - 1 \in Nat /\ (j - 1) + 1 = j /\ (j - 1) + 1 <= count
    BY <1>0
  <2>2. j - 1 \in T
    BY <1>5, <2>1
  <2> QED
    BY <2>1, <2>2 DEF T
<1> QED
  BY <1>6

\* UTF-16 has as many units as UTF-8 has bytes exactly where all is ASCII.
LEMMA Utf16OfAscii ==
  ASSUME NEW key, Utf8(key)
  PROVE  /\ Utf16Length(key) \in Nat /\ Len(key) \in Nat
         /\ Utf16Length(key) = Len(key) <=> Ascii(key)
<1> DEFINE S == {i \in DOMAIN key : key[i] \in {1, 4} \/ i = 1}
           l == Len(key)
<1>1. /\ key \in Seq(1 .. 4) /\ l \in Nat /\ DOMAIN key = 1 .. l
      /\ \A i \in 1 .. l : key[i] \in 1 .. 4
  BY LenProperties, ElementOfSeq DEF Utf8
<1>2. \A i \in 1 .. l : key[i] > 1 => i > 1 /\ key[i - 1] = key[i] - 1
  BY <1>1 DEF Utf8
<1>3. IsFiniteSet(1 .. l) /\ Cardinality(1 .. l) = l
  <2> HIDE DEF l
  <2>1. 1 \in Int /\ l \in Int
    BY <1>1
  <2>2. IsFiniteSet(1 .. l) /\ Cardinality(1 .. l) = IF 1 > l THEN 0 ELSE l - 1 + 1
    BY <2>1, FS_Interval
  <2> QED
    BY <1>1, <2>2
<1>4. S \in SUBSET (1 .. l)
  BY <1>1
<1>5. /\ Cardinality(S) \in Nat
      /\ Cardinality(S) = l <=> S = 1 .. l
  <2> HIDE DEF S
  <2>1. /\ IsFiniteSet(S) /\ Cardinality(1 .. l) = Cardinality(S) => 1 .. l = S
    BY <1>3, <1>4, FS_Subset
  <2>2. Cardinality(S) \in Nat
    BY <1>3, <1>4, FS_Subset, FS_CardinalityType
  <2> QED
    BY <1>3, <1>4, <2>2, FS_Subset
<1>6. ASSUME Ascii(key)  PROVE S = 1 .. l
  BY <1>1, <1>6 DEF Ascii
<1>7. ASSUME S = 1 .. l  PROVE Ascii(key)
  <2>1. \A i \in 1 .. l : key[i] \in {1, 4} \/ i = 1
    BY <1>7
  <2> SUFFICES ASSUME NEW i \in 1 .. l, key[i] # 1  PROVE FALSE
    BY <1>1 DEF Ascii
  <2> HIDE DEF S
  <2>2. key[i] > 1
    BY <1>1
  <2>3. i > 1 /\ key[i - 1] = key[i] - 1
    BY <1>2, <2>2
  <2>4. key[i] = 4 /\ key[i - 1] = 3 /\ i - 1 \in 1 .. l
    BY <1>1, <2>1, <2>3
  <2>5. i - 1 = 1
    BY <2>1, <2>4
  <2> QED
    BY <1>2, <2>4, <2>5
<1>8. Utf16Length(key) = Cardinality(S)
  BY DEF Utf16Length
<1> HIDE DEF S
<1> QED
  BY <1>1, <1>5, <1>6, <1>7, <1>8

LEMMA StringHeld ==
  ASSUME NEW key, Utf8(key), NEW buffer, NEW p, Holds(buffer, p, CString(key))
  PROVE  /\ StringAt(buffer, p) = key
         /\ p \in DOMAIN buffer
<1> DEFINE l == Len(key)
           e == p + l
           IsEnd(x) == buffer[x] = 0 /\ \A i \in p .. x - 1 : buffer[i] # 0
<1>1. /\ key \in Seq(Nat) /\ l \in Nat /\ \A i \in 1 .. l : key[i] # 0
  <2>1. key \in Seq(1 .. 4)
    BY DEF Utf8
  <2>2. key \in Seq(Nat)
    <3>1. 1 .. 4 \subseteq Nat
      OBVIOUS
    <3> QED
      BY <2>1, <3>1, SeqMonotonic
  <2> QED
    BY <2>1, <2>2, LenProperties, ElementOfSeq
<1>2. <<0>> \in Seq(Nat) /\ Len(<<0>>) = 1 /\ <<0>>[1] = 0
  OBVIOUS
<1>3. Holds(buffer, p, key) /\ Holds(buffer, p + Len(key), <<0>>)
  BY <1>1, <1>2, HoldsBoth DEF CString
<1> HIDE DEF l
<1>4. /\ buffer \in Seq(Nat) /\ p \in Nat \ {0} /\ e \in Nat /\ Len(buffer) \in Nat
      /\ e + 1 <= Len(buffer) + 1
      /\ \A i \in 1 .. l : buffer[p - 1 + i] = key[i]
      /\ \A i \in 1 .. 1 : buffer[e - 1 + i] = <<0>>[i]
  BY <1>1, <1>2, <1>3, LenProperties DEF Holds, l
<1>5. e \in p .. Len(buffer) /\ buffer[e] = 0
  <2>1. (e - 1) + 1 = e /\ 1 \in 1 .. 1
    BY <1>4
  <2>2. buffer[e - 1 + 1] = <<0>>[1]
    BY <1>4
  <2> HIDE DEF e
  <2>3. e - 1 + 1 = e
    BY <1>4
  <2>4. p <= e
    BY <1>1, <1>4 DEF e
  <2> QED
    BY <1>2, <1>4, <2>2, <2>3, <2>4
<1>6. \A i \in p .. e - 1 : buffer[i] # 0
  <2> SUFFICES ASSUME NEW i \in p .. e - 1  PROVE buffer[i] # 0
    OBVIOUS
  <2> DEFINE j == i - p + 1
  <2>1. j \in 1 .. l /\ p - 1 + j = i
    BY <1>1, <1>4
  <2> HIDE DEF j
  <2> QED
    BY <1>1, <1>4, <2>1
<1> HIDE DEF e
<1>7. ASSUME NEW x \in p .. Len(buffer), IsEnd(x)  PROVE x = e
  <2>1. ~(x < e)
    BY <1>4, <1>6, <1>7
  <2>2. ~(e < x)
    BY <1>4, <1>5, <1>7
  <2> QED
    BY <1>4, <2>1, <2>2
<1>8. IsEnd(e)
  BY <1>5, <1>6
<1>9. (CHOOSE x \in p .. Len(buffer) : IsEnd(x)) = e
  <2> DEFINE c == CHOOSE x \in p .. Len(buffer) : IsEnd(x)
  <2>1. c \in p .. Len(buffer) /\ IsEnd(c)
    BY <1>5, <1>8
  <2> HIDE DEF c, IsEnd
  <2>2. c = e
    BY <1>7, <2>1
  <2> QED
    BY <2>2 DEF c
<1>10. StringAt(buffer, p) = SubSeq(buffer, p, e - 1)
  BY <1>9 DEF StringAt
<1>11. SubSeq(buffer, p, e - 1) = key
  <2>1. e - 1 = p + Len(key) - 1
    BY <1>1, <1>4 DEF e, l
  <2> QED
    BY <1>3, <2>1, HeldIs
<1>12. p \in DOMAIN buffer
  BY <1>4, <1>5, LenProperties
<1> QED
  BY <1>10, <1>11, <1>12

\* Where the keys are in the buffer.
LEMMA KeysHeld ==
  ASSUME NEW n \in Nat \ {0}, NEW keys \in [1 .. n -> KeyStrings]
  PROVE  /\ AllKeysBuffer(keys)[n] \in Seq(Nat)
         /\ KeyAt(keys, 1) = 1
         /\ \A i \in 1 .. n :
              /\ Utf8(keys[i]) /\ KeyAt(keys, i) \in Nat
              /\ Holds(AllKeysBuffer(keys)[n], KeyAt(keys, i), CString(keys[i]))
         /\ \A i \in 1 .. n - 1 :
              KeyAt(keys, i + 1) = KeyAt(keys, i) + (Len(keys[i]) + 1)
<1> DEFINE E     == Seq(Nat)
           parts == [i \in 1 .. n |-> CString(keys[i])]
           app   == Appended(<<>>, parts)
<1>1. ASSUME NEW i \in 1 .. n
      PROVE  /\ Utf8(keys[i]) /\ CString(keys[i]) \in E /\ Len(keys[i]) \in Nat
             /\ Len(CString(keys[i])) = Len(keys[i]) + 1
  <2>1. Utf8(keys[i])
    BY KeyStringsAssumption
  <2> DEFINE key == keys[i]
  <2>2. key \in Seq(1 .. 4)
    BY <2>1 DEF Utf8
  <2> HIDE DEF key
  <2>3. key \in Seq(Nat)
    <3>1. 1 .. 4 \subseteq Nat
      OBVIOUS
    <3> QED
      BY <2>2, <3>1, SeqMonotonic
  <2>4. <<0>> \in Seq(Nat) /\ Len(<<0>>) = 1
    OBVIOUS
  <2>5. key \o <<0>> \in Seq(Nat) /\ Len(key \o <<0>>) = Len(key) + 1
    BY <2>3, <2>4, ConcatProperties
  <2> QED
    BY <2>1, <2>3, <2>5, LenProperties DEF CString, key
<1>2. Len(keys) = n
  <2>1. keys \in Seq(KeyStrings)
    BY IsASeq
  <2> QED
    BY <2>1, LenProperties
<1>3. /\ parts \in Seq(E) /\ Len(parts) = n
      /\ \A i \in 1 .. n : parts[i] = CString(keys[i])
  <2>1. \A i \in 1 .. n : CString(keys[i]) \in E
    BY <1>1
  <2>2. \A i \in 1 .. n : parts[i] = CString(keys[i])
    OBVIOUS
  <2>3. parts \in [1 .. n -> E]
    <3> HIDE DEF E
    <3> QED
      BY <2>1
  <2>4. DOMAIN parts = 1 .. n
    OBVIOUS
  <2> HIDE DEF E, parts
  <2>5. parts \in Seq(E)
    BY <2>3, SeqDef
  <2>6. Len(parts) \in Nat /\ DOMAIN parts = 1 .. Len(parts)
    BY <2>5, LenProperties
  <2> QED
    BY <2>2, <2>4, <2>5, <2>6
<1>4. <<>> \in Seq(Nat) /\ Len(<<>>) = 0 /\ parts \in Seq(Seq(Nat))
  BY <1>3, EmptySeq
<1>5. AllKeysBuffer(keys) = app
  BY <1>2 DEF AllKeysBuffer
<1> HIDE DEF parts
<1>6. app[0] = <<>> /\ \A i \in 0 .. Len(parts) : app[i] \in Seq(Nat)
  BY <1>4, AppendedEquation
<1>7. \A i \in 1 .. Len(parts) :
        /\ Len(app[i]) = Len(app[i - 1]) + Len(parts[i])
        /\ Holds(app[Len(parts)], Len(app[i - 1]) + 1, parts[i])
  BY <1>4, AppendedHolds
<1> HIDE DEF app
<1>8. \A i \in 0 .. n : app[i] \in Seq(Nat) /\ Len(app[i]) \in Nat
  BY <1>3, <1>6, LenProperties
<1>9. \A i : KeyAt(keys, i) = Len(app[i - 1]) + 1
  BY <1>5 DEF KeyAt
<1>10. KeyAt(keys, 1) = 1
  <2>1. 1 - 1 = 0
    OBVIOUS
  <2>2. Len(app[1 - 1]) = 0
    BY <1>4, <1>6, <2>1
  <2> QED
    BY <1>9, <2>2
<1>11. ASSUME NEW i \in 1 .. n
       PROVE  /\ KeyAt(keys, i) \in Nat
              /\ Holds(app[n], KeyAt(keys, i), CString(keys[i]))
  <2>1. i - 1 \in 0 .. n
    OBVIOUS
  <2>2. Holds(app[n], Len(app[i - 1]) + 1, CString(keys[i]))
    BY <1>3, <1>7
  <2> QED
    BY <1>8, <1>9, <2>1, <2>2
<1>12. ASSUME NEW i \in 1 .. n - 1
       PROVE  KeyAt(keys, i + 1) = KeyAt(keys, i) + (Len(keys[i]) + 1)
  <2>1. i \in 1 .. n /\ (i + 1) - 1 = i /\ i - 1 \in 0 .. n
    OBVIOUS
  <2> DEFINE a == Len(app[i - 1])
             b == Len(app[i])
             l == Len(keys[i])
  <2>2. b = a + (l + 1)
    BY <1>1, <1>3, <1>7, <2>1
  <2>3. KeyAt(keys, i + 1) = b + 1 /\ KeyAt(keys, i) = a + 1
    BY <1>9, <2>1
  <2>4. a \in Nat /\ b \in Nat /\ l \in Nat
    BY <1>1, <1>8, <2>1
  <2> HIDE DEF a, b, l
  <2>5. b + 1 = a + 1 + (l + 1)
    BY <2>2, <2>4
  <2> QED
    BY <2>3, <2>5 DEF l
<1>13. app[n] \in Seq(Nat)
  BY <1>8
<1> QED
  BY <1>1, <1>5, <1>10, <1>11, <1>12, <1>13

\* What allKeys() returns are the keys there are, at every key but on iOS after
\* one that is not ASCII (kv_store.cpp:209-240, QuickStore.ios.kt:123-131).
THEOREM EveryKeyIsWalked == KeysWalked
<1> SUFFICES ASSUME NEW n \in 1 .. MaxKeys, NEW keys \in [1 .. n -> KeyStrings]
             PROVE  LET buffer == AllKeysBuffer(keys)[n]
                        Exact(at) == \A i \in 1 .. n : at[i] = KeyAt(keys, i)
                    IN  /\ \A i \in 1 .. n : StringAt(buffer, KeyAt(keys, i)) = keys[i]
                        /\ Exact(JniAllKeys(buffer, n))
                        /\ Exact(IosAllKeys(buffer, n))
                             <=> \A i \in 1 .. n - 1 : Ascii(keys[i])
  BY DEF KeysWalked
<1> DEFINE buffer == AllKeysBuffer(keys)[n]
           place  == [i \in 1 .. n |-> KeyAt(keys, i)]
           jni    == [p \in DOMAIN buffer |-> Len(StringAt(buffer, p)) + 1]
           ios    == [p \in DOMAIN buffer |-> Utf16Length(StringAt(buffer, p)) + 1]
<1>1. n \in Nat \ {0}
  BY KeyStringsAssumption
<1>2. /\ buffer \in Seq(Nat) /\ KeyAt(keys, 1) = 1
      /\ \A i \in 1 .. n :
           /\ Utf8(keys[i]) /\ KeyAt(keys, i) \in Nat
           /\ Holds(buffer, KeyAt(keys, i), CString(keys[i]))
      /\ \A i \in 1 .. n - 1 :
           KeyAt(keys, i + 1) = KeyAt(keys, i) + (Len(keys[i]) + 1)
  BY <1>1, KeysHeld
<1> HIDE DEF buffer
<1>3. \A i \in 1 .. n : /\ StringAt(buffer, KeyAt(keys, i)) = keys[i]
                        /\ KeyAt(keys, i) \in DOMAIN buffer
  BY <1>2, StringHeld
<1>4. DOMAIN buffer \subseteq Nat \ {0}
  <2>1. DOMAIN buffer = 1 .. Len(buffer) /\ Len(buffer) \in Nat
    BY <1>2, LenProperties
  <2> QED
    BY <2>1
<1>5. /\ place \in [1 .. n -> DOMAIN buffer] /\ place[1] = 1
      /\ \A i \in 1 .. n : place[i] = KeyAt(keys, i)
  BY <1>1, <1>2, <1>3
<1>6. ASSUME NEW i \in 1 .. n - 1
      PROVE  /\ i \in 1 .. n /\ i + 1 \in 1 .. n
             /\ place[i + 1] = place[i] + (Len(keys[i]) + 1)
             /\ jni[place[i]] = Len(keys[i]) + 1
             /\ ios[place[i]] = Utf16Length(keys[i]) + 1
             /\ place[i] \in Nat
  <2>1. i \in 1 .. n /\ i + 1 \in 1 .. n
    BY <1>1
  <2>2. place[i] = KeyAt(keys, i) /\ place[i + 1] = KeyAt(keys, i + 1)
    BY <1>5, <2>1
  <2> HIDE DEF place
  <2> QED
    BY <1>2, <1>3, <2>1, <2>2
<1> HIDE DEF place
<1>7. \A i \in 1 .. n : Finds(jni, n, place, i)
  <2>1. DOMAIN jni = DOMAIN buffer
    OBVIOUS
  <2> HIDE DEF jni
  <2>2. Walks(jni, n, place)
    BY <1>1, <1>4, <1>5, <2>1 DEF Walks
  <2>3. \A i \in 1 .. n - 1 : LeadsOn(jni, place, i)
    BY <1>6 DEF LeadsOn
  <2> QED
    BY <2>2, <2>3, WalkFinds
<1>8. (\A i \in 1 .. n : Finds(ios, n, place, i))
        <=> \A i \in 1 .. n - 1 : Ascii(keys[i])
  <2>1. Walks(ios, n, place)
    <3>1. DOMAIN ios = DOMAIN buffer
      OBVIOUS
    <3> HIDE DEF ios
    <3> QED
      BY <1>1, <1>4, <1>5, <3>1 DEF Walks
  <2>2. ASSUME NEW i \in 1 .. n - 1
        PROVE  LeadsOn(ios, place, i) <=> Ascii(keys[i])
    <3>1. /\ Utf16Length(keys[i]) \in Nat /\ Len(keys[i]) \in Nat
          /\ Utf16Length(keys[i]) = Len(keys[i]) <=> Ascii(keys[i])
      BY <1>2, <1>6, Utf16OfAscii
    <3> DEFINE a == place[i]
               b == place[i + 1]
               u == Utf16Length(keys[i])
               l == Len(keys[i])
    <3>2. a \in Nat /\ b = a + (l + 1) /\ ios[a] = u + 1
      BY <1>6
    <3> HIDE DEF a, b, u, l, ios
    <3>3. u \in Nat /\ l \in Nat /\ (u = l <=> Ascii(keys[i]))
      BY <3>1 DEF u, l
    <3>4. a + ios[a] = b <=> u = l
      BY <3>2, <3>3
    <3> QED
      BY <3>3, <3>4 DEF a, b, LeadsOn
  <2> HIDE DEF ios, jni
  <2>3. ASSUME \A i \in 1 .. n : Finds(ios, n, place, i), NEW i \in 1 .. n - 1
        PROVE  LeadsOn(ios, place, i)
    <3>1. Finds(ios, n, place, i) /\ Finds(ios, n, place, i + 1)
      BY <1>6, <2>3
    <3> QED
      BY <2>1, <3>1, WalkStep
  <2>4. ASSUME \A i \in 1 .. n - 1 : LeadsOn(ios, place, i)
        PROVE  \A i \in 1 .. n : Finds(ios, n, place, i)
    BY <2>1, <2>4, WalkFinds
  <2> QED
    BY <2>2, <2>3, <2>4
<1>9. JniAllKeys(buffer, n) = Walk(jni, n) /\ IosAllKeys(buffer, n) = Walk(ios, n)
  BY DEF JniAllKeys, IosAllKeys
<1> HIDE DEF jni, ios
<1> QED
  BY <1>3, <1>5, <1>7, <1>8, <1>9 DEF buffer, Finds

-----------------------------------------------------------------------------
(***************************************************************************)
(* What the encoding and the parser promise, as the runs state it.         *)
(***************************************************************************)
\* The sizes in front of keys and values end where they say they do.
THEOREM VarintsEnd == Spec => []VarintsAreSelfDelimiting
<1>1. VarintsAreSelfDelimiting
  BY VarintsEndThemselves DEF VarintsAreSelfDelimiting
<1> QED
  BY <1>1, PTL

\* No value is read but as it was written.
THEOREM ValuesReturn == Spec => []ValuesRoundTrip
<1>1. ValuesRoundTrip
  BY EveryValueReturns DEF ValuesRoundTrip
<1> QED
  BY <1>1, PTL

\* A value is taken for one of another type in the cases that are named and in
\* no other, where a double is longer than a bool and no longer than an integer
\* can be (8 bytes, of at most 10).
THEOREM OnlyTheseAreMisread ==
  ASSUME 1 < DoubleBytes, DoubleBytes <= MaxGroups(Bits64)
  PROVE  Spec => []MisreadsAreKnown
<1>1. MisreadsAreKnown
  BY MisreadsAreThese DEF MisreadsAreKnown
<1> QED
  BY <1>1, PTL

\* On Android allKeys() returns the keys there are, and on iOS where every key
\* but the last one is ASCII and nowhere else.
THEOREM KeysAreWalked == Spec => []AllKeysAreWalked
<1>1. AllKeysAreWalked
  BY EveryKeyIsWalked DEF AllKeysAreWalked
<1> QED
  BY <1>1, PTL

\* What the cells of DataFile yield is what the bytes yield, wherever the log is
\* cut.
THEOREM LogsScanAsCells == Spec => []LogsAreScanned
<1>1. LogsAreScanned
  BY LogsScanWhole DEF LogsAreScanned
<1> QED
  BY <1>1, PTL

\* However damaged the bytes are, no value is read from outside the size.
THEOREM NoScanLeadsOut == Spec => []ScansStayInside
<1>1. ScansStayInside
  BY ScansEndInside DEF ScansStayInside
<1> QED
  BY <1>1, PTL
=============================================================================
