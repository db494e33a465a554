----------------------------- MODULE DurableMap -----------------------------
(***************************************************************************)
(* What a store promises the program that uses it: a map that survives the *)
(* death of the process, with the exceptions the code really has.  No log, *)
(* no CRC, no capacity.  QuickStoreWriter implements it.                   *)
(*                                                                         *)
(*   - A crash between two operations loses nothing that was stored.       *)
(*   - A crash inside a put leaves the map as it was, or with the put, or  *)
(*     as it was at the fallback, the last rewrite.                        *)
(*   - A store that was opened at its fallback keeps no put until the next *)
(*     rewrite: it is not `logged'.                                        *)
(*   - A crash inside a rewrite, or while the store is created, may leave  *)
(*     a store that no process opens again.                                *)
(***************************************************************************)
EXTENDS FiniteSets

CONSTANTS Keys, Blobs, Empty

VARIABLES
  status,    \* see Statuses
  view,      \* what a read returns
  stored,    \* what the next open will return
  fallback,  \* {} or {the contents as of the last rewrite}
  logged,    \* whether a put reaches `stored'
  pending    \* <<>> or <<the put under way>>

vars == <<status, view, stored, fallback, logged, pending>>

Statuses == {"absent", "creating", "closed", "open", "rewriting", "unopenable"}
Contents == [Keys -> Blobs]
EmptyContents == [k \in Keys |-> Empty]
Record == [key : Keys, blob : Blobs]

Put(contents, r) == [contents EXCEPT ![r.key] = r.blob]

TypeOK == /\ status \in Statuses
          /\ view \in Contents
          /\ stored \in Contents
          /\ fallback \in SUBSET Contents
          /\ logged \in BOOLEAN
          /\ pending \in {<<>>} \cup {<<r>> : r \in Record}

Init == /\ \/ status = "absent" /\ stored = EmptyContents /\ fallback = {}
           \/ /\ status = "closed"
              /\ stored \in Contents
              /\ fallback \in {{}} \cup {{c} : c \in Contents}
        /\ view = EmptyContents
        /\ logged = TRUE
        /\ pending = <<>>

BeginCreate == /\ status = "absent"
               /\ status' = "creating"
               /\ UNCHANGED <<view, stored, fallback, logged, pending>>

EndCreate == /\ status = "creating"
             /\ status' = "open"
             /\ fallback' = {EmptyContents}
             /\ UNCHANGED <<view, stored, logged, pending>>

Open == /\ status = "closed"
        /\ status' = "open"
        /\ view' = stored
        /\ UNCHANGED <<stored, fallback, logged, pending>>

BeginPut == /\ status = "open" /\ pending = <<>>
            /\ \E r \in Record : pending' = <<r>>
            /\ UNCHANGED <<status, view, stored, fallback, logged>>

EndPut == /\ status = "open" /\ pending # <<>>
          /\ view' = Put(view, pending[1])
          /\ stored' = IF logged THEN Put(stored, pending[1]) ELSE stored
          /\ pending' = <<>>
          /\ UNCHANGED <<status, fallback, logged>>

\* A clear that fails has emptied the view, and nothing else.
FailClear == /\ status = "open" /\ pending = <<>>
             /\ view' = EmptyContents
             /\ UNCHANGED <<status, stored, fallback, logged, pending>>

\* A compaction keeps the view, a clear empties it.
BeginRewrite == /\ status = "open" /\ pending = <<>>
                /\ status' = "rewriting"
                /\ view' \in {view, EmptyContents}
                /\ UNCHANGED <<stored, fallback, logged, pending>>

EndRewrite == /\ status = "rewriting"
              /\ status' = "open"
              /\ stored' = view
              /\ fallback' = IF fallback = {} THEN {} ELSE {view}
              /\ logged' = TRUE
              /\ UNCHANGED <<view, pending>>

-----------------------------------------------------------------------------
Stop(outcome) == /\ status' = outcome
                 /\ view' = EmptyContents
                 /\ pending' = <<>>

Keep == Stop("closed") /\ UNCHANGED <<stored, fallback, logged>>

\* No next open: what was stored is out of reach.
Lose == /\ Stop("unopenable")
        /\ stored' = EmptyContents
        /\ fallback' = {}
        /\ logged' = TRUE

\* The process ends between two operations.
End == status = "open" /\ pending = <<>> /\ Keep

CrashInPut ==
  /\ status = "open" /\ pending # <<>>
  /\ \/ Keep
     \/ /\ Stop("closed")
        /\ logged
        /\ stored' = Put(stored, pending[1])
        /\ UNCHANGED <<fallback, logged>>
     \/ /\ Stop("closed")
        /\ stored' \in fallback
        /\ logged' = FALSE
        /\ UNCHANGED fallback
     \/ fallback = {} /\ Lose

CrashInRewrite == status = "rewriting" /\ (Keep \/ Lose)

CrashInCreate == status = "creating" /\ Lose

Next == \/ BeginCreate \/ EndCreate \/ Open
        \/ BeginPut \/ EndPut \/ FailClear \/ BeginRewrite \/ EndRewrite
        \/ End \/ CrashInPut \/ CrashInRewrite \/ CrashInCreate

Spec == Init /\ [][Next]_vars
=============================================================================
