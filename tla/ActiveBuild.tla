----------------------------- MODULE ActiveBuild -----------------------------
(***************************************************************************)
(* What the build store promises its readers, with no files in it: one     *)
(* register that holds the active content, switched in one step, and only  *)
(* to a content that passed validation.  A reader first resolves the       *)
(* register and later opens what it resolved, or is told that nothing is   *)
(* available; it never sees a third content.  BuildStore implements this   *)
(* with a manifest, a directory of build files and a pruner.               *)
(***************************************************************************)
CONSTANTS Readers,   \* processes that serve from the active build
          Passing,   \* the contents that pass validation
          None       \* no content

VARIABLES active,    \* the content readers are directed to
          resolved,  \* per reader: what its pending open was directed to
          conn       \* per reader: the content its connection holds

vars == <<active, resolved, conn>>

Init ==
  /\ active = None
  /\ resolved = [r \in Readers |-> None]
  /\ conn = [r \in Readers |-> None]

Publish ==
  /\ active' \in Passing
  /\ UNCHANGED <<resolved, conn>>

Resolve(r) ==
  /\ active # None
  /\ conn[r] = None
  /\ resolved' = [resolved EXCEPT ![r] = active]
  /\ UNCHANGED <<active, conn>>

Open(r) ==
  /\ resolved[r] # None
  /\ conn' = [conn EXCEPT ![r] = resolved[r]]
  /\ resolved' = [resolved EXCEPT ![r] = None]
  /\ UNCHANGED active

Unavailable(r) ==
  /\ resolved' = [resolved EXCEPT ![r] = None]
  /\ UNCHANGED <<active, conn>>

Close(r) ==
  /\ conn' = [conn EXCEPT ![r] = None]
  /\ UNCHANGED <<active, resolved>>

Next ==
  \/ Publish
  \/ \E r \in Readers : Resolve(r) \/ Open(r) \/ Unavailable(r) \/ Close(r)

Spec == Init /\ [][Next]_vars
==============================================================================
