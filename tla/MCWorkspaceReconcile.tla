------------------------ MODULE MCWorkspaceReconcile ------------------------
(* Small instances of WorkspaceReconcile for TLC. *)
EXTENDS WorkspaceReconcile

CONSTANTS k1, k2

LimitOf(fault, crash, flap, image, key) ==
  [kind \in Troubles |->
     CASE kind = "fault" -> fault
       [] kind = "crash" -> crash
       [] kind = "flap"  -> flap
       [] kind = "image" -> image
       [] kind = "key"   -> key]

LimitKeys    == LimitOf(0, 0, 0, 0, 2)
LimitLive    == LimitOf(1, 1, 1, 1, 1)

\* What has happened: troubles, changes of the catalog and the key, and edits.
Events == spent["fault"] + spent["crash"] + spent["flap"] + spent["image"] + spent["key"] + Server.gen - 1

WithoutKeys == Current(secLog).source = NoKey /\ spent["image"] = 0 /\ spent["key"] = 0

\* Everything else may come together; where there is a key, or the catalog or the key
\* changes, one thing happens.  It bounds what users and faults do and no step that
\* fairness is about.
FewEvents == WithoutKeys' \/ Events' <= 1

=============================================================================
