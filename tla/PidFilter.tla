----------------------------- MODULE PidFilter -----------------------------
(***************************************************************************)
(* The PID filter of a session: what requestedPIDs, parsePIDList and       *)
(* UpdatePIDs (internal/lab/manager.go) compute from the query of a SETUP  *)
(* or PLAY.  A filter is a set of PIDs plus the flag pidsAll ("pids=all"); *)
(* the code keeps the PIDs in a sorted slice without duplicates, so a set  *)
(* loses nothing the callers read.                                         *)
(*                                                                         *)
(* A raw query value is a record: kind "absent" (no such key), "empty"     *)
(* (key=), "all" (any case), "list" (numbers in 0..8191) or "bad" (some    *)
(* part is not such a number); pids is the set a "list" names.             *)
(***************************************************************************)
CONSTANT PIDs          \* the PIDs the model distinguishes

ValueKinds == {"absent", "empty", "all", "list", "bad"}
RawValue   == [kind : ValueKinds, pids : SUBSET PIDs]
PIDQuery   == [pids : RawValue, addpids : RawValue, delpids : RawValue]
Filter     == [pids : SUBSET PIDs, pidsAll : BOOLEAN]

\* url.Values.Get returns "" both for a missing key and for an empty value.
IsBlank(raw) == raw.kind \in {"absent", "empty"}

\* parsePIDList: "" is the empty filter, "all" drops the list.
ParsePIDList(raw) ==
  [pids    |-> IF raw.kind = "list" THEN raw.pids ELSE {},
   pidsAll |-> raw.kind = "all"]

\* requestedPIDs: without a pids value a SETUP gets the service's default PIDs.
RequestedPIDs(raw, defaults) ==
  IF IsBlank(raw) THEN [pids |-> defaults, pidsAll |-> FALSE]
                  ELSE ParsePIDList(raw)

\* UpdatePIDs returns before taking the lock when the query names no PID key.
MentionsPIDs(q) == \E key \in {"pids", "addpids", "delpids"} : q[key].kind # "absent"

\* The three stages of UpdatePIDs: replace, then add, then delete.
Replaced(f, raw) == IF IsBlank(raw) THEN f ELSE ParsePIDList(raw)

Added_KeepsList(f, raw) ==      \* fault: "all" does not drop the list
  IF raw.kind = "all" THEN [f EXCEPT !.pidsAll = TRUE]
  ELSE IF IsBlank(raw) \/ f.pidsAll THEN f
  ELSE [f EXCEPT !.pids = @ \cup raw.pids]

Added(f, raw) ==
  IF raw.kind = "all" THEN [pids |-> {}, pidsAll |-> TRUE]
  ELSE IF IsBlank(raw) \/ f.pidsAll THEN f
  ELSE [f EXCEPT !.pids = @ \cup raw.pids]

Deleted(f, raw) ==
  IF raw.kind = "all" THEN [pids |-> {}, pidsAll |-> FALSE]
  ELSE IF IsBlank(raw) THEN f
  ELSE [f EXCEPT !.pids = @ \ raw.pids]

\* Deleting single PIDs from "all" is refused, as is any value that does not
\* parse; the session then keeps the filter it had.
UpdateFails(f, q) ==
  \/ \E key \in {"pids", "addpids", "delpids"} : q[key].kind = "bad"
  \/ /\ q.delpids.kind = "list"
     /\ Added(Replaced(f, q.pids), q.addpids).pidsAll

UpdatedFilter(f, q) == Deleted(Added(Replaced(f, q.pids), q.addpids), q.delpids)
=============================================================================
