----------------------------- MODULE PowerLoss -----------------------------
(***************************************************************************)
(* DurableState on a machine that can lose power. write_atomic flushes the *)
(* temporary file (sync_all) and renames it over the state file, but does  *)
(* not flush the directory: until the operating system writes the          *)
(* directory back, a power cut restores the previous state file.           *)
(***************************************************************************)
EXTENDS DurableState

VARIABLE flushed   \* the state file that a power cut leaves behind

powerVars == <<vars, flushed>>

PowerInit == Init /\ flushed = EmptySnapshot

\* The operating system writes the directory back.
WriteBack == flushed' = disk /\ UNCHANGED vars

\* Power fails; the machine and the bridge start again.
PowerCut ==
  /\ LoadFrom(flushed)
  /\ disk' = flushed
  /\ UNCHANGED <<now, history, flushed>>

PowerNext ==
  \/ Next /\ UNCHANGED flushed
  \/ WriteBack
  \/ PowerCut

PowerSpec == PowerInit /\ [][PowerNext]_powerVars

\* "Refresh tokens rotate; a consumed refresh token cannot be reused."
\* (SECURITY.md): a refresh token whose exchange has been answered is not
\* exchanged for another grant.
ConsumedIsNotReused ==
  \A g, h \in Committed :
    parent[g] = parent[h] /\ parent[g] \in Grants /\ g \in answered => g = h
=============================================================================
