------------------------------ MODULE KvdbStore ------------------------------
(***************************************************************************)
(* What kvdb promises about its persistent keys ("Key starting with        *)
(* persist. will be stored permanently after commit", include/kvdb.h).     *)
(*                                                                         *)
(* store is what readers see, saved what survives the loss of power.  One  *)
(* key changes at a time; what is saved comes from the store and from      *)
(* nowhere else; the power brings back, key by key, what was saved, or     *)
(* what the store held if a save was under way.                            *)
(***************************************************************************)
CONSTANTS
    PersistKeys, Vals, Absent,
    WriteThrough     \* does a change reach what is saved at once?

VARIABLES store, saved

Contents == [PersistKeys -> Vals \cup {Absent}]

Init == store = [k \in PersistKeys |-> Absent] /\ saved = store

\* One key is set or deleted.  What is saved changes with it if the backend
\* writes through, and else waits for a save.
Change ==
    \E k \in PersistKeys, v \in Vals \cup {Absent} :
        /\ store' = [store EXCEPT ![k] = v]
        /\ saved' = IF WriteThrough THEN [saved EXCEPT ![k] = v] ELSE saved

\* A save is complete: all of the store, never a part of it.
Save == saved' = store /\ UNCHANGED store

\* The power fails and comes back.
Restart ==
    /\ saved' \in Contents
    /\ \A k \in PersistKeys : saved'[k] \in {saved[k], store[k]}
    /\ store' = saved'

Next == Change \/ Save \/ Restart

Spec == Init /\ [][Next]_<<store, saved>>

=============================================================================
