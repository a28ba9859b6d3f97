---------------------------- MODULE ArchiveStore ----------------------------
(***************************************************************************)
(* What BackupManager promises about the archives of one server and the    *)
(* rows that list them: a backup is listed once, after its archive is      *)
(* whole; an archive that was listed is removed only because its row will  *)
(* go, and before it; and a row that has gone never comes back.  Nothing   *)
(* is promised of backups that were given one name: the clock that names   *)
(* them counts seconds.                                                    *)
(***************************************************************************)
VARIABLES
  whole,     \* those whose archive is complete, in the directory and their own
  listed,    \* those with a row
  past,      \* those that ever had a row
  removing,  \* those with a row whose archive was removed
  shared     \* those that share their name

Init == whole = {} /\ listed = {} /\ past = {} /\ removing = {} /\ shared = {}

\* A backup that has no archive yet is given the name of others.
Clash ==
  /\ \E i \in shared' \ shared : i \notin whole \cup past
  /\ shared \subseteq shared' /\ whole' = whole \ shared'
  /\ UNCHANGED <<listed, past, removing>>

\* The archives of backups that are not listed yet are closed.
Keep ==
  /\ whole \subseteq whole' /\ whole' \cap past \subseteq whole
  /\ UNCHANGED <<listed, past, removing, shared>>

\* Backups fail before they are listed.
Lose ==
  /\ whole' \subseteq whole /\ whole \cap past \subseteq whole'
  /\ UNCHANGED <<listed, past, removing, shared>>

List ==
  /\ \E i \in (whole \cup shared) \ past : listed' = listed \cup {i} /\ past' = past \cup {i}
  /\ UNCHANGED <<whole, removing, shared>>

\* Archives of rows are removed.
Remove ==
  /\ removing \subseteq removing' /\ removing' \subseteq listed
  /\ whole' = whole \ removing'
  /\ UNCHANGED <<listed, past, shared>>

\* Rows go after their archives.
Unlist ==
  /\ listed' \subseteq listed /\ listed \ listed' \subseteq removing \ whole
  /\ removing' = removing \cap listed'
  /\ UNCHANGED <<whole, past, shared>>

Next == Clash \/ Keep \/ Lose \/ List \/ Remove \/ Unlist

Spec == Init /\ [][Next]_<<whole, listed, past, removing, shared>>
=============================================================================
