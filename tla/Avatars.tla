------------------------------- MODULE Avatars -------------------------------
(***************************************************************************)
(* One account's uploaded avatar (services/auth/user_service.py and the    *)
(* storage protocol of services/auth/avatar_storage.py): the blob lives in *)
(* Google Drive and the row names it, so replacing and removing it takes   *)
(* calls to both, any of which may fail or be the last before a crash.     *)
(***************************************************************************)
EXTENDS Naturals, FiniteSets

CONSTANTS Requests, Files, None

AvatarsAssumption == None \notin Requests \cup Files /\ IsFiniteSet(Files)

VARIABLES avatar_file_id,  \* of the user's row
          files,           \* in the Drive folder
          change           \* what every request does: the file it read and the one it stored

vars == <<avatar_file_id, files, change>>

Change == [at : {"idle", "uploading", "replacing", "removing", "deleting"},
           previous : Files \cup {None}, file : Files \cup {None}]
Idle   == [at |-> "idle", previous |-> None, file |-> None]

TypeOK == /\ avatar_file_id \in Files \cup {None}
          /\ files \in SUBSET Files
          /\ change \in [Requests -> Change]

Init == avatar_file_id = None /\ files = {} /\ change = [r \in Requests |-> Idle]

Becomes(r, state) == change' = [change EXCEPT ![r] = state]
Named == {avatar_file_id} \cup UNION {{change[r].previous, change[r].file} : r \in Requests}
New   == Files \ (files \cup Named)

\* validate_avatar passed; the request's user is read when it is authorised.
validate_avatar(r) ==
  /\ change[r].at = "idle"
  /\ Becomes(r, [Idle EXCEPT !.at = "uploading", !.previous = avatar_file_id])
  /\ UNCHANGED <<avatar_file_id, files>>

upload(r) ==
  /\ change[r].at = "uploading"
  /\ \E f \in New : /\ files' = files \cup {f}
                    /\ Becomes(r, [change[r] EXCEPT !.at = "replacing", !.file = f])
  /\ UNCHANGED avatar_file_id

\* The blob is stored, but its id never comes back.
UploadLost(r) == /\ change[r].at = "uploading"
                 /\ \E f \in New : files' = files \cup {f}
                 /\ Becomes(r, Idle)
                 /\ UNCHANGED avatar_file_id

\* Mutant: the old blob goes before the row names the new one.
replace_avatar_early(r) ==
  /\ change[r].at = "replacing"
  /\ \/ /\ change[r].previous \in files
        /\ files' = files \ {change[r].previous}
        /\ UNCHANGED <<avatar_file_id, change>>
     \/ /\ change[r].previous \notin files
        /\ avatar_file_id' = change[r].file
        /\ Becomes(r, Idle)
        /\ UNCHANGED files

replace_avatar(r) ==
  /\ change[r].at = "replacing"
  /\ avatar_file_id' = change[r].file
  /\ Becomes(r, IF change[r].previous = None THEN Idle ELSE [change[r] EXCEPT !.at = "deleting"])
  /\ UNCHANGED files

\* A request whose user has none is refused.
SendRemoval(r) ==
  /\ change[r].at = "idle" /\ avatar_file_id # None
  /\ Becomes(r, [Idle EXCEPT !.at = "removing", !.previous = avatar_file_id])
  /\ UNCHANGED <<avatar_file_id, files>>

remove_avatar(r) ==
  /\ change[r].at = "removing"
  /\ avatar_file_id' = None
  /\ Becomes(r, [change[r] EXCEPT !.at = "deleting"])
  /\ UNCHANGED files

\* `_delete_quietly': an unknown id is no error, and an error is only logged.
delete(r) ==
  /\ change[r].at = "deleting"
  /\ files' = files \ {change[r].previous}
  /\ Becomes(r, Idle)
  /\ UNCHANGED avatar_file_id

\* A call fails or the process dies.
Raises(r) == change[r].at # "idle" /\ Becomes(r, Idle) /\ UNCHANGED <<avatar_file_id, files>>

Next == \E r \in Requests :
          \/ validate_avatar(r) \/ upload(r) \/ UploadLost(r) \/ replace_avatar(r)
          \/ SendRemoval(r) \/ remove_avatar(r) \/ delete(r) \/ Raises(r)

Spec == Init /\ [][Next]_vars

-----------------------------------------------------------------------------
(* The file a profile names can always be read: no order of replacements,   *)
(* removals, failures and crashes deletes a blob the row still names.       *)
AvatarIsStored == avatar_file_id # None => avatar_file_id \in files
=============================================================================
