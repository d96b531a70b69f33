---------------------------------- MODULE Vault ----------------------------------
(***************************************************************************)
(* The document vault (services/documents.py, api/documents.py), behind    *)
(* the requests of Access: only an owner's reaches a handler.  A document  *)
(* is a row and a file, in two stores that have no transaction in common.  *)
(*                                                                         *)
(* Left out: what is in a file and how it is sealed, and an error of the   *)
(* disk other than a file that is not there.                               *)
(***************************************************************************)
EXTENDS Access

VARIABLES
    documents, \* db: the committed rows
    files,     \* the ids of the files under documents_dir
    torn       \* history: the documents whose upload or deletion a restart cut short

vaultVars == <<accessVars, documents, files, torn>>

VaultInit == Init /\ documents = {} /\ files = {} /\ torn = {}

\* The rows a request can see: those of its user's household.
Mine(r) == {d \in documents : d.household = Household(request[r].email)}
-------------------------------------------------------------------------------
\* save: the row is flushed for its id, not committed.
Flush(r) ==
    /\ Owner(r)
    /\ issued' = issued + 1
    /\ Goes(r, "flushed", [request[r] EXCEPT !.id = issued'])
    /\ UNCHANGED <<db, preauths, now, raced, straddled, documents, files, torn>>

Row(r) == [id |-> request[r].id, household |-> Household(request[r].email)]

\* Mutant of WriteFile: the row is committed first.
WriteFileLast(r) ==
    \/ /\ pc[r] = "flushed"
       /\ documents' = documents \cup {Row(r)}
       /\ Goes(r, "written", request[r])
       /\ UNCHANGED <<db, preauths, now, history, files, torn>>
    \/ /\ pc[r] = "written"
       /\ files' = files \cup {request[r].id}
       /\ Ends(r)
       /\ UNCHANGED <<db, preauths, now, history, documents, torn>>

WriteFile(r) ==
    /\ pc[r] = "flushed"
    /\ files' = files \cup {request[r].id}
    /\ Goes(r, "written", request[r])
    /\ UNCHANGED <<db, preauths, now, history, documents, torn>>

CommitSave(r) ==
    /\ pc[r] = "written"
    /\ documents' = documents \cup {Row(r)}
    /\ Ends(r)
    /\ UNCHANGED <<db, preauths, now, history, files, torn>>

\* delete finds the row and unlinks its file, there or not ...
Unlink(r, d) ==
    /\ Owner(r) /\ d \in Mine(r)
    /\ files' = files \ {d.id}
    /\ Goes(r, "unlinked", [request[r] EXCEPT !.id = d.id])
    /\ UNCHANGED <<db, preauths, now, history, documents, torn>>

\* ... and commits the deletion of the row.
CommitDelete(r) ==
    /\ pc[r] = "unlinked"
    /\ documents' = {d \in documents : d.id # request[r].id}
    /\ Done(r, <<"vault.document_deleted", request[r].id>>)
    /\ UNCHANGED <<db, preauths, now, history, files, torn>>

\* A download finds the row ...
AskDownload(r, d) ==
    /\ Owner(r) /\ d \in Mine(r)
    /\ Goes(r, "downloading", [request[r] EXCEPT !.id = d.id])
    /\ UNCHANGED <<db, preauths, now, history, documents, files, torn>>

\* ... and reads the file, which a deletion may have taken since: the request then fails.
Download(r) ==
    /\ pc[r] = "downloading"
    /\ IF request[r].id \in files
       THEN Done(r, <<"vault.document_downloaded", request[r].id>>)
       ELSE Ends(r)
    /\ UNCHANGED <<db, preauths, now, history, documents, files, torn>>

\* A restart rolls back the rows that were flushed, and leaves the files as they are.
VaultRestart ==
    /\ Restart
    /\ torn' = torn \cup {request[r].id : r \in {q \in Requests : pc[q] \in {"written", "unlinked"}}}
    /\ UNCHANGED <<documents, files>>

AccessStep ==
    /\ (\E r \in Requests : Arrive(r) \/ Advance(r)) \/ Tick
    /\ UNCHANGED <<documents, files, torn>>

VaultStep(r) ==
    \/ Flush(r) \/ WriteFile(r) \/ CommitSave(r) \/ CommitDelete(r) \/ Download(r)
    \/ \E d \in documents : Unlink(r, d) \/ AskDownload(r, d)

VaultNext == AccessStep \/ (\E r \in Requests : VaultStep(r)) \/ VaultRestart

VaultSpec == VaultInit /\ [][VaultNext]_vaultVars
-------------------------------------------------------------------------------
(* Properties *)

Under(stage) == {request[r].id : r \in {q \in Requests : pc[q] = stage}}

\* A row and the file it names go together: a row is without its file only while its deletion is
\* under way or after a restart cut that short, a file without a row only likewise for an upload; and
\* what the trail says was deleted is gone, row and file, and does not come back, whatever uploads,
\* deletions, failures and restarts overlap.
RowsHaveFiles ==
    /\ \A d \in documents : d.id \in files \cup Under("unlinked") \cup torn
    /\ \A id \in files : id \in {d.id : d \in documents} \cup Under("written") \cup torn
    /\ \A e \in audit : e[1] = "vault.document_deleted" =>
          e[2] \notin files /\ \A d \in documents : d.id # e[2]
===============================================================================
