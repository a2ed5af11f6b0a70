----------------------------- MODULE FileTransfer -----------------------------
(***************************************************************************)
(* The downloads of the D-Bus services.  image_service.download fills a    *)
(* temporary file and moves it over the path; file_service.download looks  *)
(* whether the path is free and fills the file in place.  Neither waits    *)
(* with a time limit, and other programs use the directories, too.         *)
(***************************************************************************)
EXTENDS Integers

CONSTANTS
    Paths,          \* local paths, in directories everybody may write to
    Bodies,         \* complete contents of files
    NoFile, Part,   \* no such file, a file that lacks its end
    NoPath,
    MaxTransfers,   \* bound: calls of the D-Bus methods
    MaxTransferFaults \* bound: errors, crashes and steps of other programs

VARIABLES
    file,      \* what is at each path
    temps,     \* temporary files in /tmp
    tstep,     \* the step of a download
    path,      \* save_as, local_path
    displaced, \* another program has changed the path since: it may hold another file now
    body,      \* what the server sends
    told,      \* the last call's answer
    botched,   \* history: paths at which file_service's download broke off
    leaked,    \* history: temporary files nobody removes any more
    transfers, transferFaults

thist        == <<botched, leaked>>
transferVars == <<file, temps, tstep, path, displaced, body, told, thist, transfers, transferFaults>>

Init ==
    /\ file \in [Paths -> Bodies \cup {NoFile}]
    /\ temps = 0
    /\ tstep = "none"
    /\ path = NoPath
    /\ body = NoFile
    /\ told = "none"
    /\ botched = {}
    /\ displaced = FALSE
    /\ leaked = 0
    /\ transfers = 0
    /\ transferFaults = 0

Called == tstep = "none" /\ transfers < MaxTransfers /\ transfers' = transfers + 1

Fault == transferFaults < MaxTransferFaults /\ transferFaults' = transferFaults + 1

Return(result) ==
    /\ tstep' = "none"
    /\ path' = NoPath
    /\ body' = NoFile
    /\ told' = result

Begin(step, p) ==
    /\ Called
    /\ tstep' = step
    /\ path' = p
    /\ body' \in Bodies
    /\ told' = "none"
    /\ displaced' = FALSE
    /\ UNCHANGED <<file, temps, botched, leaked, transferFaults>>
-----------------------------------------------------------------------------
(* image_service: download                                                 *)

ImageDownload(p) == Begin("request", p)

\* The server has answered 200.
ImageOpen ==
    /\ tstep = "request"
    /\ temps' = temps + 1
    /\ tstep' = "fill"
    /\ UNCHANGED <<file, path, displaced, body, told, thist, transfers, transferFaults>>

ImageFilled ==
    /\ tstep = "fill"
    /\ tstep' = "move"
    /\ UNCHANGED <<file, temps, path, displaced, body, told, thist, transfers, transferFaults>>

\* os.replace
ImageMove ==
    /\ tstep = "move"
    /\ file' = [file EXCEPT ![path] = body]
    /\ temps' = temps - 1
    /\ botched' = botched \ {path}
    /\ Return("ok")
    /\ UNCHANGED <<displaced, leaked, transfers, transferFaults>>

\* No connection or another status; then a broken one, a full /tmp, or a path on another file
\* system, which leave the temporary file.  A crash leaves the same and gives no answer.
ImageFails ==
    /\ tstep \in {"request", "fill", "move"}
    /\ Fault
    /\ leaked' = leaked + (IF tstep = "request" THEN 0 ELSE 1)
    /\ \/ Return("error")
       \/ Return("none")
    /\ UNCHANGED <<file, temps, botched, displaced, transfers>>
-----------------------------------------------------------------------------
(* file_service: download and remove                                       *)

FileDownload(p) == file[p] = NoFile /\ Begin("connect", p)

\* Opened for writing: sftp.get, open(local_path, 'wb') or scp's get.
FileOpen ==
    /\ tstep = "connect"
    /\ file' = [file EXCEPT ![path] = Part]
    /\ tstep' = "receive"
    /\ displaced' = FALSE
    /\ UNCHANGED <<temps, path, body, told, botched, leaked, transfers, transferFaults>>

\* Mutant of FileReceived: the end of the data is not waited for.
FileUnfinished ==
    /\ tstep = "receive"
    /\ Return("ok")
    /\ UNCHANGED <<file, temps, displaced, thist, transfers, transferFaults>>

\* A file that another program has put in its place is not written to.
FileReceived ==
    /\ tstep = "receive"
    /\ file' = [file EXCEPT ![path] = IF displaced THEN @ ELSE body]
    /\ Return("ok")
    /\ UNCHANGED <<temps, displaced, thist, transfers, transferFaults>>

\* No connection, wrong password; or the transfer breaks off, or the service dies: what has
\* come stays, and the next download to this path is refused.
FileFails ==
    /\ tstep \in {"connect", "receive"}
    /\ Fault
    /\ botched' = botched \cup (IF tstep = "receive" THEN {path} ELSE {})
    /\ \/ Return("error")
       \/ Return("none")
    /\ UNCHANGED <<file, temps, displaced, leaked, transfers>>

Remove(p) ==
    /\ Called
    /\ file[p] # NoFile
    /\ \/ /\ file' = [file EXCEPT ![p] = NoFile]
          /\ botched' = botched \ {p}
          /\ Return("ok")
          /\ UNCHANGED transferFaults
       \/ /\ Fault
          /\ UNCHANGED <<file, botched>>
          /\ Return("error")
    /\ UNCHANGED <<temps, displaced, leaked>>

\* Arguments that are refused, and paths that are taken or hold nothing to remove
Refuse ==
    /\ Called
    /\ Return("error")
    /\ UNCHANGED <<file, temps, displaced, thist, transferFaults>>

\* Another program puts a whole file at a path or removes one.
Other(p, content) ==
    /\ Fault
    /\ file[p] # content
    /\ file' = [file EXCEPT ![p] = content]
    /\ botched' = botched \ {p}
    /\ displaced' = (displaced \/ p = path)
    /\ told' = "none"
    /\ UNCHANGED <<temps, tstep, path, body, leaked, transfers>>

Next ==
    \/ \E p \in Paths :
          \/ ImageDownload(p) \/ FileDownload(p) \/ Remove(p)
          \/ \E content \in Bodies \cup {NoFile} : Other(p, content)
    \/ ImageOpen \/ ImageFilled \/ ImageMove \/ ImageFails
    \/ FileOpen \/ FileReceived \/ FileFails
    \/ Refuse

Spec == Init /\ [][Next]_transferVars
-----------------------------------------------------------------------------
\* The type of the state.
TypeOK ==
    /\ file \in [Paths -> Bodies \cup {NoFile, Part}]
    /\ temps \in Nat
    /\ tstep \in {"none", "request", "fill", "move", "connect", "receive"}
    /\ path \in Paths \cup {NoPath}
    /\ body \in Bodies \cup {NoFile}
    /\ told \in {"none", "ok", "error"}
    /\ botched \in SUBSET Paths
    /\ displaced \in BOOLEAN
    /\ leaked \in Nat
    /\ transfers \in Nat
    /\ transferFaults \in Nat

\* A file that lacks its end is one that file_service is filling or has given up filling: it
\* never comes from an image download, which moves a complete file, nor from a download that
\* was reported as a success (image_service.py:68-73, file_service.py:82-101).  The temporary
\* files of image downloads are gone afterwards, but for one of each download that broke off
\* after it was opened (delete=False in image_service.py:68).
LeftoversAccounted ==
    /\ \A p \in Paths : file[p] = Part => p \in botched \/ (tstep = "receive" /\ p = path)
    /\ temps = leaked + (IF tstep \in {"fill", "move"} THEN 1 ELSE 0)
=============================================================================
