----------------------------- MODULE UploadForm -----------------------------
(***************************************************************************)
(* The form a request is written in, src/app/upload/upload-form.tsx: one   *)
(* React component in one browser, its state, what the person in front of  *)
(* it does and the answers that come back meanwhile, in any order.  The    *)
(* wish (title, material, quantity) is data, read when something is sent.  *)
(***************************************************************************)
EXTENDS Tables, FiniteSets

CONSTANTS
    DiskFiles,   \* BOUND: printable files on the person's disk
    Links,       \* BOUND: links to models; what is not one is NotALink
    Calls        \* BOUND: requests in flight at a time

NotALink == "not a link"
Unprintable == "unprintable"     \* a wrong extension, or over MAX_UPLOAD_BYTES

ASSUME UploadFormAssumption == None \notin DiskFiles \cup Links

VARIABLES
    printAgain, \* the form was opened with an old ticket, `again`
    onDisk,     \* `file`
    linkBox,    \* `link`
    linked,     \* `linked`
    phase,      \* `phase`
    call,       \* the requests in flight
    left        \* the router has gone to another page

formVars == <<printAgain, onDisk, linkBox, linked, phase, call, left>>

\* A model's files are numbered; `large` are those of the listing that are too
\* large.
FilesOf(url) == {url} \X {1, 2}

Idle == [kind |-> "idle"]
Listed(url, files, large, id) == [kind |-> "listed", url |-> url, files |-> files,
                                  large |-> large, fileId |-> id]

FormInit ==
    /\ printAgain \in BOOLEAN
    /\ onDisk = None /\ linkBox = None /\ linked = Idle /\ phase = "idle"
    /\ call = Nothing
    /\ left = FALSE

\* `picked`: the file chosen from a listing.
picked == IF linked.kind = "listed" THEN linked.fileId ELSE None

busy == phase = "uploading"

Sends == {"upload", "import", "requeue"}

Ask(c, fields) == c \in Calls \ DOMAIN call /\ call' = Put(call, c, fields)
Answers(c, kinds) ==
    c \in DOMAIN call /\ call[c].kind \in kinds /\ call' = Drop(call, c)
-----------------------------------------------------------------------------
\* The dropzone.  Choosing through the input is off while the form is busy;
\* dropping a file is not (onDrop).
accept(chosen) ==
    /\ ~printAgain /\ ~left
    /\ phase' = IF chosen = Unprintable THEN "error" ELSE "idle"
    /\ onDisk' = IF chosen \in DiskFiles THEN chosen ELSE None
    /\ linked' = IF chosen \in DiskFiles THEN Idle ELSE linked
    /\ UNCHANGED <<printAgain, linkBox, call, left>>

\* The link step
setLink(url) ==
    /\ ~printAgain /\ ~left /\ ~busy
    /\ linkBox' = url
    /\ UNCHANGED <<printAgain, onDisk, linked, phase, call, left>>

CanLookUp == ~printAgain /\ ~left /\ ~busy /\ linkBox # None /\ linked.kind # "looking"

\* identifySource, before the round trip
refuseLink ==
    /\ CanLookUp /\ linkBox = NotALink
    /\ linked' = Idle /\ phase' = "error"
    /\ UNCHANGED <<printAgain, onDisk, linkBox, call, left>>

lookUp(c) ==
    /\ CanLookUp /\ linkBox \in Links
    /\ Ask(c, [kind |-> "lookup", url |-> linkBox, what |-> None])
    /\ phase' = "idle" /\ linked' = [kind |-> "looking"]
    /\ UNCHANGED <<printAgain, onDisk, linkBox, left>>

besideTheFile(c, files, large, only) ==
    /\ ~left /\ Answers(c, {"lookup"})
    /\ linked' = Listed(call[c].url, files, large, only)
    /\ UNCHANGED <<printAgain, onDisk, linkBox, phase, left>>

\* The answer to lookUp; a model with exactly one printable file needs no
\* choosing.
showListing(c, files, large, only) ==
    /\ ~left /\ Answers(c, {"lookup"})
    /\ linked' = Listed(call[c].url, files, large, only)
    /\ onDisk' = None
    /\ UNCHANGED <<printAgain, linkBox, phase, left>>

listingArrives(c) ==
    \E files \in SUBSET FilesOf(call[c].url) : \E large \in SUBSET files :
        LET usable == files \ large
            only == IF Cardinality(files) = 1 /\ usable # {}
                    THEN CHOOSE f \in files : TRUE ELSE None
        IN  showListing(c, files, large, only)

lookUpFails(c) ==
    /\ ~left /\ Answers(c, {"lookup"})
    /\ linked' = Idle /\ phase' = "error"
    /\ UNCHANGED <<printAgain, onDisk, linkBox, left>>

chooseListed(f) ==
    /\ ~left /\ ~busy
    /\ linked.kind = "listed" /\ f \in linked.files \ linked.large
    /\ linked' = [linked EXCEPT !.fileId = f]
    /\ UNCHANGED <<printAgain, onDisk, linkBox, phase, call, left>>
-----------------------------------------------------------------------------
\* Sending: sendAgain, sendImport or the XHR, whichever the form is set to.
sending(c, kind, url, what) ==
    /\ Ask(c, [kind |-> kind, url |-> url, what |-> what])
    /\ phase' = "uploading"
    /\ UNCHANGED <<printAgain, onDisk, linkBox, linked, left>>

submit(c) ==
    /\ ~left /\ ~busy
    /\ \/ printAgain /\ sending(c, "requeue", None, None)
       \/ ~printAgain /\ picked # None /\ sending(c, "import", linked.url, picked)
       \/ ~printAgain /\ picked = None /\ onDisk # None /\ sending(c, "upload", None, onDisk)

\* The upload's progress event says that it is under way, whatever the phase is.
progress(c) ==
    /\ ~left /\ c \in DOMAIN call /\ call[c].kind = "upload"
    /\ phase' = "uploading"
    /\ UNCHANGED <<printAgain, onDisk, linkBox, linked, call, left>>

\* Success goes to the new ticket's page: no later answer finds a form.
sent(c) ==
    /\ ~left /\ Answers(c, Sends)
    /\ left' = TRUE
    /\ UNCHANGED <<printAgain, onDisk, linkBox, linked, phase>>

\* A refusal, or a connection that dropped before or after the ticket was filed
refused(c) ==
    /\ ~left /\ Answers(c, Sends)
    /\ phase' = "error"
    /\ UNCHANGED <<printAgain, onDisk, linkBox, linked, left>>

cancelForm ==
    /\ ~left /\ left' = TRUE
    /\ UNCHANGED <<printAgain, onDisk, linkBox, linked, phase, call>>

FormNext ==
    \/ \E chosen \in DiskFiles \cup {None, Unprintable} : accept(chosen)
    \/ \E url \in Links \cup {None, NotALink} : setLink(url)
    \/ refuseLink
    \/ \E c \in Calls : lookUp(c) \/ submit(c)
    \/ \E c \in DOMAIN call :
          listingArrives(c) \/ lookUpFails(c) \/ progress(c) \/ sent(c) \/ refused(c)
    \/ linked.kind = "listed" /\ \E f \in linked.files : chooseListed(f)
    \/ cancelForm

FormSpec == FormInit /\ [][FormNext]_formVars
-----------------------------------------------------------------------------
\* "One model per ticket", however late a listing comes: a file from the disk and
\* a file from a link are never both chosen, and an import asks for a file of
\* the model it names, whatever the box for the link says by now.
OneModelPerTicket ==
    /\ ~(onDisk # None /\ picked # None)
    /\ \A c \in DOMAIN call :
          call[c].kind = "import" => call[c].what \in FilesOf(call[c].url)
=============================================================================
