----------------------------- MODULE ConfigSync -----------------------------
(***************************************************************************)
(* Camera administration: the table of cameras in the database, the file   *)
(* cameras.yaml the API writes from it, and the configuration the detector *)
(* runs.  Every request changes the table, lists it, rewrites the file and *)
(* asks the detector to load it; requests overlap, are dropped when their  *)
(* client goes away, and both services may crash and start again.          *)
(*                                                                         *)
(* What a camera holds is abstracted to its detector id, its URL and the   *)
(* two settings whose ranges depend on each other.  A table row is a       *)
(* number; the listing is in the order of the rows.                        *)
(***************************************************************************)
EXTENDS Naturals, Sequences, FiniteSets, SequencesExt

CONSTANTS Handlers,     \* requests that may be under way at the same time
          Rows,         \* row identifiers, 1 .. n in the order of the listing
          Cameras,      \* detector camera ids
          Urls,
          None,         \* no row, no id, field not given
          Inputs,       \* bodies of create requests
          Changes,      \* bodies of update requests
          MaxRequests,  \* bound: requests in a behaviour
          MaxCrashes    \* bound: crashes of either service

\* A create request has a URL, and a detector id or none; an update request
\* may leave out both.
ASSUME ConfigSyncAssumption ==
    /\ Rows \subseteq Nat /\ IsFiniteSet(Rows)
    /\ None \notin Cameras \union Urls \union Nat
    /\ \A i \in Inputs : i.camera \in Cameras \union {None} /\ i.url \in Urls
    /\ \A c \in Changes : c.camera \in Cameras \union {None} /\ c.url \in Urls \union {None}
    /\ MaxRequests \in Nat /\ MaxCrashes \in Nat

VARIABLES table,      \* the rows of the table cameras
          file,       \* entries of cameras.yaml
          phase,      \* of the detector: "down", "starting", "serving"
          running,    \* the entries the detector has loaded
          workers,    \* the entries its workers were started with
          req,        \* the API's request handlers
          boot,       \* the API's start-up, a writer that does not reload
          touched,    \* history: rows some request has changed
          torn,       \* history: the file was truncated and not written since
          failed,     \* history: what failed since the API was last started
          requests, crashes

api      == <<table, file, req, boot, touched, torn, failed>>
detector == <<phase, running, workers>>
bounds   == <<requests, crashes>>
vars     == <<api, detector, bounds>>

Camera == [camera : Cameras \union {None}, url : Urls, window : Nat, hits : Nat]

Idle == [at |-> "idle", row |-> 1, url |-> None, change |-> None,
         content |-> <<>>, solo |-> FALSE]

(***************************************************************************)
(* Requests, listing and file                                              *)
(***************************************************************************)

\* What the validator lets pass, in a create and in an update request: each
\* field is checked by itself.
Valid(body) ==
    /\ body.window \in {None} \union 1..100
    /\ body.hits \in {None} \union 1..50

\* The row an INSERT stores, and the one an UPDATE leaves: a field that is
\* not given gets its default, or keeps its value.
Or(field, otherwise) == IF field = None THEN otherwise ELSE field

Stored(input) ==
    [camera |-> input.camera, url |-> input.url,
     window |-> Or(input.window, 10), hits |-> Or(input.hits, 3)]

\* Mutant of Merged: a field that is not given is emptied.
MergedBlank(row, change, url) ==
    [camera |-> change.camera, url |-> url, window |-> change.window, hits |-> change.hits]

Merged(row, change, url) ==
    [camera |-> Or(change.camera, row.camera), url |-> url,
     window |-> Or(change.window, row.window), hits |-> Or(change.hits, row.hits)]

\* Rows in the order of the listing.
Sorted(rows) ==
    CHOOSE s \in [1..Cardinality(rows) -> rows] :
        \A i, j \in 1..Cardinality(rows) : i < j => s[i] < s[j]

\* The entries of the file: rows without a detector id are skipped.
Entries(t) ==
    LET listed == {r \in Rows : t[r] # None /\ t[r].camera # None}
    IN  [i \in 1..Cardinality(listed) |-> t[Sorted(listed)[i]]]

\* Bytes written over a file another writer has filled meanwhile: what is
\* longer than the new content stays.  Entries are taken to be of one length.
Overwrite(content, old) ==
    content \o SubSeq(old, Len(content) + 1, Len(old))

\* validate_camera: the votes that raise an alarm must fit into the window.
CameraValid(entry) == entry.window > 0 /\ entry.hits <= entry.window

\* Mutant of Accepts: an empty list is accepted.
AcceptsEmpty(f) ==
    /\ \A i, j \in DOMAIN f : f[i].camera = f[j].camera => i = j
    /\ \A i \in DOMAIN f : CameraValid(f[i])

\* What load and validate_cameras accept of a file.
Accepts(f) ==
    /\ f # <<>>
    /\ \A i, j \in DOMAIN f : f[i].camera = f[j].camera => i = j
    /\ \A i \in DOMAIN f : CameraValid(f[i])

\* What the API answers when it is asked for the status of a camera.
StatusOf(r) ==
    CASE phase # "serving" -> "detector_unavailable"
      [] \E w \in workers : w.camera = table[r].camera -> "known"
      [] OTHER -> "not_found"

(***************************************************************************)
(* The API                                                                 *)
(***************************************************************************)

Serving == boot.at = "idle"

\* h takes up a request; whoever is under way is no longer alone.
Begin(h, r) ==
    /\ Serving /\ req[h].at = "idle" /\ requests < MaxRequests
    /\ requests' = requests + 1
    /\ req' = [g \in Handlers |->
                 IF g = h THEN [r EXCEPT !.solo = \A o \in Handlers \ {h} : req[o].at = "idle"]
                          ELSE [req[g] EXCEPT !.solo = FALSE]]

Goto(h, at) == req' = [req EXCEPT ![h].at = at]
Return(h) == req' = [req EXCEPT ![h] = Idle]

Change(r, row) ==
    /\ table' = [table EXCEPT ![r] = row]
    /\ touched' = touched \union {r}

Create(h) ==
    \E r \in Rows, input \in Inputs :
        /\ table[r] = None /\ Valid(input)
        /\ Begin(h, [Idle EXCEPT !.at = "list", !.row = r])
        /\ Change(r, Stored(input))
        /\ UNCHANGED <<file, boot, torn, failed, detector, crashes>>

\* The first statement of an update: the row as it is, for its URL.
BeginUpdate(h) ==
    \E r \in Rows, c \in Changes :
        /\ table[r] # None /\ Valid(c)
        /\ Begin(h, [Idle EXCEPT !.at = "update", !.row = r, !.change = c,
                                 !.url = Or(c.url, table[r].url)])
        /\ UNCHANGED <<table, file, boot, touched, torn, failed, detector, crashes>>

\* The second: fields not given keep their value, the URL is always written.
Update(h) ==
    LET r == req[h].row
    IN  /\ req[h].at = "update"
        /\ IF table[r] = None
           THEN Return(h) /\ UNCHANGED <<table, touched>>
           ELSE /\ Goto(h, "list")
                /\ Change(r, Merged(table[r], req[h].change, req[h].url))
        /\ UNCHANGED <<file, boot, torn, failed, detector, bounds>>

Delete(h) ==
    \E r \in Rows :
        /\ table[r] # None
        /\ Begin(h, [Idle EXCEPT !.at = "list", !.row = r])
        /\ Change(r, None)
        /\ UNCHANGED <<file, boot, torn, failed, detector, crashes>>

List(h) ==
    /\ req[h].at = "list"
    /\ req' = [req EXCEPT ![h].at = "truncate", ![h].content = Entries(table)]
    /\ UNCHANGED <<table, file, boot, touched, torn, failed, detector, bounds>>

\* Mutant of Truncate: the file is written without being emptied first.
TruncateNot(h) ==
    /\ req[h].at = "truncate"
    /\ \/ Goto(h, "write") /\ UNCHANGED <<file, torn>>
       \/ UNCHANGED <<file, torn>> /\ req' = [req EXCEPT ![h].at = "load", ![h].solo = FALSE]
    /\ UNCHANGED <<table, boot, touched, failed, detector, bounds>>

\* fs::write opens the file with truncation and then writes it; when it fails
\* at once, the reload is asked for all the same.
Truncate(h) ==
    /\ req[h].at = "truncate"
    /\ \/ file' = <<>> /\ torn' = TRUE /\ Goto(h, "write")
       \/ UNCHANGED <<file, torn>> /\ req' = [req EXCEPT ![h].at = "load", ![h].solo = FALSE]
    /\ UNCHANGED <<table, boot, touched, failed, detector, bounds>>

\* The bytes are written, or none of them: the reload is asked for either way.
Write(h) ==
    /\ req[h].at = "write"
    /\ \/ /\ torn' = FALSE
          /\ file' = Overwrite(req[h].content, file)
          /\ Goto(h, "load")
          /\ UNCHANGED failed
       \/ /\ failed' = failed \union {"write"}
          /\ req' = [req EXCEPT ![h].at = "load", ![h].solo = FALSE]
          /\ UNCHANGED <<file, torn>>
    /\ UNCHANGED <<table, boot, touched, detector, bounds>>

\* reload_config: the file is read and validated, or the call fails.
Load(h) ==
    /\ req[h].at = "load"
    /\ IF phase = "serving" /\ Accepts(file)
       THEN req' = [req EXCEPT ![h].at = "apply", ![h].content = file]
       ELSE Return(h)
    /\ UNCHANGED <<table, file, boot, touched, torn, failed, detector, bounds>>

\* The workers after a reload: those of cameras that are still listed go on with
\* the entry they were started with, cameras without a worker get one.
Reloaded(entries) ==
    {w \in workers : \E e \in entries : e.camera = w.camera}
      \union {e \in entries : ~\E w \in workers : w.camera = e.camera}

\* The manager adopts what was read; CameraManager has the steps of it.
Apply(h) ==
    /\ req[h].at = "apply"
    /\ running' = ToSet(req[h].content)
    /\ workers' = Reloaded(ToSet(req[h].content))
    /\ Return(h)
    /\ UNCHANGED <<table, file, phase, boot, touched, torn, failed, bounds>>

\* A handler is dropped at an await when its client goes away, or returns
\* early because a statement fails.
Drop(h) ==
    /\ req[h].at \in {"update", "list", "load", "apply"}
    /\ Return(h)
    /\ UNCHANGED <<table, file, boot, touched, torn, failed, detector, bounds>>

(***************************************************************************)
(* Start and crash of the services                                         *)
(***************************************************************************)

\* The file is written from the table before the API serves.  When the cameras
\* cannot be listed, or the file not be opened or written, that is logged, and
\* the API serves with the file as it is.
BootStep ==
    /\ \/ /\ boot.at = "list"
          /\ boot' = [at |-> "truncate", content |-> Entries(table)]
          /\ UNCHANGED <<file, torn, failed>>
       \/ /\ boot.at = "truncate"
          /\ file' = <<>> /\ torn' = TRUE
          /\ boot' = [boot EXCEPT !.at = "write"]
          /\ UNCHANGED failed
       \/ /\ boot.at = "write"
          /\ file' = boot.content /\ torn' = FALSE
          /\ boot' = [at |-> "idle", content |-> <<>>]
          /\ UNCHANGED failed
       \/ /\ boot.at # "idle"
          /\ failed' = failed \union {"start"}
          /\ boot' = [at |-> "idle", content |-> <<>>]
          /\ UNCHANGED <<file, torn>>
    /\ UNCHANGED <<table, req, touched, detector, bounds>>

\* Mutant of ApiCrash: the start-up does not write the file.
ApiCrashNoSync ==
    /\ crashes < MaxCrashes
    /\ crashes' = crashes + 1
    /\ req' = [h \in Handlers |-> Idle]
    /\ boot' = [at |-> "idle", content |-> <<>>]
    /\ failed' = {}
    /\ UNCHANGED <<table, file, touched, torn, detector, requests>>

ApiCrash ==
    /\ crashes < MaxCrashes
    /\ crashes' = crashes + 1
    /\ req' = [h \in Handlers |-> Idle]
    /\ boot' = [at |-> "list", content |-> <<>>]
    /\ failed' = {}
    /\ UNCHANGED <<table, file, touched, torn, detector, requests>>

\* The process loads the file first and exits when it is refused; until the
\* model is loaded and the cameras are started nobody can reach it.
DetectorStart ==
    /\ phase = "down" /\ Accepts(file)
    /\ phase' = "starting"
    /\ running' = ToSet(file) /\ workers' = ToSet(file)
    /\ UNCHANGED <<api, bounds>>

DetectorServes ==
    /\ phase = "starting"
    /\ phase' = "serving"
    /\ UNCHANGED <<api, running, workers, bounds>>

DetectorCrash ==
    /\ phase # "down" /\ crashes < MaxCrashes
    /\ crashes' = crashes + 1
    /\ phase' = "down"
    /\ running' = {} /\ workers' = {}
    /\ req' = [h \in Handlers |-> IF req[h].at = "apply" THEN Idle ELSE req[h]]
    /\ UNCHANGED <<table, file, boot, touched, torn, failed, requests>>

(***************************************************************************)
(* Specification                                                           *)
(***************************************************************************)

\* Both services start: any table, any file the detector was shipped with.
Tables == [Rows -> {None} \union {Stored(i) : i \in {b \in Inputs : Valid(b)}}]

Init ==
    /\ table \in Tables
    /\ file \in {Entries(t) : t \in Tables}
    /\ phase = "down" /\ running = {} /\ workers = {}
    /\ req = [h \in Handlers |-> Idle]
    /\ boot = [at |-> "list", content |-> <<>>]
    /\ touched = {} /\ torn = FALSE /\ failed = {} /\ requests = 0 /\ crashes = 0

HandlerStep(h) ==
    Update(h) \/ List(h) \/ Truncate(h) \/ Write(h) \/ Load(h) \/ Apply(h)

Next ==
    \/ \E h \in Handlers :
          Create(h) \/ BeginUpdate(h) \/ Delete(h) \/ HandlerStep(h) \/ Drop(h)
    \/ BootStep \/ ApiCrash
    \/ DetectorStart \/ DetectorServes \/ DetectorCrash

Spec == Init /\ [][Next]_vars

\* Handlers and start-up are driven by the runtime; the container is started
\* again whenever it exits.
FairSpec ==
    /\ Spec
    /\ \A h \in Handlers : WF_vars(HandlerStep(h))
    /\ WF_vars(BootStep) /\ WF_vars(DetectorStart) /\ WF_vars(DetectorServes)

(***************************************************************************)
(* Properties                                                              *)
(***************************************************************************)

TypeOK ==
    /\ table \in [Rows -> Camera \union {None}]
    /\ ToSet(file) \subseteq Camera
    /\ phase \in {"down", "starting", "serving"}
    /\ running \union workers \subseteq Camera
    /\ phase = "down" => running \union workers = {}
    /\ \A h \in Handlers :
         /\ req[h].at \in {"idle", "update", "list", "truncate", "write", "load", "apply"}
         /\ ToSet(req[h].content) \subseteq Camera
    /\ boot.at \in {"idle", "list", "truncate", "write"}
    /\ touched \subseteq Rows /\ failed \subseteq {"start", "write"}

Ids(entries) == {e.camera : e \in entries}

\* cameras.rs:276 "Sync cameras to cameras.yaml and tell the detector to
\* reload": a request nobody overlapped, whose file was written, leaves the
\* detector, when its reload succeeds, with the settings of the table, with
\* workers for exactly its cameras, and with the table's entry in every worker
\* that did not run before.  A worker that ran keeps the entry it was started
\* with, its URL included: see EditReachesWorker.
AloneSynchronises ==
    [][\A h \in Handlers :
         (Apply(h) /\ req[h].solo) =>
           LET listed == ToSet(Entries(table)) IN
           /\ running' = listed
           /\ Ids(workers') = Ids(listed)
           /\ workers' \ workers \subseteq listed]_vars

\* README.md:745 "Worker cũ stop, worker mới start" (the old worker stops, a new
\* worker starts) of a camera that was edited: after a request nobody overlapped,
\* and when nothing has failed, every worker has the table's entry.  The code
\* does not do this.
EditReachesWorker ==
    [][\A h \in Handlers :
         (Apply(h) /\ req[h].solo /\ failed = {})
           => workers' = ToSet(Entries(table))]_vars

\* What the detector does for the row r of the table: its settings are loaded
\* and its worker was started with its entry.
Serves(r) == table[r] \in running \cap workers

\* However requests, crashes and half-written files fall together, a reload
\* never takes a camera from the detector whose row no request has changed, nor
\* exchanges its settings or its worker, and its page never says that it is not
\* found, as long as the API wrote the file when it was last started.
UntouchedKeepRunning ==
    [][\A r \in Rows \ touched' :
         (Serves(r) /\ phase' # "down" /\ "start" \notin failed)
            => Serves(r)' /\ StatusOf(r)' # "not_found"]_vars

\* A file left truncated by a crash in the middle of writing is written again
\* when the API starts: it stays that way only when that start, or a write after
\* it, fails, which is only logged (main.rs:114-121) and lasts until the next.
FileRepaired == []<>(~torn \/ failed # {})
=============================================================================
