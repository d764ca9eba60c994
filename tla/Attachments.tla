---------------------------- MODULE Attachments ----------------------------
(* The files a phone sends: what the listener finds in a message, the record  *)
(* it keeps, the copy it puts into the workspace, what it tells the sender    *)
(* and the agent, and /download (attachments.rs, the ingest and download      *)
(* functions of main.rs and the attachment commands of app.rs). The records   *)
(* are kept in the listener's memory and in attachments.json, written whole;  *)
(* a worker, or another program that opens the stores, reads that file at its *)
(* start and writes back what it read.                                        *)
EXTENDS Naturals, SequencesExt

CONSTANTS
    Room,        \* chats
    Payload,     \* the objects a message may carry: sequences of Objects
    Caption,     \* what the text of a message may ask for, a subset of Captions
    MaxRecords,  \* bound: records made
    MaxMishaps   \* bound: failures, kills and openings by other programs

Absent == "absent"
Names == {"name 1", "name 2"}
Types == {"media", "other"}
Urls == {"url 1", "url 2", "url 3"}
Hashes == {"hash 1", "hash 2"}
(* A path the sender names: "there" is a file here, "gone" is none. In a      *)
(* record the path of a file may also be "copy", that of the listener's copy, *)
(* which ends like the file's name.                                           *)
Paths == {"there", "gone"}
(* The names, urls and paths that end like an image, video, audio or PDF.     *)
EndsLikeMedia == {"name 2", "url 2", "there"}
(* AttachmentInfo, without the size; "image" stands for the keys that name a  *)
(* kind of media, "file" for all others.                                      *)
File == [kind : {"image", "file"}, name : Names \cup {Absent}, type : Types \cup {Absent},
         url : Urls \cup {Absent}, hash : Hashes \cup {Absent}, path : Paths \cup {Absent}]
(* An object of the message's JSON: its own fields; whether its key or a key  *)
(* in it marks an attachment; whether it is an imeta tag, an array of texts;  *)
(* the objects in it, in the order of their keys.                             *)
Leaf == [own : File, marked : BOOLEAN, tag : BOOLEAN]
Object == [own : File, marked : BOOLEAN, tag : BOOLEAN, inner : Seq(Leaf)]

(* The text: none, a prompt that runs, one that needs an approval first, a    *)
(* command that is answered, one that opens or resumes a session.             *)
Captions == {"none", "run", "approval", "reply", "session"}

ASSUME MediaAssumption ==
    /\ Payload \subseteq Seq(Object) /\ Caption \subseteq Captions
    /\ MaxRecords \in Nat /\ MaxMishaps \in Nat

(*------------------------ The files of a message ---------------------------*)

(* find_string looks into the objects inside, in their order; hashes and     *)
(* sizes are only taken from the object itself. An imeta tag has no objects.  *)
Found(object, f) ==
    LET holders == {i \in DOMAIN object.inner : object.inner[i].own[f] # Absent}
    IN  IF object.own[f] # Absent \/ holders = {}
        THEN object.own[f] ELSE object.inner[Min(holders)].own[f]

FromObject(object) ==
    [object.own EXCEPT !.name = Found(object, "name"), !.type = Found(object, "type"),
                       !.url = Found(object, "url"), !.path = Found(object, "path")]

Tells(file) == \E f \in {"name", "type", "url", "hash", "path"} : file[f] # Absent

(* A text that is a url ending like media is an attachment of its own, too.   *)
ByUrl(url) == [kind |-> "file", name |-> Absent, type |-> "media", url |-> url,
               hash |-> Absent, path |-> Absent]
Listed(object, file) ==
    (IF object.marked /\ Tells(file) THEN <<file>> ELSE <<>>)
    \o (IF ~object.tag /\ object.own.url \in Urls \cap EndsLikeMedia
        THEN <<ByUrl(object.own.url)>> ELSE <<>>)

Collected(object) ==
    Listed(object, FromObject(object))
    \o FlattenSeq([i \in DOMAIN object.inner |->
                       Listed(object.inner[i], object.inner[i].own)])

Same(a, b) == a # Absent /\ a = b
Overlap(a, b) == a = b \/ Same(a.url, b.url) \/ Same(a.hash, b.hash) \/ Same(a.path, b.path)
(* The merged entry keeps its key and whatever it has; the twin fills gaps.   *)
OrElse(a, b) == IF a = Absent THEN b ELSE a
Merged(a, b) ==
    [kind |-> a.kind, name |-> OrElse(a.name, b.name), type |-> OrElse(a.type, b.type),
     url |-> OrElse(a.url, b.url), hash |-> OrElse(a.hash, b.hash),
     path |-> OrElse(a.path, b.path)]

(* Mutant of Joined: what the twin knows is dropped.                          *)
JoinedByFirst(files, file) ==
    IF \E i \in DOMAIN files : Overlap(files[i], file) THEN files ELSE Append(files, file)

(* dedupe_attachments: one pass; a file joins the first it overlaps with.     *)
Joined(files, file) ==
    LET twins == {i \in DOMAIN files : Overlap(files[i], file)}
    IN  IF twins = {} THEN Append(files, file)
        ELSE [files EXCEPT ![Min(twins)] = Merged(@, file)]

AllOf(payload) == FlattenSeq([i \in DOMAIN payload |-> Collected(payload[i])])
Extracted(payload) == FoldLeft(Joined, <<>>, AllOf(payload))

(* is_supported_whitenoise_media: its type, its key, or the end of its name,  *)
(* url or path is that of an image, a video, an audio file or a PDF.          *)
Supported(file) == \/ file.type = "media" \/ file.kind = "image"
                   \/ {file.name, file.url, file.path} \cap EndsLikeMedia # {}

(* AttachmentStore::add                                                       *)
NewRecord(id, room, payload) ==
    [id |-> id, room |-> room, files |-> Extracted(payload), payload |-> payload]

(*---------------------------------- State ----------------------------------*)

VARIABLES
    records,    \* the listener's records, oldest first: [id, room, files, payload]
    onFile,     \* attachments.json
    copies,     \* <<record, file>>: the copies in the workspace
    spoilt,     \* history: copies that a later, failing one left cut short
    handling,   \* what the listener is doing
    waiting,    \* records whose prompt waits for an approval
    reading,    \* what another program has read and will write back
    made,       \* records made so far
    mishaps,    \* failures so far
    reports,    \* history: who was told what of a record
    runs        \* history: the prompts that ran: record and lines about its files

mediaVars == <<records, onFile, copies, spoilt, handling, waiting, reading, made, mishaps,
               reports, runs>>

NotReading == [on |-> FALSE, was |-> <<>>]
Idle == [at |-> "idle", id |-> 0, file |-> 0, lines |-> {}, caption |-> "none", job |-> "ingest"]

MediaInit ==
    /\ records = <<>> /\ onFile = <<>> /\ copies = {} /\ spoilt = {}
    /\ handling = Idle /\ waiting = {} /\ reading = NotReading
    /\ made = 0 /\ mishaps = 0 /\ reports = {} /\ runs = {}

Mishap == mishaps < MaxMishaps /\ mishaps' = mishaps + 1
Fine == UNCHANGED mishaps
RecordOf(id) == CHOOSE r \in ToSet(records) : r.id = id
Ids(kept) == {kept[i].id : i \in DOMAIN kept}
Current == RecordOf(handling.id).files[handling.file]
NoHistory == UNCHANGED <<waiting, reports, runs>>

(*-------------------------------- Arrival ----------------------------------*)

(* route_unsupported_event: the record is made and saved. When the save fails *)
(* the error ends the listener.                                               *)
Receive(room, payload, caption) ==
    LET id == made + 1
        record == NewRecord(id, room, payload)
    IN  /\ handling.at = "idle" /\ made < MaxRecords /\ record.files # <<>>
        /\ made' = id
        /\ records' = Append(records, record)
        /\ \/ Fine /\ onFile' = records'
              /\ handling' = [Idle EXCEPT !.at = "ingest", !.id = id, !.file = 1,
                                          !.caption = caption]
           \/ Mishap /\ UNCHANGED onFile /\ handling' = [Idle EXCEPT !.at = "down"]
        /\ UNCHANGED <<copies, spoilt, reading>> /\ NoHistory

(* A line about the current file; then the next one.                          *)
Line(outcome) == handling.lines \cup {<<handling.file, outcome>>}
GoOn(lines) ==
    handling' = IF handling.job = "download" \/ handling.file = Len(RecordOf(handling.id).files)
                THEN [handling EXCEPT !.at = "answer", !.lines = lines]
                ELSE [handling EXCEPT !.at = "ingest", !.file = @ + 1, !.lines = lines]

(* Mutant of Fetch: the first file that cannot be had ends the ingest.        *)
FetchStops ==
    /\ handling.at = "ingest"
    /\ LET file == Current
       IN  IF Supported(file) /\ file.path # "there" /\ file.hash = Absent
           THEN handling' = [handling EXCEPT !.at = "answer", !.lines = Line("no hash")] /\ Fine
           ELSE \/ ~Supported(file) /\ GoOn(handling.lines) /\ Fine
                \/ Supported(file) /\ handling' = [handling EXCEPT !.at = "copy"] /\ Fine
    /\ UNCHANGED <<records, onFile, copies, spoilt, reading, made>> /\ NoHistory

(* ingest_wn_attachments, one file: what the sender's path or the media hash  *)
(* gives. Nothing is reported of a file of another kind.                      *)
Fetch ==
    /\ handling.at = "ingest"
    /\ LET file == Current
           unread == IF file.path = "gone" THEN Line("unread") ELSE handling.lines
           reach == [handling EXCEPT !.at = "copy", !.lines = unread]
       IN  \/ ~Supported(file) /\ GoOn(handling.lines) /\ Fine
           \/ Supported(file) /\ file.path = "there" /\ handling' = reach /\ Fine
           \/ /\ Supported(file) /\ file.path # "there" /\ file.hash = Absent /\ Fine
              /\ GoOn(IF file.path = "gone" THEN unread ELSE Line("no hash"))
           \/ /\ Supported(file) /\ file.path # "there" /\ file.hash # Absent
              /\ \/ handling' = reach /\ Fine
                 \/ GoOn(unread \cup {<<handling.file, "failed">>}) /\ Mishap
    /\ UNCHANGED <<records, onFile, copies, spoilt, reading, made>> /\ NoHistory

(* copy_private_file writes straight to the copy's place: an error may come   *)
(* after the bytes are there, or leave an earlier copy cut short.             *)
CopyFile ==
    LET copy == <<handling.id, handling.file>>
    IN  /\ handling.at = "copy"
        /\ \/ Fine /\ copies' = copies \cup {copy} /\ spoilt' = spoilt \ {copy}
              /\ handling' = [handling EXCEPT !.at = "record", !.lines = Line("copied")]
           \/ Mishap /\ copies' \in {copies, copies \cup {copy}, copies \ {copy}}
              /\ spoilt' = spoilt \cup (copies \ copies')
              /\ GoOn(Line("failed"))
        /\ UNCHANGED <<records, onFile, reading, made>> /\ NoHistory

(* set_local_path: a failed save is only logged.                              *)
RecordCopy ==
    /\ handling.at = "record"
    /\ records' = [i \in DOMAIN records |->
           IF records[i].id = handling.id
           THEN [records[i] EXCEPT !.files[handling.file].path = "copy"] ELSE records[i]]
    /\ \/ Fine /\ onFile' = records'
       \/ Mishap /\ UNCHANGED onFile
    /\ GoOn(handling.lines)
    /\ UNCHANGED <<copies, spoilt, reading, made>> /\ NoHistory

(*-------------------------------- Answering --------------------------------*)

Report(to) == reports' = reports \cup
    {[id |-> handling.id, to |-> to, lines |-> handling.lines,
      files |-> RecordOf(handling.id).files]}
Run(id, lines) == runs' = runs \cup {[id |-> id, lines |-> lines]}

(* The summary goes to the sender when there is no text or the text is        *)
(* answered by a reply; a prompt that runs gets the lines of its files. A     *)
(* follow-up of a running job is turned away, and an opened or resumed        *)
(* session takes no lines: nobody hears of the files then. A prompt that      *)
(* needs an approval was stored without them, and its reply carries them.     *)
Answer ==
    /\ handling.at = "answer" /\ handling.job = "ingest"
    /\ \/ /\ handling.caption \in {"none", "reply"} /\ Report("sender")
          /\ UNCHANGED <<waiting, runs>>
       \/ /\ handling.caption = "run" /\ Report("agent")
          /\ Run(handling.id, handling.lines) /\ UNCHANGED waiting
       \/ /\ handling.caption = "approval" /\ Report("sender")
          /\ waiting' = waiting \cup {handling.id} /\ UNCHANGED runs
       \/ /\ handling.caption \in {"run", "session"} /\ Report("nobody")
          /\ UNCHANGED <<waiting, runs>>
    /\ handling' = Idle
    /\ UNCHANGED <<records, onFile, copies, spoilt, reading, made, mishaps>>

(* /approve: the stored request runs as it is.                                *)
Approve(id) ==
    /\ handling.at = "idle" /\ id \in waiting
    /\ waiting' = waiting \ {id} /\ Run(id, {})
    /\ UNCHANGED <<records, onFile, copies, spoilt, handling, reading, made, mishaps, reports>>

(* /download: the n-th newest record, or one named by its id, if it belongs   *)
(* to the chat; then as for an ingested file with a hash.                     *)
Download(room, id, i) ==
    /\ handling.at = "idle"
    /\ id \in {r.id : r \in ToSet(records)}
    /\ RecordOf(id).room = room
    /\ i \in DOMAIN RecordOf(id).files /\ RecordOf(id).files[i].hash # Absent
    /\ \/ Fine /\ handling' = [Idle EXCEPT !.at = "copy", !.id = id, !.file = i, !.job = "download"]
       \/ Mishap /\ UNCHANGED handling
    /\ UNCHANGED <<records, onFile, copies, spoilt, reading, made>> /\ NoHistory

DownloadAnswered ==
    /\ handling.at = "answer" /\ handling.job = "download"
    /\ handling' = Idle
    /\ UNCHANGED <<records, onFile, copies, spoilt, reading, made, mishaps>> /\ NoHistory

(*--------------------------- Restarts and others ---------------------------*)

ListenerKilled ==
    /\ handling.at # "down" /\ Mishap
    /\ handling' = [Idle EXCEPT !.at = "down"]
    /\ UNCHANGED <<records, onFile, copies, spoilt, reading, made>> /\ NoHistory

(* Mutant of Open: a store that cannot be read starts empty.                  *)
OpenEmpty ==
    /\ handling.at = "down"
    /\ records' = <<>> /\ onFile' = <<>> /\ handling' = Idle
    /\ UNCHANGED <<copies, spoilt, reading, made, mishaps>> /\ NoHistory

(* AttachmentStore::open, at the next start: it saves what it read.           *)
Open ==
    /\ handling.at = "down"
    /\ records' = onFile /\ handling' = Idle
    /\ UNCHANGED <<onFile, copies, spoilt, reading, made, mishaps>> /\ NoHistory

OtherReads ==
    /\ ~reading.on /\ Mishap
    /\ reading' = [on |-> TRUE, was |-> onFile]
    /\ UNCHANGED <<records, onFile, copies, spoilt, handling, made>> /\ NoHistory

OtherWritesBack ==
    /\ reading.on
    /\ onFile' = reading.was /\ reading' = NotReading
    /\ UNCHANGED <<records, copies, spoilt, handling, made, mishaps>> /\ NoHistory

MediaNext ==
    \/ \E room \in Room, payload \in Payload, caption \in Caption :
           Receive(room, payload, caption)
    \/ Fetch \/ CopyFile \/ RecordCopy \/ Answer \/ DownloadAnswered
    \/ \E id \in 1..MaxRecords : Approve(id)
    \/ \E room \in Room, id \in 1..MaxRecords : \E i \in 1..3 : Download(room, id, i)
    \/ ListenerKilled \/ Open \/ OtherReads \/ OtherWritesBack

MediaSpec == MediaInit /\ [][MediaNext]_mediaVars

(*-------------------------------- Properties -------------------------------*)

(* Whatever went wrong with one file, every supported file of the record is   *)
(* accounted for in what the sender or the agent is told, and a file that is  *)
(* said, or shown by /attach, to be in the workspace is there, unless a later *)
(* copy onto it failed.                                                       *)
FilesAccounted ==
    /\ \A r \in reports : r.to # "nobody" =>
          \A i \in DOMAIN r.files : Supported(r.files[i]) =>
              \E outcome \in {"copied", "failed", "no hash", "unread"} :
                  /\ <<i, outcome>> \in r.lines
                  /\ outcome = "copied" => <<r.id, i>> \in copies \cup spoilt
    /\ \A r \in ToSet(records) \cup ToSet(onFile) : \A i \in DOMAIN r.files :
          r.files[i].path = "copy" => <<r.id, i>> \in copies \cup spoilt

(* Two entries that could be of one file, and an entry that has all that was  *)
(* told of one; the path of a copy takes the place of the path that was told. *)
Agree(a, b) ==
    /\ a.url = b.url \/ Absent \in {a.url, b.url}
    /\ a.hash = b.hash \/ Absent \in {a.hash, b.hash}
    /\ a.path = b.path \/ {Absent, "copy"} \cap {a.path, b.path} # {}

Keeps(listed, file) ==
    /\ file.url # Absent => listed.url = file.url
    /\ file.hash # Absent => listed.hash = file.hash
    /\ file.path # Absent => listed.path \in {file.path, "copy"}

(* The payloads whose objects each tell of one file: their entries can be     *)
(* shared out so that those of one file agree, and those that share a url, a  *)
(* hash or a path are of one file. (An object without a url over two that     *)
(* have one takes the first one's url, and may take the second one's path.)   *)
Apart(told, owner) ==
    \A i, j \in DOMAIN told :
        /\ owner[i] = owner[j] => Agree(told[i], told[j])
        /\ Overlap(told[i], told[j]) => owner[i] = owner[j]

FileByFile == {payload \in Payload :
    LET told == AllOf(payload)
    IN  \E owner \in [DOMAIN told -> DOMAIN told] : Apart(told, owner)}

(* dedupe_attachments neither loses a file nor mixes two: all that was told   *)
(* of a file is in one entry of the record, and an entry that shares its url, *)
(* hash or path with a file says nothing that is not so of it; unless an      *)
(* object of the message tells of more than one file.                         *)
NoFileFoldedAway ==
    \A r \in ToSet(records) :
        \/ \A file \in ToSet(AllOf(r.payload)) :
               /\ \E i \in DOMAIN r.files : Keeps(r.files[i], file)
               /\ \A i \in DOMAIN r.files :
                     Overlap(r.files[i], file) => Agree(r.files[i], file)
        \/ r.payload \notin FileByFile

(* The same of any message, which does not hold.                              *)
EveryFileKept ==
    \A r \in ToSet(records) : \A file \in ToSet(AllOf(r.payload)) :
        \E i \in DOMAIN r.files : Keeps(r.files[i], file)

(* A record leaves attachments.json only when another program writes back     *)
(* what it had read before the record was made.                               *)
RecordsStay ==
    [][\/ Ids(onFile) \subseteq Ids(onFile')
       \/ reading.on /\ ~reading'.on]_mediaVars

(* A prompt that came with supported media names the files (README).          *)
PromptsNameMedia ==
    \A run \in runs : \A r \in reports :
        r.id = run.id => \A i \in DOMAIN r.files :
            Supported(r.files[i]) => \E line \in run.lines : line[1] = i
=============================================================================
