----------------------------- MODULE RecordStore -----------------------------
(***************************************************************************)
(* The recordings on the drive: the recorder that adds files                *)
(* (recorder_manager.cpp), the rotation thread that deletes the oldest ones  *)
(* while space is short (RotateFiles), and a viewer's query for a recording  *)
(* (QueryFile of conductor.cpp with FindLatestCompleteFile, FindOlderFiles   *)
(* and FindFilesFromDatetime of utils.cpp).                                  *)
(*                                                                          *)
(* A recording is named by the second it starts, and lies in a folder per    *)
(* hour, in a folder per day.  Here time is a number of ticks, and a file, an *)
(* hour and a day are numbers.  The clock never goes back.                    *)
(*                                                                          *)
(* Granularity.  Listing a folder, reading the times of its files, creating  *)
(* or removing one folder, opening a file, and removing one with its image,   *)
(* which nobody reads, are one step each.                                     *)
(***************************************************************************)
EXTENDS Naturals, FiniteSets, SequencesExt

CONSTANTS
  HourTicks, DayHours, \* the calendar
  LastTick,            \* bound: the last tick
  Capacity,            \* recordings the drive takes
  AskedTimes, Horizon, \* bound: the times a viewer asks about, and the last of them
  MaxOlder,            \* files a BEFORE_FILE query asks for: 8 in the code
  MaxFolders,          \* folders a BEFORE_TIME query searches: 10 in the code
  None

ASSUME StoreAssumption ==
  /\ {HourTicks, DayHours, Capacity, MaxOlder, MaxFolders} \subseteq Nat \ {0}
  /\ LastTick \in Nat /\ Horizon \in Nat /\ LastTick <= Horizon
  /\ AskedTimes \subseteq 0 .. Horizon /\ None \notin Nat

VARIABLES
  tick,
  mp4, jpg,    \* the recordings and the preview images, by the start they name
  mtime,       \* when a recording was closed
  days, hours, \* the folders
  live,        \* the recording being written, which may have been deleted
  rec,         \* the recorder: its step and the name of its next file
  preview,     \* the image still to be written
  rot,         \* the rotation thread: its step, and the hour and file it picked
  abort,       \* rotation_abort_
  full,        \* other files have filled the drive
  query,       \* the viewer's query
  terminated   \* an exception nobody catches

files == <<mp4, jpg, mtime, days, hours>>
storeVars == <<tick, files, live, rec, preview, rot, abort, full, query,
               terminated>>

Time == 0 .. LastTick
Hour(t) == t \div HourTicks
Day(h) == h \div DayHours
\* A folder of the recording path that is no day, such as on-demand, has folders
\* of its own, and its name is after that of every day.
ForeignHour == DayHours * (Day(Hour(Horizon)) + 1)
Largest(S) == CHOOSE x \in S : \A y \in S : y <= x
Least(S) == CHOOSE x \in S : \A y \in S : x <= y

Complete == mp4 \ {live}
\* The recording is written all the time.
Written(f) == IF f = live THEN tick ELSE mtime[f]
\* A deleted file takes its space until it is closed.
Short == full \/ Cardinality(mp4 \cup ({live} \ {None})) > Capacity
Up == ~terminated
\* History: these recordings are no longer there.
Forget(S) == query' = [query EXCEPT !.complete = @ \ S]
-----------------------------------------------------------------------------
(***************************************************************************)
(* The recorder: RecorderManager::Start and Stop.                           *)
(***************************************************************************)
\* The name of the file, and CreateFolder: the day first.  That the drive is short of
\* space only wakes the rotation thread sooner.
StartsRecording ==
  /\ Up /\ rec.step = "idle" /\ ~abort
  /\ days' = days \cup {Day(Hour(tick))}
  /\ rec' = [step |-> "hour", name |-> tick]
  /\ UNCHANGED <<tick, mp4, jpg, mtime, hours, live, preview, rot, abort, full, query,
                 terminated>>

\* Then the hour, which fails without the day.
WithHour(h) == IF Day(h) \in days THEN hours \cup {h} ELSE hours

CreateHour ==
  /\ Up /\ rec.step = "hour"
  /\ hours' = WithHour(Hour(rec.name))
  /\ rec' = [rec EXCEPT !.step = "open"]
  /\ UNCHANGED <<tick, mp4, jpg, mtime, days, live, preview, rot, abort,
                 full, query, terminated>>

\* CreateContainer, which fails without the folder; then MakePreviewImage.  The image
\* of the last recording has been written by then.
OpenFile ==
  /\ Up /\ rec.step = "open" /\ preview = None
  /\ IF Hour(rec.name) \in hours
     THEN /\ mp4' = mp4 \cup {rec.name} /\ live' = rec.name
          /\ preview' = rec.name /\ Forget({rec.name})
          /\ rec' = [rec EXCEPT !.step = "recording"]
     ELSE /\ rec' = [step |-> "idle", name |-> None]
          /\ UNCHANGED <<mp4, live, preview, query>>
  /\ UNCHANGED <<tick, jpg, mtime, days, hours, rot, abort, full, terminated>>

\* Stop writes the trailer.
StopsRecording ==
  /\ Up /\ rec.step = "recording"
  /\ mtime' = IF live \in mp4 THEN [mtime EXCEPT ![live] = tick] ELSE mtime
  /\ live' = None /\ rec' = [step |-> "idle", name |-> None]
  /\ UNCHANGED <<tick, mp4, jpg, days, hours, preview, rot, abort, full,
                 query, terminated>>

\* MakePreviewImage's thread, three seconds later: nothing without the folder.
WritePreview ==
  /\ Up /\ preview # None
  /\ preview' = None
  /\ jpg' = IF Hour(preview) \in hours THEN jpg \cup {preview} ELSE jpg
  /\ UNCHANGED <<tick, mp4, mtime, days, hours, live, rec, rot, abort, full,
                 query, terminated>>
-----------------------------------------------------------------------------
(***************************************************************************)
(* The rotation thread: StartRotationThread and RotateFiles.                *)
(***************************************************************************)
Waiting == [step |-> "wait", hour |-> None, file |-> None]

Rotates(step) == Up /\ rot.step = step

\* Asked, aborted, or after 60 s.
WakesUp ==
  /\ Rotates("wait")
  /\ rot' = [rot EXCEPT !.step = IF abort THEN "ended" ELSE "space"]
  /\ UNCHANGED <<tick, files, live, rec, preview, abort, full, query, terminated>>

ChecksSpace ==
  /\ Rotates("space")
  /\ rot' = IF abort \/ ~Short THEN Waiting ELSE [rot EXCEPT !.step = "pick"]
  /\ UNCHANGED <<tick, files, live, rec, preview, abort, full, query,
                 terminated>>

\* mutant: the newest hour is rotated out
MutOldestHour(D) == LET own == {h \in hours : Day(h) \in D}
                    IN IF own = {} THEN None ELSE Largest(own)

\* oldest_date_folder and oldest_hour_folder
OldestHour(D) == LET d == Least(D)
                 IN IF \E h \in hours : Day(h) = d
                    THEN Least({h \in hours : Day(h) = d}) ELSE None

InHour(S, h) == {f \in S : Hour(f) = h}

Media(h) == InHour(mp4 \cup jpg, h)

\* oldest_file
PicksFile ==
  /\ Rotates("pick")
  /\ LET h == OldestHour(days)
     IN rot' = IF days = {} THEN [rot EXCEPT !.step = "space"]
               ELSE IF h = None
               THEN [step |-> "dropDay", hour |-> Least(days), file |-> None]
               ELSE IF Media(h) = {}
               THEN [step |-> "dropHour", hour |-> h, file |-> None]
               ELSE [step |-> "remove", hour |-> h, file |-> Least(Media(h))]
  /\ UNCHANGED <<tick, files, live, rec, preview, abort, full, query, terminated>>

\* mutant: a day without hours stays
MutWithoutDay(d) == days

WithoutDay(d) == days \ {d}

\* remove_all of a day without hours, or of an hour without recordings, and of
\* what has been created in it since.
DropFolder ==
  /\ Rotates("dropDay") \/ Rotates("dropHour")
  /\ LET gone == IF rot.step = "dropHour" THEN {rot.hour}
                 ELSE {h \in hours : Day(h) = rot.hour}
     IN /\ hours' = hours \ gone
        /\ mp4' = {f \in mp4 : Hour(f) \notin gone}
        /\ jpg' = {f \in jpg : Hour(f) \notin gone}
        /\ days' = IF rot.step = "dropDay" THEN WithoutDay(rot.hour) ELSE days
  /\ rot' = [step |-> "space", hour |-> None, file |-> None]
  /\ Forget(mp4 \ mp4')
  /\ UNCHANGED <<tick, mtime, live, rec, preview, abort, full,
                 terminated>>

\* The file and its counterpart.
RemovesFile ==
  /\ Rotates("remove")
  /\ mp4' = mp4 \ {rot.file} /\ jpg' = jpg \ {rot.file}
  /\ rot' = [rot EXCEPT !.step = "emptyHour", !.file = None]
  /\ Forget(mp4 \ mp4')
  /\ UNCHANGED <<tick, mtime, days, hours, live, rec, preview, abort, full, terminated>>

\* Then the hour if it is empty,
DropEmptyHour ==
  /\ Rotates("emptyHour")
  /\ IF Media(rot.hour) = {}
     THEN hours' = hours \ {rot.hour} /\ rot' = [rot EXCEPT !.step = "emptyDay"]
     ELSE hours' = hours /\ rot' = [rot EXCEPT !.step = "space", !.hour = None]
  /\ UNCHANGED <<tick, mp4, jpg, mtime, days, live, rec, preview, abort, full, query,
                 terminated>>

\* and the day if that was its last hour.
DropEmptyDay ==
  /\ Rotates("emptyDay")
  /\ days' = IF \E h \in hours : Day(h) = Day(rot.hour) THEN days
             ELSE WithoutDay(Day(rot.hour))
  /\ rot' = [rot EXCEPT !.step = "space", !.hour = None]
  /\ UNCHANGED <<tick, mp4, jpg, mtime, hours, live, rec, preview, abort, full, query,
                 terminated>>

\* ~RecorderManager: after Stop.
Destroyed ==
  /\ Up /\ rec.step = "idle" /\ ~abort
  /\ abort' = TRUE
  /\ UNCHANGED <<tick, files, live, rec, preview, rot, full, query,
                 terminated>>
-----------------------------------------------------------------------------
(***************************************************************************)
(* The query.                                                               *)
(***************************************************************************)
\* query.complete is the history of the complete recordings there since the question.
NoQuery == [kind |-> "none", step |-> "idle", limit |-> None, at |-> None,
            listed |-> {}, found |-> <<>>, folders |-> 0, complete |-> {}]

\* SendFileResponse
Reply(found) == [NoQuery EXCEPT !.step = "replied", !.found = found]

\* GetFiles: the folder is listed, then its files are asked for their times.
Visit(q, h) == [q EXCEPT !.step = "stat", !.at = h, !.listed = InHour(mp4, h),
                         !.folders = @ + 1]

Asks(kind, limit, h) ==
  /\ Up /\ query.step = "idle"
  /\ query' = IF h = None THEN Reply(<<>>)
              ELSE Visit([NoQuery EXCEPT !.kind = kind, !.limit = limit,
                                         !.complete = Complete], h)
  /\ UNCHANGED <<tick, files, live, rec, preview, rot, abort, full,
                 terminated>>

\* FindLatestSubDir takes folders named by eight or two digits only.
LatestHourOf(D) ==
  LET own == {h \in hours : h # ForeignHour /\ Day(h) \in D}
  IN IF own = {} THEN None ELSE Largest(own)

LatestDay == LET own == days \ {Day(ForeignHour)}
             IN IF own = {} THEN {} ELSE {Largest(own)}

\* FindLatestCompleteFile
AsksLatest == Asks("latest", None, LatestHourOf(LatestDay))

\* FindOlderFiles: a file the viewer got before.
AsksOlder(f) == f \in mp4 /\ Asks("older", Written(f), Hour(f))

\* FindFilesFromDatetime
AsksBefore(t) == Asks("before", t, Hour(t))

\* The previous hour of the day that has a folder.
PreviousHour(h) == LET own == {g \in hours : Day(g) = Day(h) /\ g < h}
                   IN IF own = {} THEN None ELSE Largest(own)

\* mutant: the day before is never looked at
MutPreviousDay(h) == None

\* GetPreviousDate, and the latest hour of that day.
PreviousDay(h) == IF Day(h) = 0 THEN None ELSE LatestHourOf({Day(h) - 1})

Before(h) == IF PreviousHour(h) = None THEN PreviousDay(h) ELSE PreviousHour(h)

\* The newest file first; files of one time by name.
Newer(f, g) == Written(f) > Written(g) \/ (Written(f) = Written(g) /\ f > g)
Sorted(S) == CHOOSE s \in [1 .. Cardinality(S) -> S] :
               \A i, j \in 1 .. Cardinality(S) : i < j => Newer(s[i], s[j])

\* files[1]
Second(s) == IF Len(s) < 2 THEN <<>> ELSE <<s[2]>>

\* FindLatestCompleteFile: the latest hour, the hour before it in the same day, and
\* the latest hour of the day before, while there are less than two files.
LatestFound(all) ==
  LET h == query.at
      next == IF query.limit = None /\ PreviousHour(h) # None THEN PreviousHour(h)
              ELSE PreviousDay(h)
  IN IF Len(all) >= 2 \/ query.limit = "day" \/ next = None
     THEN Reply(Second(all))
     ELSE Visit([query EXCEPT !.found = all,
                              !.limit = IF Day(next) = Day(h) THEN "hour" ELSE "day"],
                next)

Older(f) == Written(f) < query.limit

Wanted == IF query.kind = "older" THEN MaxOlder ELSE 1

\* max_searching_folder
GivesUp == query.kind = "before" /\ query.folders >= MaxFolders

\* FindOlderFiles and FindFilesFromDatetime walk back in time.
OlderFound(all) ==
  IF Len(all) >= Wanted \/ Before(query.at) = None \/ GivesUp
  THEN Reply(SubSeq(all, 1, IF Len(all) < Wanted THEN Len(all) ELSE Wanted))
  ELSE Visit([query EXCEPT !.found = all], Before(query.at))

\* A file deleted since the folder was listed throws, and nobody catches it.
ReadsTimes ==
  /\ Up /\ query.step = "stat"
  /\ terminated' = ~(query.listed \subseteq mp4)
  /\ query' = IF terminated' THEN query
              ELSE IF query.kind = "latest"
              THEN LatestFound(Sorted(ToSet(query.found) \cup query.listed))
              ELSE OlderFound(query.found \o Sorted({f \in query.listed : Older(f)}))
  /\ UNCHANGED <<tick, files, live, rec, preview, rot, abort, full>>
-----------------------------------------------------------------------------
Tick ==
  /\ Up /\ tick < LastTick
  /\ tick' = tick + 1
  /\ UNCHANGED <<files, live, rec, preview, rot, abort, full, query,
                 terminated>>

\* Something else fills the drive.
OthersWrite ==
  /\ Up /\ ~full
  /\ full' = TRUE
  /\ UNCHANGED <<tick, files, live, rec, preview, rot, abort, query,
                 terminated>>

StoreInit ==
  /\ tick = 0 /\ mp4 = {} /\ jpg = {} /\ mtime = [t \in Time |-> 0]
  /\ days = {Day(ForeignHour)} /\ hours = {ForeignHour}
  /\ live = None /\ rec = [step |-> "idle", name |-> None] /\ preview = None
  /\ rot = Waiting /\ abort = FALSE /\ full = FALSE
  /\ query = NoQuery /\ terminated = FALSE

Record == \/ StartsRecording \/ CreateHour \/ OpenFile
          \/ StopsRecording \/ WritePreview

Rotation == \/ WakesUp \/ ChecksSpace \/ PicksFile \/ DropFolder \/ RemovesFile
            \/ DropEmptyHour \/ DropEmptyDay

Query == \/ AsksLatest \/ (\E f \in mp4 : AsksOlder(f))
         \/ (\E t \in AskedTimes : AsksBefore(t)) \/ ReadsTimes

StoreNext == Record \/ Rotation \/ Destroyed \/ Query \/ Tick \/ OthersWrite

StoreSpec == StoreInit /\ [][StoreNext]_storeVars

\* The rotation thread runs.
FairStoreSpec == StoreSpec /\ WF_storeVars(Rotation)
-----------------------------------------------------------------------------
\* Every variable keeps its type; a file is in an hour's folder, and the folder is
\* in a day's.
StoreTypeOK ==
  /\ tick \in Time /\ mp4 \cup jpg \subseteq 0 .. tick
  /\ mtime \in [Time -> 0 .. tick]
  /\ {live, preview, rec.name, rot.file} \subseteq 0 .. tick \cup {None}
  /\ rec.step \in {"idle", "hour", "open", "recording"}
  /\ {abort, full, terminated} \subseteq BOOLEAN
  /\ \A f \in mp4 \cup jpg : Hour(f) \in hours
  /\ \A h \in hours : Day(h) \in days

\* Recordings are rotated out oldest first: while an older recording is on the drive,
\* rotation deletes no newer one, least of all the one being written.
OldestFirst == [][\A f \in mp4 \ mp4', g \in mp4' : f < g]_storeVars

\* The recordings stay in their folders, and are rotated out oldest first.
StoreInOrder == []StoreTypeOK /\ OldestFirst

\* The search can walk from its hour to the earliest recording: every day in between
\* has an hour's folder.  It is not so when the recorder stood still for a day, or has
\* been since the day asked about.
NoGap == \A h \in hours : \A d \in Day(h) .. Day(query.at) - 1 :
           \E g \in hours : Day(g) = d

\* A reply names the recording being written only to BEFORE_TIME, and only when the
\* time asked about is later than the last write to it, such as one still to come
\* (utils.cpp:299-302); a reply to LATEST_FILE or BEFORE_FILE never does.
RepliesComplete ==
  [][(query.step # "replied" /\ query'.step = "replied" /\ live \in ToSet(query'.found))
       => query.kind = "before" /\ tick < query.limit]_storeVars

\* A reply to BEFORE_FILE or BEFORE_TIME leaves nothing out even while files come
\* and go: of the complete recordings there from the question to the reply, all
\* that are early enough are named if there is room for more and the search has not
\* given up, and if there is none, no unnamed one is newer than a named one.
RepliesNewest ==
  [][(query.step = "stat" /\ query'.step = "replied" /\ query.kind # "latest" /\ NoGap)
       => LET found == ToSet(query'.found)
              left  == {f \in query.complete \ found : Older(f)}
          IN IF Len(query'.found) < Wanted THEN left = {} \/ GivesUp
             ELSE \A f \in left, g \in found : Newer(g, f)]_storeVars

\* A reply names finished recordings, but for a time still to come, and the right ones.
RepliesRight == RepliesComplete /\ RepliesNewest

\* Once asked, rotation makes room, or deletes every complete recording.
SpaceFreed == (Short /\ rot.step = "space") ~> (~Short \/ Complete = {} \/ abort
                                                \/ terminated)
=============================================================================
