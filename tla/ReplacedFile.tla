----------------------------- MODULE ReplacedFile -----------------------------
(***************************************************************************)
(* How the plugin replaces a JSON file so that a crash never takes the     *)
(* content in force with it (VyshkaFiles.c): the new content is written to *)
(* a staging copy, then over the file, then the staging copy is deleted,   *)
(* each write read back before the next step.  A disk holds the file and   *)
(* its staging copy, each a content, Cut (not whole) or Absent.            *)
(***************************************************************************)
CONSTANTS Cut, Absent

Whole(content) == content \notin {Cut, Absent}
Disk(file, staged) == [file |-> file, staged |-> staged]

\* What a reader of the file takes.
Stored(disk) == IF Whole(disk.staged) THEN disk.staged ELSE disk.file

\* Discard deletes the staging copy, or empties it, or neither.
Discarded(disk) == {Disk(disk.file, Absent), Disk(disk.file, Cut), disk}

\* RecoverJson finishes or discards what a crash interrupted.
Recovered(disk) ==
  CASE disk.staged = Absent -> {disk}
    [] disk.staged = Cut    -> {Disk(disk.file, Absent), disk}
    [] OTHER                -> {Disk(disk.staged, Absent), Disk(disk.staged, disk.staged)}
NotRecovered(disk) == IF Whole(disk.staged) THEN {disk, Disk(Cut, disk.staged)} ELSE {}

\* ReadReplacedJson: the disk it leaves and the content it gives.
Outcome(left, read) == [left |-> left, read |-> read]
Reads(disk) == {Outcome(left, Stored(disk)) : left \in Recovered(disk) \cup NotRecovered(disk)}

\* The same when a copy cannot be opened.  A staging copy is left as it is and
\* the file taken, even one cut short; a file is no content.
Misreads(disk) ==
  {Outcome(disk, content) : content \in IF disk.staged = Absent THEN {} ELSE {disk.file, Absent}}
  \cup {Outcome(left, Absent) : left \in IF Whole(disk.staged) THEN {} ELSE Recovered(disk)}

\* Replace: the disks it leaves when it succeeds, when it fails, and when the
\* process dies within it.  A copy that cannot be read back is taken for
\* one written short.
Replaced(disk, content) == {Disk(content, Absent), Disk(content, content)}
NotReplaced(disk, content) ==
  NotRecovered(disk) \cup
  UNION {Discarded(found) \cup Discarded(Disk(found.file, Cut))
         \cup {Disk(found.file, Absent), Disk(found.file, content), Disk(Cut, content),
               Disk(content, content)} :
           found \in Recovered(disk)}

\* The file is truncated only when the staging copy is whole.
FileFirst(disk, content) ==
  {Disk(disk.file, Absent), Disk(Cut, Absent), Disk(content, Absent), Disk(content, Cut)}
Interrupted(disk, content) ==
  {Disk(disk.file, Cut), Disk(disk.file, content), Disk(Cut, content), Disk(content, content)}
Crashed(disk, content) ==
  NotRecovered(disk) \cup UNION {{found} \cup Interrupted(found, content) : found \in Recovered(disk)}
===============================================================================
