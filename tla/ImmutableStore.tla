--------------------------- MODULE ImmutableStore ---------------------------
(***************************************************************************)
(* write_immutable (data/storage/local_immutable.py): the publication of a *)
(* file by a temporary file, fsync and a hard link, run by processes that  *)
(* share a directory.  Names and inodes are told apart, as link(2) does.   *)
(* Bytes are abstracted to a member of Contents, or Torn while a file is   *)
(* incomplete; one step is one system call.                                *)
(***************************************************************************)
EXTENDS FiniteSets

CONSTANTS Writers,    \* processes
          Paths,      \* final destinations
          Contents,   \* complete payloads
          Inodes,     \* files that can exist at once (a bound)
          Torn, Free, \* the bytes of an incomplete file; an unused inode
          None        \* no inode

ASSUME DistinctValues ==
  /\ {Torn, Free} \cap Contents = {}
  /\ Torn # Free
  /\ None \notin Inodes
  /\ None \notin Paths \cup Contents \cup [path : Paths, content : Contents]

VARIABLES inode,   \* inode[i]: the bytes of inode i
          durable, \* inodes whose bytes fsync put on the disk
          temp,    \* inodes that have a temporary name
          link,    \* link[p]: the inode that the final name p refers to
          writer   \* writer[w]: the activation of write_immutable w runs

vars == <<inode, durable, temp, link, writer>>

Bytes(p) == IF link[p] = None THEN None ELSE inode[link[p]]
Linked(i) == \E p \in Paths : link[p] = i

Outcomes == {"none", "ok", "conflict", "error", "killed"}
Points == {"idle", "create", "write", "sync", "link", "compare", "unlink"}
Activations == [pc : Points, path : Paths \cup {None}, content : Contents \cup {None},
                ino : Inodes \cup {None}, outcome : Outcomes]
Idle(result) ==
  [pc |-> "idle", path |-> None, content |-> None, ino |-> None, outcome |-> result]

\* w moves to a point of the function, with its file and its outcome so far.
Move(w, point, i, result) ==
  writer' = [writer EXCEPT ![w] =
    [pc |-> point, path |-> writer[w].path, content |-> writer[w].content,
     ino |-> i, outcome |-> result]]
Goto(w, point) == Move(w, point, writer[w].ino, "none")
Finish(w, result) == Move(w, "unlink", writer[w].ino, result)
Return(w, result) == writer' = [writer EXCEPT ![w] = Idle(result)]

Init ==
  /\ inode = [i \in Inodes |-> Free]
  /\ durable = {}
  /\ temp = {}
  /\ link = [p \in Paths |-> None]
  /\ writer = [w \in Writers |-> Idle("none")]

Begin(w, p, c) ==
  /\ writer[w].pc = "idle"
  /\ writer' = [writer EXCEPT ![w] =
       [pc |-> "create", path |-> p, content |-> c, ino |-> None, outcome |-> "none"]]
  /\ UNCHANGED <<inode, durable, temp, link>>

\* temp.open("xb"): the name carries a fresh uuid, so the file is new.
Create(w, i) ==
  /\ writer[w].pc = "create"
  /\ inode[i] = Free
  /\ inode' = [inode EXCEPT ![i] = Torn]
  /\ temp' = temp \cup {i}
  /\ Move(w, "write", i, "none")
  /\ UNCHANGED <<durable, link>>

Write(w) ==
  /\ writer[w].pc = "write"
  /\ inode' = [inode EXCEPT ![writer[w].ino] = writer[w].content]
  /\ Goto(w, "sync")
  /\ UNCHANGED <<durable, temp, link>>

\* Mutant of Sync: the temporary file is linked without an fsync.
SyncSkipped(w) ==
  /\ writer[w].pc = "sync"
  /\ Goto(w, "link")
  /\ UNCHANGED <<inode, durable, temp, link>>

Sync(w) ==
  /\ writer[w].pc = "sync"
  /\ durable' = durable \cup {writer[w].ino}
  /\ Goto(w, "link")
  /\ UNCHANGED <<inode, temp, link>>

\* Mutant of Link: an existing name is a conflict without a look at it.
LinkNeverCompares(w) ==
  /\ writer[w].pc = "link"
  /\ \/ /\ link[writer[w].path] = None
        /\ link' = [link EXCEPT ![writer[w].path] = writer[w].ino]
        /\ Finish(w, "ok")
     \/ link[writer[w].path] # None /\ Finish(w, "conflict") /\ UNCHANGED link
  /\ UNCHANGED <<inode, durable, temp>>

\* os.link(temp, path), which fails where the final name exists.
Link(w) ==
  /\ writer[w].pc = "link"
  /\ \/ /\ link[writer[w].path] = None
        /\ link' = [link EXCEPT ![writer[w].path] = writer[w].ino]
        /\ Finish(w, "ok")
     \/ /\ link[writer[w].path] # None
        /\ Goto(w, "compare")
        /\ UNCHANGED link
  /\ UNCHANGED <<inode, durable, temp>>

\* Mutant of Compare: bytes that are already there count as published.
CompareTrusts(w) ==
  /\ writer[w].pc = "compare"
  /\ Finish(w, "ok")
  /\ UNCHANGED <<inode, durable, temp, link>>

Compare(w) ==
  /\ writer[w].pc = "compare"
  /\ Finish(w, IF Bytes(writer[w].path) = writer[w].content THEN "ok" ELSE "conflict")
  /\ UNCHANGED <<inode, durable, temp, link>>

\* The finally clause: the temporary name goes, and its inode if unlinked.
Unlink(w) ==
  /\ writer[w].pc = "unlink"
  /\ temp' = temp \ {writer[w].ino}
  /\ IF Linked(writer[w].ino)
       THEN UNCHANGED <<inode, durable>>
       ELSE /\ inode' = [inode EXCEPT ![writer[w].ino] = Free]
            /\ durable' = durable \ {writer[w].ino}
  /\ Return(w, writer[w].outcome)
  /\ UNCHANGED link

\* A system call raises OSError: the finally clause runs, if it is not at its end.
Fail(w) ==
  /\ \/ writer[w].pc \in {"create", "unlink"} /\ Return(w, "error")
     \/ writer[w].pc \in {"write", "sync", "link", "compare"} /\ Finish(w, "error")
  /\ UNCHANGED <<inode, durable, temp, link>>

Kill(w) ==
  /\ writer[w].pc # "idle"
  /\ Return(w, "killed")
  /\ UNCHANGED <<inode, durable, temp, link>>

Step(w) ==
  \/ \E i \in Inodes : Create(w, i)
  \/ Write(w) \/ Sync(w) \/ Link(w) \/ Compare(w) \/ Unlink(w)

(***************************************************************************)
(* The host loses power.  Bytes that were not fsynced may be lost, and so  *)
(* may any directory entry, because no directory is ever fsynced.          *)
(***************************************************************************)
Crash(gone, erased, torn) ==
  LET named == (temp \ erased) \cup {link[p] : p \in Paths \ gone} IN
  /\ link' = [p \in Paths |-> IF p \in gone THEN None ELSE link[p]]
  /\ temp' = temp \ erased
  /\ durable' = durable \cap named
  /\ inode' = [i \in Inodes |-> IF i \notin named THEN Free
                                ELSE IF i \in torn THEN Torn ELSE inode[i]]
  /\ writer' = [w \in Writers |-> IF writer[w].pc = "idle" THEN writer[w]
                                  ELSE Idle("killed")]

PowerLoss ==
  \E gone \in SUBSET Paths, erased \in SUBSET temp, torn \in SUBSET (Inodes \ durable) :
    Crash(gone, erased, torn)

Activate(w) ==
  \/ \E p \in Paths, c \in Contents : Begin(w, p, c)
  \/ Step(w) \/ Fail(w) \/ Kill(w)
Next == (\E w \in Writers : Activate(w)) \/ PowerLoss
Spec == Init /\ [][Next]_vars

-----------------------------------------------------------------------------
TypeOK ==
  /\ inode \in [Inodes -> Contents \cup {Torn, Free}]
  /\ durable \in SUBSET Inodes
  /\ temp \in SUBSET Inodes
  /\ link \in [Paths -> Inodes \cup {None}]
  /\ writer \in [Writers -> Activations]

(* "Publish bytes once without exposing a partial final destination"       *)
(* (local_immutable.py:22): whoever crashes or loses power at whatever     *)
(* system call, a final name never refers to an incomplete file.           *)
NoPartialExposure ==
  \A p \in Paths : link[p] # None => inode[link[p]] \in Contents

(* An activation past its link or its comparison reports what the path     *)
(* holds: "ok" only its own bytes, "conflict" only other complete bytes.   *)
ReportsTruth ==
  \A w \in Writers : writer[w].pc = "unlink" =>
    /\ writer[w].outcome = "ok" => Bytes(writer[w].path) = writer[w].content
    /\ writer[w].outcome = "conflict" =>
         Bytes(writer[w].path) \in Contents \ {writer[w].content}

(* The writers and the directory implement the write-once registers: who   *)
(* races, is killed or gets an OSError, at whatever system call, is told   *)
(* the truth, and only a power loss makes a publication disappear.         *)
Register == INSTANCE WriteOnce WITH
  Absent <- None,
  register <- [p \in Paths |-> Bytes(p)],
  request <- [w \in Writers |-> IF writer[w].pc = "idle" THEN None
                ELSE [path |-> writer[w].path, content |-> writer[w].content]],
  answer <- [w \in Writers |-> IF writer[w].pc = "idle" THEN writer[w].outcome ELSE "none"]

ImplementsWriteOnce == Register!Spec
=============================================================================
