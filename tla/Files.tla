-------------------------------- MODULE Files --------------------------------
(* The file tools (tools/impl/file_system.py, utils/path.py,                   *)
(* utils/matching.py) and the part of the file system a sandboxed process sees *)
(* (sandboxes/backends/base.py, bubblewrap.py).  A tree gives a path Absent, Dir *)
(* or a text, a sequence of lines; an operation works on [d, view, ok]: the    *)
(* tree as seen, what may be done at each path, and whether it has failed.     *)
EXTENDS Naturals, Sequences, FiniteSets, SequencesExt

CONSTANTS Paths,
          WorkDir,
          Up,       \* path -> the directories above it
          Links,    \* symbolic links: path -> the path they stand for
          Lines,    \* the lines of the files at first; a call adds its number
          Dir, Denied, Absent

ASSUME FilesAssumption ==
  /\ WorkDir \in Paths /\ Up \in [Paths -> SUBSET Paths]
  /\ DOMAIN Links \subseteq Paths /\ \A p \in DOMAIN Links : Links[p] \in Paths

\* Nothing, a directory and what may not be read are three things and no text.
Texts == Seq(Lines \cup Nat)
ASSUME KindsAssumption ==
  /\ Absent # Dir /\ Dir # Denied /\ Denied # Absent
  /\ {Absent, Dir, Denied} \cap Texts = {}

Within(p, top) == p = top \/ top \in Up[p]

\* A path is resolved through links; a relative one may not leave the directory.
Escapes(d, arg) ==
  /\ ~arg.absolute /\ arg.path \in DOMAIN Links
  /\ d[Links[arg.path]] # Absent /\ ~Within(Links[arg.path], WorkDir)
ResolvePath(p) == IF p \in DOMAIN Links THEN Links[p] ELSE p

-----------------------------------------------------------------------------
(* Mounts of a profile [read, write, hidden], each a set of paths *)

MatchesHidden(profile, p) == \E h \in profile.hidden : Within(p, h)
Mounted(d, profile, list) ==
  {p \in list : d[p] # Absent /\ (p = WorkDir \/ ~MatchesHidden(profile, p))}

\* Mounts are made in order, the last one over a path counts: what may be read,
\* what may be written, what is hidden, a file for good and a directory under an
\* empty one.  Elsewhere there is an empty directory that is thrown away.
View(d, profile) ==
  LET over(p, S) == \E m \in S : Within(p, m)
      hidden == {h \in profile.hidden : d[h] # Absent}
  IN [p \in Paths |->
        IF over(p, {h \in hidden : d[h] # Dir}) THEN "denied"
        ELSE IF over(p, hidden) THEN "scratch"
        ELSE IF over(p, Mounted(d, profile, profile.write)) THEN "write"
        ELSE IF over(p, Mounted(d, profile, profile.read)) THEN "read"
        ELSE "scratch"]
Everything == [p \in Paths |-> "write"]

Seen(d, view) ==
  [d |-> [p \in Paths |-> CASE view[p] \in {"write", "read"} -> d[p]
                            [] view[p] = "denied" -> Denied
                            [] view[p] = "scratch" -> Absent],
   view |-> view, ok |-> TRUE]

\* What is left on the tree of an operation under a view.
Left(d, view, s) == [p \in Paths |-> IF view[p] = "write" THEN s.d[p] ELSE d[p]]

-----------------------------------------------------------------------------
(* Operations *)

Fail(s) == [s EXCEPT !.ok = FALSE]
Put(s, p, v) ==
  IF ~s.ok \/ s.view[p] \in {"read", "denied"} THEN Fail(s) ELSE [s EXCEPT !.d[p] = v]
IsText(s, p) == s.d[p] \notin {Absent, Dir, Denied}
Exists(s, p) == s.d[p] # Absent

\* mkdir(parents=True, exist_ok=True)
MakeDirs(s, S) ==
  IF \E p \in S : \/ Exists(s, p) /\ s.d[p] # Dir
                  \/ ~Exists(s, p) /\ s.view[p] \in {"read", "denied"}
  THEN Fail(s)
  ELSE [s EXCEPT !.d = [p \in Paths |-> IF p \in S THEN Dir ELSE @[p]]]

WriteAnyway(s, p, text) ==  \* mutant: a file that exists is written over
  IF s.d[p] = Dir THEN Fail(s) ELSE Put(MakeDirs(s, Up[p]), p, text)
WriteFile(s, p, text) ==
  IF Exists(s, p) THEN Fail(s) ELSE Put(MakeDirs(s, Up[p]), p, text)

\* Each old line is looked for in the text as it is; two edits may not overlap.
FindMatch(text, line) == CHOOSE i \in DOMAIN text : text[i] = line /\ \A j \in 1..(i - 1) : text[j] # line
Found(text, olds) == \A k \in DOMAIN olds : olds[k] \in Range(text)
Overlap(text, olds) ==
  \E j, k \in DOMAIN olds : j # k /\ FindMatch(text, olds[j]) = FindMatch(text, olds[k])
HeadReplaced(text, olds, new) ==  \* mutant: what follows the last edit is left behind
  LET at == {FindMatch(text, olds[k]) : k \in DOMAIN olds}
  IN [i \in {j \in DOMAIN text : \E k \in at : j <= k} |-> IF i \in at THEN new ELSE text[i]]
Replaced(text, olds, new) ==
  LET at == {FindMatch(text, olds[k]) : k \in DOMAIN olds}
  IN [i \in DOMAIN text |-> IF i \in at THEN new ELSE text[i]]
EditFile(s, p, olds, new) ==
  IF ~IsText(s, p) \/ ~Found(s.d[p], olds) \/ Overlap(s.d[p], olds) THEN Fail(s)
  ELSE Put(s, p, Replaced(s.d[p], olds, new))

InsertAtLine(s, p, line, new) ==
  IF ~IsText(s, p) \/ line \notin 1..(Len(s.d[p]) + 1) THEN Fail(s)
  ELSE Put(s, p, InsertAt(s.d[p], line, new))

DeleteFile(s, p) == IF IsText(s, p) THEN Put(s, p, Absent) ELSE Fail(s)
DeleteDir(s, p) ==
  LET below == {q \in Paths : Within(q, p) /\ Exists(s, q)}
  IN IF s.d[p] # Dir \/ \E q \in below : s.view[q] \in {"read", "denied"} THEN Fail(s)
     ELSE [s EXCEPT !.d = [q \in Paths |-> IF q \in below THEN Absent ELSE @[q]]]
CreateDir(s, p) == MakeDirs(s, Up[p] \cup {p})

\* A file goes where the destination says, over the file there; source and
\* destination are not directories here.
MoveFile(s, from, to) ==
  LET made == MakeDirs(s, Up[to])
  IN IF ~made.ok \/ ~IsText(made, from) \/ made.d[to] \in {Dir, Denied} THEN Fail(made)
     ELSE IF from = to THEN made
     ELSE LET put == Put(made, to, made.d[from])
          IN IF put.ok THEN Put(put, from, Absent) ELSE put
\* One move after the other: those before the one that fails stay.
MoveFiles(s, moves) ==
  LET after[n \in 0..Len(moves)] ==
        IF n = 0 THEN s
        ELSE IF after[n - 1].ok THEN MoveFile(after[n - 1], moves[n][1], moves[n][2])
        ELSE after[n - 1]
  IN after[Len(moves)]

\* Tools that look only.
ReadFile(s, p) == IF IsText(s, p) THEN s ELSE Fail(s)
Ls(s, p) == IF Exists(s, p) THEN s ELSE Fail(s)
Glob(s, p) == IF s.d[p] = Dir THEN s ELSE Fail(s)
=============================================================================
