----------------------------- MODULE SkillFiles -----------------------------
(***************************************************************************)
(* build_verified_snapshot_from_files of skills_adapter.py and the reads   *)
(* under it, one system call at a time, over a file system that others     *)
(* change meanwhile: files are written in place, replaced and linked,      *)
(* directories and the root are moved.                                     *)
(*                                                                         *)
(* A file is a sequence of pieces: the first holds the frontmatter's name, *)
(* the others stand for the rest.  Assumed: each change of a file moves    *)
(* its change time (a file system with a coarse clock may not).            *)
(***************************************************************************)
EXTENDS Naturals, FiniteSets, Sequences, Functions

CONSTANTS
  Names,           \* the requested names, in the order of sorted()
  Bare(_),         \* a name without its plugin's prefix
  Paths, Lists,    \* lexical paths; the lists of entries a caller may give
  Dirs, FileIds,   \* directories and files there are, in use or not
  Trees,           \* the file systems there may be at first
  Pieces,          \* contents of a piece of a file
  MaxRaw,          \* MAX_RAW_SKILL_BYTES, in pieces
  MaxTotal,        \* MAX_SNAPSHOT_RAW_BYTES, in pieces
  MaxChanges       \* (bound) changes others make

ASSUME SkillFilesAssumption ==
  /\ MaxRaw \in Nat /\ MaxTotal \in Nat /\ MaxChanges \in Nat
  /\ Names \in Seq(Range(Names))
  /\ Lists \subseteq Seq([name : Range(Names), path : Paths, priority : 0..2])
  /\ Trees \subseteq [dir : [Paths -> Dirs], held : [Dirs -> FileIds],
                      content : [FileIds -> Seq(Pieces)]]

VARIABLES
  dir, held, content, links, stamp, root,    \* the file system
  entries, winner, todo,                     \* the call
  pc, fd, before, data, skills, identities, total,
  changes, shown                             \* bound, history

files  == <<dir, held, content, links, stamp, root>>
caller == <<entries, winner, todo, skills, identities, total>>
vars   == <<files, caller, pc, fd, before, data, changes, shown>>

\* (mutant) The times are left out.
FileIdentityTimeless(f) == <<f, links[f], Len(content[f]), 0>>

\* st_dev and st_ino, st_nlink, st_size, st_mtime_ns and st_ctime_ns.
FileIdentity(f) == <<f, links[f], Len(content[f]), stamp[f]>>

\* A root that was moved away has got another change time.
RootIdentity(r) == IF r = root[1] THEN root ELSE <<r, MaxChanges + 1>>

Closed == [root |-> 0, dir |-> CHOOSE d \in Dirs : TRUE,
           file |-> CHOOSE f \in FileIds : TRUE]

\* What the path being read shows.
At(p) == content[held[dir[p]]]

-----------------------------------------------------------------------------
(* The call.                                                               *)

NoWinners == [n \in {} |-> 0]

Taken(of, e) == [n \in DOMAIN of \cup {e.name} |-> IF n = e.name THEN e ELSE of[n]]

\* (mutant) Of two entries as trusted as each other, the later is taken.
PreferLater(selected, e) ==
  IF e.name \in DOMAIN selected.of /\ selected.of[e.name].priority < e.priority
  THEN selected
  ELSE [selected EXCEPT !.of = Taken(@, e)]

\* One entry: the more trusted one stays; two alike refuse the whole list.
Prefer(selected, e) ==
  LET other == selected.of[e.name]
      known == e.name \in DOMAIN selected.of IN
  IF selected.refused \/ (known /\ other.priority = e.priority)
  THEN [refused |-> TRUE, of |-> selected.of]
  ELSE IF known /\ other.priority < e.priority
  THEN selected
  ELSE [refused |-> FALSE, of |-> Taken(selected.of, e)]

\* What the first n entries amount to.
Selected[n \in 0..Len(entries)] ==
  IF n = 0 THEN [refused |-> FALSE, of |-> NoWinners]
           ELSE Prefer(Selected[n - 1], entries[n])

Select == Selected[Len(entries)]

Init ==
  /\ \E tree \in Trees :
        dir = tree.dir /\ held = tree.held /\ content = tree.content
  /\ links = [f \in FileIds |-> Cardinality({d \in Dirs : held[d] = f})]
  /\ stamp = [f \in FileIds |-> 0] /\ root = <<1, 0>>
  /\ entries \in Lists /\ winner = NoWinners /\ todo = {}
  /\ pc = "select" /\ fd = Closed /\ before = <<>> /\ data = <<>>
  /\ skills = NoWinners /\ identities = {} /\ total = 0
  /\ changes = 0 /\ shown = {}

\* Back to the caller, with a snapshot or with None.
End(p) == /\ pc' = p
          /\ fd' = Closed /\ before' = <<>> /\ data' = <<>> /\ shown' = {}

SelectWinners ==
  /\ pc = "select"
  /\ IF Select.refused
     THEN End("none") /\ UNCHANGED <<winner, todo>>
     ELSE /\ winner' = Select.of /\ todo' = DOMAIN Select.of
          /\ End(IF todo' = {} THEN "built" ELSE "open")
  /\ UNCHANGED <<files, entries, skills, identities, total, changes>>

\* The first one left, in the order of sorted().
Name == Names[CHOOSE i \in DOMAIN Names :
                /\ Names[i] \in todo
                /\ \A j \in DOMAIN Names : Names[j] \in todo => i <= j]

Path == winner[Name].path

\* One more skill of the roster is done with.
Done == /\ todo' = todo \ {Name}
        /\ End(IF todo' = {} THEN "built" ELSE "open")

\* (mutant) A skill that cannot be read is left out.
RefuseSkip ==
  /\ pc \notin {"select", "none", "built"} /\ Done
  /\ UNCHANGED <<files, entries, winner, skills, identities, total, changes>>

\* A file or directory is missing, a link, not regular or not to be read, its
\* text is not what the parser takes, or the roster is not: no snapshot.
Refuse ==
  /\ pc \notin {"select", "none", "built"} /\ End("none")
  /\ UNCHANGED <<files, caller, changes>>

\* _open_target: the walk to the directory, then the file in it.
OpenDirectory ==
  /\ \/ pc = "open" /\ pc' = "openFile" /\ UNCHANGED shown
     \/ pc = "reopen" /\ pc' = "reopenFile" /\ shown' = {At(Path)}
  /\ fd' = [fd EXCEPT !.root = root[1], !.dir = dir[Path]]
  /\ UNCHANGED <<files, caller, before, data, changes>>

OpenFile ==
  /\ \/ pc = "openFile" /\ pc' = "look"
     \/ pc = "reopenFile" /\ pc' = "recheck"
  /\ fd' = [fd EXCEPT !.file = held[fd.dir]]
  /\ UNCHANGED <<files, caller, before, data, changes, shown>>

Identify == <<RootIdentity(fd.root), FileIdentity(fd.file)>>

Look ==
  /\ pc = "look" /\ pc' = "read"
  /\ links[fd.file] = 1 /\ Len(content[fd.file]) <= MaxRaw
  /\ before' = Identify
  /\ UNCHANGED <<files, caller, fd, data, changes, shown>>

\* _read_bounded; more than MaxRaw refuses.
Read ==
  LET f == fd.file IN
  /\ pc = "read"
  /\ \/ /\ Len(data) < Len(content[f]) /\ Len(data) < MaxRaw
        /\ data' = Append(data, content[f][Len(data) + 1])
        /\ UNCHANGED pc
     \/ /\ Len(data) >= Len(content[f])
        /\ pc' = "after" /\ UNCHANGED data
  /\ UNCHANGED <<files, caller, fd, before, changes, shown>>

LookAfter ==
  /\ pc = "after" /\ FileIdentity(fd.file) = before[2] /\ pc' = "reopen"
  /\ UNCHANGED <<files, caller, fd, before, data, changes, shown>>

Skill == [path |-> Path, bytes |-> data, shown |-> shown]

\* The second look, the frontmatter, the identities and the cap.
Accept ==
  /\ pc = "recheck" /\ Identify = before /\ links[fd.file] = 1
  /\ Len(data) >= 2 /\ data[1] \in {Name, Bare(Name)}
  /\ before[2] \notin identities /\ total + Len(data) <= MaxTotal
  /\ skills' = [n \in DOMAIN skills \cup {Name} |->
                  IF n = Name THEN Skill ELSE skills[n]]
  /\ identities' = identities \cup {before[2]} /\ total' = total + Len(data)
  /\ Done /\ UNCHANGED <<files, entries, winner, changes>>

Build == \/ SelectWinners \/ Refuse \/ OpenDirectory \/ OpenFile
         \/ Look \/ Read \/ LookAfter \/ Accept

-----------------------------------------------------------------------------
(* Others.                                                                 *)

Change ==
  /\ changes < MaxChanges /\ changes' = changes + 1
  /\ pc \notin {"select", "none", "built"}
  /\ shown' = IF pc \in {"reopenFile", "recheck"}
              THEN shown \cup {content'[held'[dir'[Path]]]} ELSE shown
  /\ UNCHANGED <<caller, pc, fd, before, data>>

Touch(fs) == stamp' = [f \in FileIds |-> stamp[f] + (IF f \in fs THEN 1 ELSE 0)]

\* A piece is overwritten or appended, or the file is cut off.
Write(f) ==
  /\ \E k \in 1..(MaxRaw + 1), b \in Pieces :
        \/ /\ k <= Len(content[f]) /\ content[f][k] # b
           /\ content' = [content EXCEPT ![f][k] = b]
        \/ /\ k = Len(content[f]) + 1
           /\ content' = [content EXCEPT ![f] = Append(@, b)]
        \/ /\ k <= Len(content[f])
           /\ content' = [content EXCEPT ![f] = SubSeq(@, 1, k - 1)]
  /\ Touch({f}) /\ UNCHANGED <<dir, held, links, root>> /\ Change

\* d's SKILL.md becomes f: moved there from elsewhere, or linked.
Place(d, f) ==
  LET old == held[d] IN
  /\ f # old /\ held' = [held EXCEPT ![d] = f]
  /\ \/ links[f] = 0 /\ links' = [links EXCEPT ![old] = @ - 1, ![f] = 1]
     \/ links[f] > 0 /\ links' = [links EXCEPT ![old] = @ - 1, ![f] = @ + 1]
  /\ Touch({old, f}) /\ UNCHANGED <<dir, content, root>> /\ Change

\* Another directory comes to stand at a path: somewhere below the root, right
\* in it, or because the root itself was replaced.
MoveDirectory(p, d) ==
  /\ d \notin {dir[q] : q \in Paths} /\ dir' = [dir EXCEPT ![p] = d]
  /\ root' \in {root, [root EXCEPT ![2] = @ + 1], <<root[1] + 1, 0>>}
  /\ UNCHANGED <<held, content, links, stamp>> /\ Change

Next == \/ Build
        \/ \E f \in FileIds : Write(f)
        \/ \E d \in Dirs, f \in FileIds : Place(d, f)
        \/ \E p \in Paths, d \in Dirs : MoveDirectory(p, d)

Spec == Init /\ [][Next]_vars

-----------------------------------------------------------------------------
(* Properties.                                                             *)

\* A descriptor never mixes two versions of a file, and is not about a file
\* that has gone from its path: its bytes are, all together, what the path
\* showed at some instant of the second look.
BytesWereThere == \A n \in DOMAIN skills : skills[n].bytes \in skills[n].shown

\* "A broken or quarantined winner never falls back to a lower-priority
\* shadow": a snapshot has a skill for every name of the list, each read at the
\* path of the one entry that is more trusted than all others of its name.
OnlyWinners ==
  pc = "built" =>
    \A i \in DOMAIN entries :
      LET rivals == {j \in DOMAIN entries : entries[j].name = entries[i].name} IN
      /\ entries[i].name \in DOMAIN skills
      /\ \E w \in rivals :
           /\ skills[entries[w].name].path = entries[w].path
           /\ \A j \in rivals \ {w} : entries[w].priority < entries[j].priority
=============================================================================
