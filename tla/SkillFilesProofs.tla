-------------------------- MODULE SkillFilesProofs --------------------------
(***************************************************************************)
(* A skill descriptor is one version of a file that was at its path, for   *)
(* every file system and however many changes others make to it, and a     *)
(* snapshot has the most trusted entry of every name and no other, for     *)
(* every list of entries.                                                  *)
(***************************************************************************)
EXTENDS SkillFiles, SequenceTheorems, NaturalsInduction,
        WellFoundedInduction, TLAPS

-----------------------------------------------------------------------------
(* Which entries are taken.                                                *)

Entry == [name : Range(Names), path : Paths, priority : 0..2]

\* A set of natural numbers that is not empty has a least element.
LEMMA Least ==
  ASSUME NEW S \in SUBSET Nat, S # {}
  PROVE  \E x \in S : \A y \in S : x <= y
<1>1. \E x \in S : \A y \in S : <<y, x>> \notin OpToRel(<, Nat)
  BY WFMin, NatLessThanWellFounded, Zenon
<1>2. \E x \in S : \A y \in S : ~(y < x)
  BY <1>1, Zenon DEF OpToRel
<1> QED BY <1>2

\* g is what the loop over the entries has after each of the first k.
IsLoop(g, k) ==
  g = [n \in 0..k |-> IF n = 0 THEN [refused |-> FALSE, of |-> NoWinners]
                               ELSE Prefer(g[n - 1], entries[n])]

\* The loop is defined, by adding one entry after another.
LEMMA LoopExists ==
  ASSUME entries \in Seq(Entry) PROVE \E g : IsLoop(g, Len(entries))
<1> DEFINE Bad == {k \in Nat : ~\E g : IsLoop(g, k)}
<1> SUFFICES ASSUME Bad # {} PROVE FALSE
  <2>1. Len(entries) \in Nat
    OBVIOUS
  <2> QED BY <2>1
<1>1. PICK k \in Bad : \A j \in Bad : k <= j
  BY Least
<1>2. k # 0
  <2>1. IsLoop([n \in 0..0 |-> [refused |-> FALSE, of |-> NoWinners]], 0)
    BY DEF IsLoop
  <2> QED BY <2>1
<1>3. PICK g : IsLoop(g, k - 1)
  <2>1. k - 1 \in Nat /\ k - 1 \notin Bad
    BY <1>1, <1>2
  <2> QED BY <2>1
<1> DEFINE h == [n \in 0..k |-> IF n = k THEN Prefer(g[k - 1], entries[k]) ELSE g[n]]
<1>4. IsLoop(h, k)
  <2>1. \A n \in 0..(k - 1) :
          g[n] = IF n = 0 THEN [refused |-> FALSE, of |-> NoWinners]
                          ELSE Prefer(g[n - 1], entries[n])
    BY <1>3 DEF IsLoop
  <2>2. \A n \in 0..(k - 1) : h[n] = g[n]
    BY <1>1
  <2>3. h[k] = Prefer(h[k - 1], entries[k])
    BY <1>1, <1>2, <2>2
  <2>4. ASSUME NEW n \in 0..k, n # k
        PROVE  h[n] = IF n = 0 THEN [refused |-> FALSE, of |-> NoWinners]
                               ELSE Prefer(h[n - 1], entries[n])
    <3>1. n \in 0..(k - 1) /\ (n # 0 => n - 1 \in 0..(k - 1))
      BY <1>1, <2>4
    <3> HIDE DEF h
    <3> QED BY <2>1, <2>2, <3>1
  <2>5. \A n \in 0..k : h[n] = IF n = 0 THEN [refused |-> FALSE, of |-> NoWinners]
                               ELSE Prefer(h[n - 1], entries[n])
    <3> HIDE DEF h
    <3> QED BY <1>2, <2>3, <2>4
  <2>6. h = [n \in 0..k |-> h[n]]
    OBVIOUS
  <2> HIDE DEF h
  <2> QED BY <2>5, <2>6 DEF IsLoop
<1> QED BY <1>1, <1>4

LEMMA SelectedUnfolds ==
  ASSUME entries \in Seq(Entry)
  PROVE  /\ Selected[0] = [refused |-> FALSE, of |-> NoWinners]
         /\ \A n \in 1..Len(entries) : Selected[n] = Prefer(Selected[n - 1], entries[n])
<1>1. Selected = CHOOSE g : IsLoop(g, Len(entries))
  BY DEF Selected, IsLoop
<1>2. IsLoop(Selected, Len(entries))
  BY <1>1, LoopExists
<1>3. \A n \in 0..Len(entries) :
        Selected[n] = IF n = 0 THEN [refused |-> FALSE, of |-> NoWinners]
                      ELSE Prefer(Selected[n - 1], entries[n])
  BY <1>2 DEF IsLoop
<1>4. 0 \in 0..Len(entries) /\ \A n \in 1..Len(entries) : n \in 0..Len(entries) /\ n # 0
  OBVIOUS
<1> QED BY <1>3, <1>4, Zenon

\* Of one name, w is more trusted than all others among the first n entries.
MostTrusted(w, n) ==
  \A j \in 1..n : j # w /\ entries[j].name = entries[w].name
                  => entries[w].priority < entries[j].priority

\* What is taken after n entries are the most trusted of each name there is.
Fair(of, n) ==
  /\ \A i \in 1..n : entries[i].name \in DOMAIN of
  /\ \A m \in DOMAIN of :
       \E w \in 1..n : of[m] = entries[w] /\ entries[w].name = m /\ MostTrusted(w, n)

Taking(of) == [refused |-> FALSE, of |-> of]

LEMMA PreferCases ==
  ASSUME NEW of, NEW e,
         e.name \in DOMAIN of => of[e.name].priority \in Nat /\ e.priority \in Nat
  PROVE  \/ Prefer(Taking(of), e) = [refused |-> TRUE, of |-> of]
         \/ /\ e.name \in DOMAIN of /\ of[e.name].priority < e.priority
            /\ Prefer(Taking(of), e) = Taking(of)
         \/ /\ e.name \in DOMAIN of => e.priority < of[e.name].priority
            /\ Prefer(Taking(of), e) = Taking(Taken(of, e))
<1>1. Taking(of).refused = FALSE /\ Taking(of).of = of
  BY DEF Taking
<1>4. CASE e.name \notin DOMAIN of
  BY <1>1, <1>4 DEF Prefer, Taking
<1>5. CASE e.name \in DOMAIN of
  <2> DEFINE p == of[e.name].priority
             q == e.priority
  <2>1. p \in Nat /\ q \in Nat
    BY <1>5
  <2>2. p = q \/ p < q \/ q < p
    BY <2>1
  <2>3. p < q => p # q
    BY <2>1
  <2>4. q < p => p # q /\ ~(p < q)
    BY <2>1
  <2> QED BY <1>1, <1>5, <2>2, <2>3, <2>4 DEF Prefer, Taking
<1> QED BY <1>4, <1>5

LEMMA PreferKeepsFair ==
  ASSUME entries \in Seq(Entry), NEW n \in 1..Len(entries), NEW of, Fair(of, n - 1)
  PROVE  \/ Prefer(Taking(of), entries[n]) = [refused |-> TRUE, of |-> of]
         \/ \E next : /\ Prefer(Taking(of), entries[n]) = Taking(next)
                      /\ Fair(next, n)
<1> DEFINE e == entries[n]
           next == Taken(of, e)
<1>1. /\ n \in Nat /\ n >= 1 /\ n - 1 \in Nat
      /\ \A i \in 1..n : i = n \/ i \in 1..(n - 1)
      /\ 1..(n - 1) \subseteq 1..n /\ n \in 1..n /\ n \notin 1..(n - 1)
  OBVIOUS
<1>2. \A i \in 1..n : entries[i] \in Entry
  BY <1>1
<1>3. \A i \in 1..n : entries[i].priority \in Nat
  BY <1>2 DEF Entry
<1>4. e.name \in DOMAIN of => of[e.name].priority \in Nat /\ e.priority \in Nat
  BY <1>1, <1>3 DEF Fair
<1>5. ASSUME e.name \in DOMAIN of, of[e.name].priority < e.priority
      PROVE  Fair(of, n)
  <2>1. ASSUME NEW m \in DOMAIN of
        PROVE  \E w \in 1..n : of[m] = entries[w] /\ entries[w].name = m /\ MostTrusted(w, n)
    <3>1. PICK w \in 1..(n - 1) : of[m] = entries[w] /\ entries[w].name = m
                                 /\ MostTrusted(w, n - 1)
      BY DEF Fair
    <3>2. MostTrusted(w, n)
      BY <1>1, <1>5, <3>1 DEF MostTrusted
    <3> QED BY <1>1, <3>1, <3>2
  <2>2. \A i \in 1..n : entries[i].name \in DOMAIN of
    BY <1>1, <1>5 DEF Fair
  <2> QED BY <2>1, <2>2 DEF Fair
<1>6. ASSUME e.name \in DOMAIN of => e.priority < of[e.name].priority
      PROVE  Fair(next, n)
  <2>1. DOMAIN next = DOMAIN of \cup {e.name} /\ next[e.name] = e
        /\ \A m \in DOMAIN of : m # e.name => next[m] = of[m]
    BY DEF Taken
  <2>2. MostTrusted(n, n)
    <3> SUFFICES ASSUME NEW j \in 1..(n - 1), entries[j].name = e.name
                 PROVE  e.priority < entries[j].priority
      BY <1>1 DEF MostTrusted
    <3>1. e.name \in DOMAIN of /\ e.priority < of[e.name].priority
      BY <1>6 DEF Fair
    <3>2. PICK w \in 1..(n - 1) : of[e.name] = entries[w] /\ entries[w].name = e.name
                                 /\ MostTrusted(w, n - 1)
      BY <3>1 DEF Fair
    <3>3. w = j \/ entries[w].priority < entries[j].priority
      BY <3>2 DEF MostTrusted
    <3>4. /\ e.priority \in Nat /\ entries[w].priority \in Nat
          /\ entries[j].priority \in Nat
      BY <1>1, <1>3
    <3> QED BY <3>1, <3>2, <3>3, <3>4
  <2>3. ASSUME NEW m \in DOMAIN of, m # e.name
        PROVE  \E w \in 1..n : of[m] = entries[w] /\ entries[w].name = m /\ MostTrusted(w, n)
    <3>1. PICK w \in 1..(n - 1) : of[m] = entries[w] /\ entries[w].name = m
                                 /\ MostTrusted(w, n - 1)
      BY DEF Fair
    <3>2. MostTrusted(w, n)
      BY <1>1, <2>3, <3>1 DEF MostTrusted
    <3> QED BY <1>1, <3>1, <3>2
  <2>4. \A i \in 1..n : entries[i].name \in DOMAIN next
    BY <1>1, <2>1 DEF Fair
  <2>5. ASSUME NEW m \in DOMAIN next
        PROVE  \E w \in 1..n : next[m] = entries[w] /\ entries[w].name = m /\ MostTrusted(w, n)
    <3>1. CASE m = e.name
      BY <1>1, <2>1, <2>2, <3>1
    <3>2. CASE m # e.name
      BY <2>1, <2>3, <3>2
    <3> QED BY <3>1, <3>2
  <2> HIDE DEF next
  <2> QED BY <2>4, <2>5 DEF Fair
<1> HIDE DEF next
<1> QED BY <1>4, <1>5, <1>6, PreferCases DEF next

\* Once refused, the list stays refused; a list that is not was never.
LEMMA SelectionIsFair ==
  ASSUME entries \in Seq(Entry)
  PROVE  Select.refused = TRUE \/ \E of : Select = Taking(of) /\ Fair(of, Len(entries))
<1> DEFINE Good(n) == \/ Selected[n].refused = TRUE
                      \/ \E of : Selected[n] = Taking(of) /\ Fair(of, n)
           Bad == {n \in 0..Len(entries) : ~Good(n)}
<1>1. Len(entries) \in Nat /\ Len(entries) \in 0..Len(entries)
  OBVIOUS
<1>2. Good(0)
  <2>1. Fair(NoWinners, 0)
    BY DEF Fair, NoWinners
  <2> QED BY <2>1, SelectedUnfolds DEF Taking
<1>3. ASSUME NEW n \in 1..Len(entries), Good(n - 1) PROVE Good(n)
  <2>1. Selected[n] = Prefer(Selected[n - 1], entries[n])
    BY SelectedUnfolds
  <2>2. CASE Selected[n - 1].refused = TRUE
    <3> QED BY <2>1, <2>2 DEF Prefer
  <2>3. CASE \E of : Selected[n - 1] = Taking(of) /\ Fair(of, n - 1)
    <3>1. PICK of : Selected[n - 1] = Taking(of) /\ Fair(of, n - 1)
      BY <2>3
    <3>2. \/ Prefer(Taking(of), entries[n]) = [refused |-> TRUE, of |-> of]
          \/ \E next : Prefer(Taking(of), entries[n]) = Taking(next) /\ Fair(next, n)
      BY <3>1, PreferKeepsFair
    <3>3. Selected[n] = Prefer(Taking(of), entries[n])
      BY <2>1, <3>1
    <3>4. [refused |-> TRUE, of |-> of].refused = TRUE
      OBVIOUS
    <3> QED BY <3>2, <3>3, <3>4, Zenon
  <2> QED BY <1>3, <2>2, <2>3
<1> HIDE DEF Good
<1>4. Bad = {}
  <2> SUFFICES ASSUME Bad # {} PROVE FALSE
    OBVIOUS
  <2>1. PICK n \in Bad : \A k \in Bad : n <= k
    <3>1. Bad \in SUBSET Nat
      OBVIOUS
    <3> HIDE DEF Bad
    <3> QED BY <3>1, Least
  <2>2. n # 0
    BY <1>2, <2>1
  <2>3. n \in 1..Len(entries) /\ n - 1 \in 0..Len(entries) /\ ~(n <= n - 1)
    BY <1>1, <2>1, <2>2
  <2>4. Good(n - 1)
    BY <2>1, <2>3
  <2> QED BY <1>3, <2>1, <2>3, <2>4
<1>5. Good(Len(entries))
  BY <1>1, <1>4
<1> QED BY <1>5 DEF Select, Good

-----------------------------------------------------------------------------
(* The invariant.                                                          *)

FileTypes ==
  /\ dir \in [Paths -> Dirs] /\ held \in [Dirs -> FileIds]
  /\ content \in [FileIds -> Seq(Pieces)] /\ stamp \in [FileIds -> Nat]

Looking == {"read", "after", "reopen", "reopenFile", "recheck"}

CallTypes ==
  /\ fd = [root |-> fd.root, dir |-> fd.dir, file |-> fd.file]
  /\ pc \in {"openFile", "reopenFile"} => fd.dir \in Dirs
  /\ pc \in {"look", "read", "after", "reopen", "recheck"} => fd.file \in FileIds
  /\ pc \in {"select", "open", "openFile", "look"} => data = <<>>
  /\ pc \in Looking => data \in Seq(Pieces)

\* The file that was identified first, and its change time then.
First == before[2][1]
Then  == before[2][4]

Unchanged == stamp[First] = Then

\* While the file that is read is as it was when it was identified, what was
\* read of it is its content; the second look has seen it if it is still there.
Faithful ==
  /\ pc \in Looking => First \in FileIds /\ Then \in Nat /\ Then <= stamp[First]
  /\ pc \in {"read", "after", "reopen"} => fd.file = First
  /\ pc = "read" /\ Unchanged =>
       /\ Len(data) <= Len(content[First])
       /\ \A i \in 1..Len(data) : data[i] = content[First][i]
  /\ pc \in {"after", "reopen", "reopenFile", "recheck"} /\ Unchanged =>
       data = content[First]
  /\ pc = "reopenFile" /\ Unchanged /\ held[fd.dir] = First => data \in shown
  /\ pc = "recheck" /\ Unchanged /\ fd.file = First => data \in shown

\* The winners are those of the whole list; each is read or still to be read.
Chosen ==
  /\ entries \in Seq(Entry)
  /\ pc = "select" => DOMAIN skills = {}
  /\ pc \notin {"select", "none"} =>
       /\ Fair(winner, Len(entries))
       /\ DOMAIN skills \cup todo = DOMAIN winner
       /\ \A m \in DOMAIN skills : skills[m].path = winner[m].path
  /\ pc \notin {"select", "none"} => (pc = "built" <=> todo = {})

IInv == FileTypes /\ CallTypes /\ Chosen /\ Faithful /\ BytesWereThere

\* While a skill is left to read there is a first one, and its path is known.
LEMMA NameIsLeft ==
  ASSUME Chosen, pc \notin {"select", "none", "built"}
  PROVE  Name \in todo /\ Path \in Paths
<1> DEFINE Places == {i \in DOMAIN Names : Names[i] \in todo}
<1>1. ASSUME NEW m \in DOMAIN winner
      PROVE  m \in Range(Names) /\ winner[m].path \in Paths
  <2>1. PICK w \in 1..Len(entries) : winner[m] = entries[w] /\ entries[w].name = m
    BY DEF Chosen, Fair
  <2>2. entries[w] \in Entry
    BY DEF Chosen
  <2> QED BY <2>1, <2>2 DEF Entry
<1>2. todo \subseteq DOMAIN winner /\ todo # {}
  BY DEF Chosen
<1>3. Places # {} /\ Places \in SUBSET Nat
  BY <1>1, <1>2, SkillFilesAssumption DEF Range
<1>4. \E i \in Places : \A j \in Places : i <= j
  <2> HIDE DEF Places
  <2> QED BY <1>3, Least
<1>5. \E i \in DOMAIN Names :
        /\ Names[i] \in todo
        /\ \A j \in DOMAIN Names : Names[j] \in todo => i <= j
  BY <1>4
<1>6. Name \in todo
  BY <1>5 DEF Name
<1> QED BY <1>1, <1>2, <1>6 DEF Path

LEMMA InitIInv == Init => IInv
<1> SUFFICES ASSUME Init PROVE IInv
  OBVIOUS
<1>1. FileTypes
  BY SkillFilesAssumption DEF Init, FileTypes
<1>2. CallTypes /\ Faithful
  BY DEF Init, CallTypes, Faithful, Looking, Closed
<1>3. BytesWereThere
  BY DEF Init, BytesWereThere, NoWinners
<1>4. Chosen
  BY SkillFilesAssumption DEF Init, Chosen, Entry, NoWinners
<1> QED BY <1>1, <1>2, <1>3, <1>4 DEF IInv

-----------------------------------------------------------------------------
(* The call.                                                               *)

LEMMA ChosenSteps ==
  ASSUME IInv, Build PROVE Chosen'
<1>1. CASE SelectWinners
  <2>1. CASE Select.refused
    BY <1>1, <2>1 DEF SelectWinners, End, IInv, Chosen
  <2>2. CASE ~Select.refused
    <3>1. PICK of : Select = Taking(of) /\ Fair(of, Len(entries))
      BY <2>2, SelectionIsFair DEF IInv, Chosen
    <3>2. Select.of = of
      BY <3>1 DEF Taking
    <3>3. /\ pc = "select" /\ winner' = of /\ todo' = DOMAIN of
          /\ pc' = (IF todo' = {} THEN "built" ELSE "open")
          /\ UNCHANGED <<entries, skills>>
      BY <1>1, <2>2, <3>2 DEF SelectWinners, End
    <3> QED BY <3>1, <3>3 DEF IInv, Chosen, Fair, MostTrusted
  <2> QED BY <2>1, <2>2
<1>2. CASE Accept
  <2>1. pc = "recheck" /\ Name \in todo
    BY <1>2, NameIsLeft DEF Accept, IInv
  <2>2. /\ skills' = [n \in DOMAIN skills \cup {Name} |->
                       IF n = Name THEN Skill ELSE skills[n]]
        /\ Skill.path = winner[Name].path
        /\ todo' = todo \ {Name} /\ pc' = (IF todo' = {} THEN "built" ELSE "open")
        /\ UNCHANGED <<entries, winner>>
    BY <1>2 DEF Accept, Skill, Path, Done, End
  <2>3. Fair(winner, Len(entries))'
    BY <2>1, <2>2 DEF IInv, Chosen, Fair, MostTrusted
  <2> QED BY <2>1, <2>2, <2>3 DEF IInv, Chosen
<1>3. CASE \/ Refuse \/ OpenDirectory \/ OpenFile \/ Look \/ Read \/ LookAfter
  <2>1. /\ UNCHANGED <<entries, winner, todo, skills>>
        /\ pc' = "none" \/ (pc \notin {"select", "none", "built"}
                            /\ pc' \notin {"select", "none", "built"})
    BY <1>3 DEF Refuse, End, OpenDirectory, OpenFile, Look, Read, LookAfter, caller
  <2> QED BY <2>1 DEF IInv, Chosen, Fair, MostTrusted
<1> QED BY <1>1, <1>2, <1>3 DEF Build

LEMMA BuildSteps ==
  ASSUME IInv, Build PROVE IInv'
<1> USE DEF IInv
<1>0. Chosen'
  BY ChosenSteps
<1>1. CASE SelectWinners
  <2>1. /\ UNCHANGED files /\ UNCHANGED skills
        /\ pc' \in {"none", "built", "open"} /\ fd' = Closed /\ data' = <<>>
    BY <1>1 DEF SelectWinners, End
  <2> QED BY <1>0, <2>1
      DEF FileTypes, CallTypes, Faithful, Looking, BytesWereThere, files, Closed
<1>2. CASE Refuse
  BY <1>0, <1>2 DEF Refuse, End, FileTypes, CallTypes, Faithful, Looking, BytesWereThere, files,
              caller, Closed
<1>3. CASE OpenDirectory
  <2>1. Path \in Paths /\ fd' = [fd EXCEPT !.root = root[1], !.dir = dir[Path]]
    BY <1>3, NameIsLeft DEF OpenDirectory
  <2>2. fd'.dir = dir[Path] /\ fd'.dir \in Dirs /\ fd'.file = fd.file
        /\ fd' = [root |-> fd'.root, dir |-> fd'.dir, file |-> fd'.file]
    BY <2>1 DEF FileTypes, CallTypes
  <2>3. UNCHANGED <<files, skills, before, data>>
    BY <1>3 DEF OpenDirectory, caller
  <2>4. CASE pc = "open" /\ pc' = "openFile" /\ UNCHANGED shown
    BY <1>0, <2>2, <2>3, <2>4
    DEF FileTypes, CallTypes, Faithful, Looking, BytesWereThere, files
  <2>5. CASE pc = "reopen" /\ pc' = "reopenFile" /\ shown' = {At(Path)}
    <3>1. FileTypes' /\ CallTypes' /\ BytesWereThere'
      BY <2>2, <2>3, <2>5 DEF FileTypes, CallTypes, Looking, BytesWereThere, files
    <3>2. Unchanged /\ held[fd'.dir] = First => data \in shown'
      BY <2>2, <2>5 DEF Faithful, At
    <3>3. Faithful'
      BY <2>2, <2>3, <2>5, <3>2 DEF Faithful, Looking, files, First, Then, Unchanged
    <3> QED BY <1>0, <3>1, <3>3
  <2> QED BY <1>3, <2>4, <2>5 DEF OpenDirectory
<1>4. CASE OpenFile
  <2>1. /\ fd' = [fd EXCEPT !.file = held[fd.dir]] /\ fd.dir \in Dirs
        /\ UNCHANGED <<files, skills, before, data, shown>>
    BY <1>4 DEF OpenFile, caller, CallTypes
  <2>2. /\ fd'.file = held[fd.dir] /\ fd'.file \in FileIds
        /\ fd' = [root |-> fd'.root, dir |-> fd'.dir, file |-> fd'.file]
    BY <2>1 DEF FileTypes, CallTypes
  <2>3. FileTypes' /\ CallTypes' /\ BytesWereThere'
    BY <1>4, <2>1, <2>2 DEF OpenFile, FileTypes, CallTypes, Looking, BytesWereThere, files
  <2>4. Faithful'
    BY <1>4, <2>1, <2>2 DEF OpenFile, Faithful, Looking, files, First, Then, Unchanged
  <2> QED BY <1>0, <2>3, <2>4
<1>5. CASE Look
  <2>1. /\ pc = "look" /\ pc' = "read" /\ before' = Identify /\ fd.file \in FileIds
        /\ data = <<>> /\ UNCHANGED <<files, skills, fd, data, shown>>
    BY <1>5 DEF Look, caller, CallTypes
  <2>2. First' = fd.file /\ Then' = stamp[fd.file]
    BY <2>1 DEF First, Then, Identify, FileIdentity
  <2>3. FileTypes' /\ CallTypes' /\ BytesWereThere'
    BY <2>1 DEF FileTypes, CallTypes, Looking, BytesWereThere, files
  <2>4. Faithful'
    BY <2>1, <2>2 DEF FileTypes, Faithful, Looking, files
  <2> QED BY <1>0, <2>3, <2>4
<1>6. CASE Read
  <2>1. /\ pc = "read" /\ fd.file = First /\ First \in FileIds /\ data \in Seq(Pieces)
        /\ content[First] \in Seq(Pieces)
        /\ UNCHANGED <<files, skills, fd, before, shown>>
    BY <1>6 DEF Read, caller, FileTypes, CallTypes, Faithful, Looking
  <2>2. CASE /\ Len(data) < Len(content[First])
             /\ data' = Append(data, content[First][Len(data) + 1]) /\ UNCHANGED pc
    <3>1. data' \in Seq(Pieces) /\ Len(data') = Len(data) + 1
      BY <2>1, <2>2
    <3>2. ASSUME Unchanged, NEW i \in 1..Len(data')
          PROVE  data'[i] = content[First][i]
      BY <2>1, <2>2, <3>1, <3>2 DEF Faithful
    <3>3. FileTypes' /\ CallTypes' /\ BytesWereThere'
      BY <2>1, <2>2, <3>1 DEF FileTypes, CallTypes, Looking, BytesWereThere, files
    <3>4. Faithful'
      BY <2>1, <2>2, <3>1, <3>2 DEF Faithful, Looking, files, First, Then, Unchanged
    <3> QED BY <1>0, <3>3, <3>4
  <2>3. CASE Len(data) >= Len(content[First]) /\ pc' = "after" /\ UNCHANGED data
    <3>1. Unchanged => data = content[First]
      <4> SUFFICES ASSUME Unchanged PROVE data = content[First]
        OBVIOUS
      <4>1. Len(data) = Len(content[First])
            /\ \A i \in 1..Len(data) : data[i] = content[First][i]
        BY <2>1, <2>3 DEF Faithful
      <4> QED BY <2>1, <4>1
    <3>2. FileTypes' /\ CallTypes' /\ BytesWereThere'
      BY <2>1, <2>3 DEF FileTypes, CallTypes, Looking, BytesWereThere, files
    <3>3. Faithful'
      BY <2>1, <2>3, <3>1 DEF Faithful, Looking, files, First, Then, Unchanged
    <3> QED BY <1>0, <3>2, <3>3
  <2> QED BY <1>6, <2>1, <2>2, <2>3 DEF Read
<1>7. CASE LookAfter
  <2>1. FileTypes' /\ CallTypes' /\ BytesWereThere'
    BY <1>7 DEF LookAfter, FileTypes, CallTypes, Looking, BytesWereThere, files, caller
  <2>2. Faithful'
    BY <1>7 DEF LookAfter, Faithful, Looking, files, First, Then, Unchanged
  <2> QED BY <1>0, <2>1, <2>2
<1>8. CASE Accept
  <2>1. FileIdentity(fd.file) = before[2]
    BY <1>8 DEF Accept, Identify
  <2>2. fd.file = First /\ Unchanged
    BY <2>1 DEF FileIdentity, First, Then, Unchanged
  <2>3. data \in shown
    BY <1>8, <2>2 DEF Accept, Faithful
  <2>4. /\ skills' = [n \in DOMAIN skills \cup {Name} |->
                       IF n = Name THEN Skill ELSE skills[n]]
        /\ Skill.bytes \in Skill.shown
    BY <1>8, <2>3 DEF Accept, Skill
  <2>5. BytesWereThere'
    BY <2>4 DEF BytesWereThere
  <2>6. FileTypes' /\ CallTypes' /\ Faithful'
    BY <1>8 DEF Accept, Done, End, FileTypes, CallTypes, Faithful, Looking, files, Closed
  <2> QED BY <1>0, <2>5, <2>6
<1> QED BY <1>1, <1>2, <1>3, <1>4, <1>5, <1>6, <1>7, <1>8 DEF Build

-----------------------------------------------------------------------------
(* Others.                                                                 *)

\* What a change may do to the file being read: nothing, or move its time.
LEMMA ChangeFrame ==
  ASSUME IInv, Change, FileTypes',
         \A f \in FileIds : stamp'[f] >= stamp[f],
         \A f \in FileIds : stamp'[f] = stamp[f] =>
           /\ content'[f] = content[f]
           /\ \A d \in Dirs : held'[d] = f => held[d] = f
  PROVE  IInv'
<1>1. UNCHANGED <<skills, pc, fd, before, data>> /\ shown \subseteq shown'
  <2>1. UNCHANGED <<skills, pc, fd, before, data>>
    BY DEF Change, caller
  <2>2. shown \subseteq shown'
    BY DEF Change
  <2> QED BY <2>1, <2>2
<1>2. CallTypes' /\ BytesWereThere'
  BY <1>1 DEF IInv, CallTypes, Looking, BytesWereThere
<1>6. Chosen'
  BY DEF Change, caller, IInv, Chosen, Fair, MostTrusted
<1>3. First' = First /\ Then' = Then
  BY <1>1 DEF First, Then
<1>4. pc \in Looking => First \in FileIds /\ Then \in Nat /\ Then <= stamp[First]
                        /\ Then <= stamp'[First] /\ (Unchanged' => Unchanged)
                        /\ (Unchanged' => stamp'[First] = stamp[First])
  BY <1>3 DEF IInv, FileTypes, Faithful, Unchanged
<1>5. Faithful'
  BY <1>1, <1>3, <1>4 DEF IInv, CallTypes, Faithful, Looking
<1> QED BY <1>2, <1>5, <1>6 DEF IInv

LEMMA WriteSteps ==
  ASSUME IInv, NEW f \in FileIds, Write(f) PROVE IInv'
<1>1. /\ stamp' = [g \in FileIds |-> stamp[g] + (IF g \in {f} THEN 1 ELSE 0)]
      /\ UNCHANGED <<dir, held>> /\ Change
  BY DEF Write, Touch
<1>2. PICK k \in 1..(MaxRaw + 1), b \in Pieces :
        \/ k <= Len(content[f]) /\ content' = [content EXCEPT ![f][k] = b]
        \/ content' = [content EXCEPT ![f] = Append(@, b)]
        \/ k <= Len(content[f]) /\ content' = [content EXCEPT ![f] = SubSeq(@, 1, k - 1)]
  BY DEF Write
<1>3. content[f] \in Seq(Pieces) /\ k \in Nat /\ k >= 1
  BY SkillFilesAssumption DEF IInv, FileTypes
<1>4. content' \in [FileIds -> Seq(Pieces)]
      /\ \A g \in FileIds \ {f} : content'[g] = content[g]
  <2>1. PICK s \in Seq(Pieces) : content' = [content EXCEPT ![f] = s]
    <3>1. CASE k <= Len(content[f]) /\ content' = [content EXCEPT ![f][k] = b]
      <4>1. [content[f] EXCEPT ![k] = b] \in [1..Len(content[f]) -> Pieces]
        BY <1>3, <3>1
      <4>2. [content[f] EXCEPT ![k] = b] \in Seq(Pieces)
        BY <1>3, <4>1, SeqDef
      <4> QED BY <3>1, <4>2
    <3>2. CASE content' = [content EXCEPT ![f] = Append(@, b)]
      <4>1. Append(content[f], b) \in Seq(Pieces)
        BY <1>3
      <4> QED BY <3>2, <4>1
    <3>3. CASE /\ k <= Len(content[f])
               /\ content' = [content EXCEPT ![f] = SubSeq(@, 1, k - 1)]
      <4>1. SubSeq(content[f], 1, k - 1) \in Seq(Pieces)
        BY <1>3, <3>3
      <4> QED BY <3>3, <4>1
    <3> QED BY <1>2, <3>1, <3>2, <3>3
  <2> QED BY <2>1 DEF IInv, FileTypes
<1>5. FileTypes' /\ \A g \in FileIds : stamp'[g] >= stamp[g]
  BY <1>1, <1>4 DEF IInv, FileTypes
<1>6. \A g \in FileIds : stamp'[g] = stamp[g] => content'[g] = content[g]
  BY <1>1, <1>4 DEF IInv, FileTypes
<1> QED BY <1>1, <1>5, <1>6, ChangeFrame

LEMMA PlaceSteps ==
  ASSUME IInv, NEW d \in Dirs, NEW f \in FileIds, Place(d, f) PROVE IInv'
<1>1. /\ held' = [held EXCEPT ![d] = f] /\ held[d] \in FileIds
      /\ stamp' = [g \in FileIds |-> stamp[g] + (IF g \in {held[d], f} THEN 1 ELSE 0)]
      /\ UNCHANGED <<dir, content>> /\ Change
  BY DEF Place, Touch, IInv, FileTypes
<1>2. FileTypes' /\ \A g \in FileIds : stamp'[g] >= stamp[g]
  BY <1>1 DEF IInv, FileTypes
<1>3. \A g \in FileIds : stamp'[g] = stamp[g] => \A e \in Dirs : held'[e] = g => held[e] = g
  BY <1>1 DEF IInv, FileTypes
<1> QED BY <1>1, <1>2, <1>3, ChangeFrame

LEMMA MoveSteps ==
  ASSUME IInv, NEW p \in Paths, NEW d \in Dirs, MoveDirectory(p, d) PROVE IInv'
<1>1. /\ dir' = [dir EXCEPT ![p] = d] /\ UNCHANGED <<held, content, stamp>> /\ Change
  BY DEF MoveDirectory
<1>2. FileTypes' /\ \A g \in FileIds : stamp'[g] >= stamp[g]
  BY <1>1 DEF IInv, FileTypes
<1> QED BY <1>1, <1>2, ChangeFrame

-----------------------------------------------------------------------------
(* The theorems.                                                           *)

\* A reader's system calls and the others' changes keep what was read the
\* content of the file that was identified, as long as its identity is the same
\* (skills_adapter.py, _read_bounded and the two looks around it).
THEOREM Inductive == IInv /\ [Next]_vars => IInv'
<1> SUFFICES ASSUME IInv, [Next]_vars PROVE IInv'
  OBVIOUS
<1>1. CASE UNCHANGED vars
  BY <1>1 DEF vars, files, caller, IInv, FileTypes, CallTypes, Faithful, Looking, First,
              Then, Unchanged, BytesWereThere, Chosen, Fair, MostTrusted
<1> QED BY <1>1, BuildSteps, WriteSteps, PlaceSteps, MoveSteps DEF Next

\* A descriptor is one version of a file, which was at its path at an instant
\* of the second look.
THEOREM DescriptorsAreWhole == Spec => []BytesWereThere
<1>1. IInv => BytesWereThere
  BY DEF IInv
<1> QED BY <1>1, InitIInv, Inductive, PTL DEF Spec

\* For every list of entries, a snapshot has a skill for every name, read at the
\* path of the one entry that is more trusted than all others of that name: a
\* broken or refused winner is never replaced by its shadow (skills_adapter.py,
\* build_verified_snapshot_from_files).
THEOREM WinnersOnly == Spec => []OnlyWinners
<1>1. ASSUME IInv, pc = "built", NEW i \in DOMAIN entries
      PROVE  /\ entries[i].name \in DOMAIN skills
             /\ \E w \in {j \in DOMAIN entries : entries[j].name = entries[i].name} :
                  /\ skills[entries[w].name].path = entries[w].path
                  /\ \A j \in {k \in DOMAIN entries : entries[k].name = entries[i].name} \ {w} :
                       entries[w].priority < entries[j].priority
  <2> DEFINE m == entries[i].name
  <2>1. DOMAIN entries = 1..Len(entries)
    BY <1>1 DEF IInv, Chosen
  <2>2. /\ Fair(winner, Len(entries)) /\ DOMAIN skills = DOMAIN winner
        /\ \A n \in DOMAIN skills : skills[n].path = winner[n].path
    BY <1>1 DEF IInv, Chosen
  <2>3. m \in DOMAIN winner
    BY <2>1, <2>2 DEF Fair
  <2>4. PICK w \in 1..Len(entries) : winner[m] = entries[w] /\ entries[w].name = m
                                    /\ MostTrusted(w, Len(entries))
    BY <2>2, <2>3 DEF Fair
  <2> QED BY <2>1, <2>2, <2>3, <2>4 DEF MostTrusted
<1>2. IInv => OnlyWinners
  BY <1>1 DEF OnlyWinners
<1> QED BY <1>2, InitIInv, Inductive, PTL DEF Spec
=============================================================================
