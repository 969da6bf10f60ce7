------------------------- MODULE MilestoneActivator -------------------------
(***************************************************************************)
(* prow/cmd/milestone-activator, run again and again.  A run clones some   *)
(* configuration files, looks up the open milestone and writes it into the *)
(* marked sections of the files, or comments them out if there is none,    *)
(* and proposes the difference with PushChanges of                         *)
(* prow/pkg/githubinteractor.  Milestones open and close, people edit the  *)
(* sections, and Tide merges proposals at any time.                        *)
(*                                                                         *)
(* A line is a sequence of tokens: "space", "#", "milestone:", "start" and *)
(* "end" (a marker from its # on), titles, and "text".                     *)
(***************************************************************************)
EXTENDS Naturals, FiniteSets, Sequences

CONSTANTS
  Files,       \* --file-with-sections
  Original,    \* what people wrote into each
  Titles,      \* titles of milestones that match --milestone-pattern
  MaxEvents,   \* bound: milestones opened or closed, edits, closed pull requests
  MaxFaults    \* bound: calls that fail

Token == {"space", "#", "milestone:", "start", "end", "text"} \cup Titles

None == "none"

-----------------------------------------------------------------------------
(* Sections.                                                               *)

\* strings.Trim(line, " ") is the marker.
isMarker(line, k) ==
  \E i \in DOMAIN line : line[i] = k /\ \A j \in DOMAIN line \ {i} : line[j] = "space"

\* How many spaces a line begins with.
indent(line) ==
  CHOOSE n \in 0 .. Len(line) : /\ \A i \in 1 .. n : line[i] = "space"
                                /\ n < Len(line) => line[n + 1] # "space"

starts(f, n) == {i \in 1 .. n : isMarker(f[i], "start")}
ends(f, n)   == {i \in 1 .. n : isMarker(f[i], "end")}

\* The start marker of the section that line i is in, if any.
sectionOf(f, i) == {s \in starts(f, i) : \A j \in s .. i : ~isMarker(f[j], "end")}

offset(f, i) == indent(f[CHOOSE s \in sectionOf(f, i) : TRUE])

\* A line of a section that is not a marker.
isBody(f, i) == sectionOf(f, i) # {} /\ ~isMarker(f[i], "start")

\* findSectionsInFile: markers alternate, and the end comes last.
wellFormed(f) ==
  /\ \A n \in DOMAIN f : /\ Cardinality(starts(f, n)) <= Cardinality(ends(f, n)) + 1
                         /\ Cardinality(ends(f, n)) <= Cardinality(starts(f, n))
  /\ Cardinality(starts(f, Len(f))) = Cardinality(ends(f, Len(f)))

\* Markers of a section are indented alike.
evenMarkers(f) ==
  \A e \in ends(f, Len(f)) : \A s \in sectionOf(f, e - 1) : indent(f[e]) = indent(f[s])

-----------------------------------------------------------------------------
(* Lines.                                                                  *)

isComment(line) ==
  LET n == indent(line)
  IN  n + 2 <= Len(line) /\ line[n + 1] = "#" /\ line[n + 2] = "space"

upTo(line, n) == SubSeq(line, 1, n)
after(line, n) == SubSeq(line, n + 1, Len(line))

properties(line) == {i \in DOMAIN line : line[i] = "milestone:"}

lastProperty(line) == CHOOSE i \in properties(line) : \A j \in properties(line) : j <= i

\* Mutant of uncomment: what stands before the comment is dropped with it.
uncommentDropping(line, n) ==
  IF n + 2 <= Len(line) /\ line[n + 1] = "#" /\ line[n + 2] = "space"
    THEN after(line, n + 2)
    ELSE line

\* strings.TrimPrefix of what follows the offset.
uncomment(line, n) ==
  IF n + 2 <= Len(line) /\ line[n + 1] = "#" /\ line[n + 2] = "space"
    THEN upTo(line, n) \o after(line, n + 2)
    ELSE line

commentOut(line, n) == upTo(line, n) \o <<"#", "space">> \o after(line, n)

\* What follows the last milestone: is replaced.
withTitle(line, title) ==
  IF properties(line) = {} THEN line ELSE upTo(line, lastProperty(line)) \o <<"space", title>>

\* A line and whether it counts as changed.
Changed(line, changed) == [line |-> line, changed |-> changed]

\* Mutant of handleActivateLine: only a line commented out gets the title.
handleActivateLineOnce(line, title, n) ==
  IF isComment(line) THEN Changed(withTitle(uncomment(line, n), title), TRUE)
                     ELSE Changed(line, FALSE)

\* What is commented is found behind any indentation, and uncommented at the
\* offset.
handleActivateLine(line, title, n) ==
  LET bare == IF isComment(line) THEN uncomment(line, n) ELSE line
      new  == withTitle(bare, title)
  IN  Changed(new, isComment(line) \/ new # bare)

\* Mutant of handleDeactivateLine: the comment begins where the line does.
handleDeactivateLineAtStart(line, n) ==
  IF isComment(line) THEN Changed(line, FALSE) ELSE Changed(<<"#", "space">> \o line, TRUE)

\* Mutant of handleDeactivateLine: every line counts as changed.
handleDeactivateLineAlways(line, n) ==
  IF isComment(line) THEN Changed(line, TRUE)
                     ELSE Changed(commentOut(line, n), TRUE)

handleDeactivateLine(line, n) ==
  IF isComment(line) THEN Changed(line, FALSE)
                     ELSE Changed(commentOut(line, n), TRUE)

handled(f, i, title) ==
  IF ~isBody(f, i) THEN Changed(f[i], FALSE)
  ELSE IF title = None THEN handleDeactivateLine(f[i], offset(f, i))
  ELSE handleActivateLine(f[i], title, offset(f, i))

\* Slicing a line that ends before the offset panics.
panics(f, title) ==
  \E i \in DOMAIN f : /\ isBody(f, i)
                      /\ Len(f[i]) < offset(f, i)
                      /\ isComment(f[i]) <=> title # None

\* handleMilestoneSection writes the file if a line has changed.
handleMilestoneSection(f, title) == [i \in DOMAIN f |-> handled(f, i, title).line]

fileChanged(f, title) == \E i \in DOMAIN f : handled(f, i, title).changed

\* updateFiles goes through.
updatable(f, title) ==
  wellFormed(f) /\ (starts(f, Len(f)) # {} => evenMarkers(f) /\ ~panics(f, title))

-----------------------------------------------------------------------------

files == [Files -> Seq(Seq(Token))]

\* A line that is commented out and in again without loss: it begins with the
\* spaces before the marker, and is neither a comment nor a marker.
isPlain(line, n) == /\ indent(line) >= n
                    /\ ~isComment(line)
                    /\ ~isMarker(line, "start") /\ ~isMarker(line, "end")

isBlank(line) == \A i \in DOMAIN line : line[i] = "space"

\* Such a line, perhaps commented out at the offset; or a blank one that ends
\* before the offset, which no operation changes: one panics instead.
restorable(line, n) ==
  \/ isPlain(uncomment(line, n), n)
  \/ isBlank(line) /\ Len(line) < n

\* No line of a section holds a marker, as "# " and a marker would.
noHiddenMarkers(f) ==
  \A i \in DOMAIN f : isBody(f, i) => \A j \in DOMAIN f[i] : f[i][j] \notin {"start", "end"}

Restorable(f) ==
  noHiddenMarkers(f) /\ \A i \in DOMAIN f : isBody(f, i) => restorable(f[i], offset(f, i))

ASSUME ActivatorAssumption ==
  /\ IsFiniteSet(Titles) /\ None \notin Titles
  /\ Titles \cap {"space", "#", "milestone:", "start", "end"} = {}
  /\ Original \in files
  /\ MaxEvents \in Nat /\ MaxFaults \in Nat

VARIABLES
  open,      \* the open milestones
  master,    \* the files on the upstream branch
  pr,        \* the pull request: "none" open, "open", or "labeled"
  head,      \* the branch in the fork: the files it started from, and its own
  pc,        \* the stage of the run, "idle" between runs
  base,      \* the files in the clone when the run began
  work,      \* those in its working tree
  prExists,  \* prExists of PushChanges
  events, faults

github == <<open, master, pr, head>>
local  == <<base, work, prExists>>
vars   == <<github, pc, local, events, faults>>

NoFiles == [x \in Files |-> <<>>]

TypeOK ==
  /\ open \subseteq Titles
  /\ master \in files
  /\ pr \in {"none", "open", "labeled"}
  /\ head \in [base : files, new : files]
  /\ pc \in {"idle", "update", "commit", "push", "open", "label"}
  /\ base \in files /\ work \in files
  /\ prExists \in BOOLEAN
  /\ pc = "idle" => base = NoFiles /\ work = NoFiles
  /\ events \in 0 .. MaxEvents
  /\ faults \in 0 .. MaxFaults

Init ==
  /\ open \in SUBSET Titles
  /\ master = Original
  /\ pr = "none"
  /\ head = [base |-> NoFiles, new |-> NoFiles]
  /\ pc = "idle"
  /\ base = NoFiles /\ work = NoFiles /\ prExists = FALSE
  /\ events = 0 /\ faults = 0

-----------------------------------------------------------------------------
(* A run.                                                                  *)

\* Mutant of Reset: the clone of a run outlives it.
ResetKeeping == /\ pc' = "idle"
                /\ UNCHANGED local

Reset == /\ pc' = "idle"
         /\ base' = NoFiles /\ work' = NoFiles /\ prExists' = FALSE

Clone ==
  /\ pc = "idle"
  /\ pc' = "update"
  /\ base' = master /\ work' = master
  /\ UNCHANGED <<github, prExists, events, faults>>

\* The title of the only open milestone; several are an error.
getOpenMilestone(titles) == IF titles = {} THEN None ELSE CHOOSE t \in titles : titles = {t}

\* getOpenMilestone and updateFiles.  An error ends the process, and what it
\* has written is lost; so does a run that has changed nothing.
Update ==
  /\ pc = "update"
  /\ LET title == getOpenMilestone(open)
         fine  == /\ Cardinality(open) <= 1
                  /\ \A x \in Files : updatable(base[x], title)
     IN  IF fine /\ \E x \in Files : fileChanged(base[x], title)
           THEN /\ work' = [x \in Files |-> handleMilestoneSection(base[x], title)]
                /\ pc' = "commit"
                /\ UNCHANGED <<base, prExists>>
           ELSE Reset
  /\ UNCHANGED <<github, events, faults>>

\* git commit, which fails when there is nothing to commit, and then the
\* search for an open pull request from this branch.
Commit ==
  /\ pc = "commit"
  /\ IF work = base
       THEN Reset
       ELSE /\ prExists' = (pr # "none")
            /\ pc' = "push"
            /\ UNCHANGED <<base, work>>
  /\ UNCHANGED <<github, events, faults>>

\* The branch of the fork is replaced.
Push ==
  /\ pc = "push"
  /\ head' = [base |-> base, new |-> work]
  /\ pc' = IF prExists THEN "label" ELSE "open"
  /\ UNCHANGED <<open, master, pr, local, events, faults>>

Open ==
  /\ pc = "open"
  /\ pr = "none"
  /\ pr' = "open"
  /\ pc' = "label"
  /\ UNCHANGED <<open, master, head, local, events, faults>>

AddLabels ==
  /\ pc = "label"
  /\ pr' = IF pr = "none" THEN "none" ELSE "labeled"
  /\ Reset
  /\ UNCHANGED <<open, master, head, events, faults>>

\* A call fails and the process exits.  The call that creates the pull request
\* may have been applied.
Fail ==
  /\ faults < MaxFaults
  /\ faults' = faults + 1
  /\ \/ pc # "idle" /\ UNCHANGED github
     \/ pc = "open" /\ pr' = "open" /\ UNCHANGED <<open, master, head>>
  /\ Reset
  /\ UNCHANGED events

-----------------------------------------------------------------------------
(* The others.                                                             *)

Event == /\ events < MaxEvents
         /\ events' = events + 1
         /\ UNCHANGED <<pc, local, faults>>

\* A milestone is opened, or closed.
SetMilestone(t) ==
  /\ Event
  /\ open' = IF t \in open THEN open \ {t} ELSE open \cup {t}
  /\ UNCHANGED <<master, pr, head>>

\* Somebody comments one line of a section in or out, at the offset.
Edit(x, i) ==
  /\ Event
  /\ isBody(master[x], i)
  /\ offset(master[x], i) <= Len(master[x][i])
  /\ LET line == master[x][i]
         n    == offset(master[x], i)
         new  == IF isComment(line) THEN uncomment(line, n) ELSE commentOut(line, n)
     IN  master' = [master EXCEPT ![x] = [@ EXCEPT ![i] = new]]
  /\ UNCHANGED <<open, pr, head>>

ClosePR ==
  /\ Event
  /\ pr # "none"
  /\ pr' = "none"
  /\ UNCHANGED <<open, master, head>>

\* Tide merges what the branch of the fork holds by now; a file both sides have
\* changed is a conflict.
Merge ==
  /\ pr = "labeled"
  /\ \A x \in Files : head.base[x] \in {master[x], head.new[x]}
  /\ pr' = "none"
  /\ master' = [x \in Files |-> IF head.base[x] = head.new[x] THEN master[x] ELSE head.new[x]]
  /\ UNCHANGED <<open, head, pc, local, events, faults>>

-----------------------------------------------------------------------------

Run == \/ Clone
       \/ Update
       \/ Commit
       \/ Push
       \/ Open
       \/ AddLabels

Others == \/ \E t \in Titles : SetMilestone(t)
          \/ \E x \in Files : \E i \in DOMAIN master[x] : Edit(x, i)
          \/ ClosePR
          \/ Merge

Next == Run \/ Fail \/ Others

Spec == Init /\ [][Next]_vars

\* The job is periodic, a run goes on to its end, and Tide merges.
Fairness == WF_vars(Run) /\ WF_vars(Merge)

FairSpec == Spec /\ Fairness

-----------------------------------------------------------------------------
(* Properties.                                                             *)

\* A line without its title.
untitled(line) == IF properties(line) = {} THEN line ELSE upTo(line, lastProperty(line))

\* A line of a section without its comment at the offset and its title.
textOf(line, n) == untitled(uncomment(line, n))

\* Deactivating and activating undo one another: however often sections are
\* commented in and out, by runs and by people, proposals keep every line that
\* can be restored in its place with its text and indentation, whatever stands
\* in the lines around it, and change nothing outside of sections.
TextKept ==
  \A x \in Files : noHiddenMarkers(Original[x]) =>
    /\ DOMAIN master[x] = DOMAIN Original[x]
    /\ \A i \in DOMAIN Original[x] :
         LET old == Original[x][i]
             new == master[x][i]
             n   == offset(Original[x], i)
         IN  IF isBody(Original[x], i)
               THEN restorable(old, n) => textOf(new, n) = textOf(old, n)
               ELSE new = old

\* A run that has found changes has something to commit where all lines of
\* sections can be restored, in whatever state people and earlier runs left them.
SomethingToCommit ==
  (\A x \in Files : Restorable(Original[x])) => (pc = "commit" => work # base)

\* A file whose lines can be restored makes runs fail or panic only if it did so
\* as people wrote it: nothing that runs or people do to it since misplaces a
\* marker or cuts a line short.
StaysUpdatable ==
  \A x \in Files : Restorable(Original[x]) =>
    \A title \in Titles \cup {None} :
      updatable(master[x], title) <=> updatable(Original[x], title)

\* All sections are commented in, with this title, or out; blank lines do not
\* count.
agrees(f, title) ==
  \A i \in DOMAIN f : isBody(f, i) /\ ~isBlank(f[i]) =>
    IF title = None
      THEN isComment(f[i])
      ELSE ~isComment(f[i]) /\ withTitle(f[i], title) = f[i]

\* Once milestones and files are left alone, all sections name the one open
\* milestone, or are inactive if there is none.  With several open milestones
\* every run fails.
Converges == <>[](Cardinality(open) > 1 \/ \A x \in Files : agrees(master[x], getOpenMilestone(open)))
=============================================================================
