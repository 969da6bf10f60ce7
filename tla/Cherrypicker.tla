---------------------------- MODULE Cherrypicker ----------------------------
(***************************************************************************)
(* The cherrypicker plugin of prow/external-plugins/cherrypicker, for one  *)
(* pull request.  Each webhook delivery runs in a goroutine of its own     *)
(* (handleEvent): it works out which branches to cherry-pick to and then   *)
(* runs handle for each of them under a mutex per pull request and branch. *)
(* A cherry-pick branch is pushed with force to the bot's fork, or to the  *)
(* repository itself where forking is forbidden, and a pull request is     *)
(* opened for it.  GitHub, the users and the maintainers are external.     *)
(***************************************************************************)
EXTENDS FiniteSets

CONSTANTS
  Deliveries,   \* webhook deliveries, each handled by a goroutine
  Branches,     \* branches of the repository
  Base,         \* the branch the pull request is for
  Users,        \* who writes comments
  Author,       \* the author of the pull request
  Trusted,      \* collaborators (-only-org-members: members; -allow-all: all)
  Commands,     \* bound: the sets of branches one comment may ask for
  LabelFor,     \* bound: the branches labels may ask for
  Central,      \* TRUE iff forking the repository is forbidden
  Taken,        \* branches whose cherry-pick branch exists upstream
  Faults,       \* TRUE iff calls to GitHub and git may fail
  Restarts,     \* TRUE iff the plugin may be restarted
  None

ASSUME BranchesAssumption == /\ Base \in Branches
                             /\ Taken \subseteq Branches
                             /\ Commands \subseteq SUBSET Branches \ {{}}
                             /\ LabelFor \subseteq Branches
ASSUME UsersAssumption == /\ Author \in Users
                          /\ Trusted \subseteq Users
ASSUME NoneAssumption == None \notin Deliveries \cup Branches \cup Users

VARIABLES
  pr,        \* the pull request: "open", "closed" (unmerged) or "merged"
  comments,  \* <<user, branch>> for each /cherrypick command, body included
  labels,    \* branches b with a label cherrypick/b
  kind,      \* what a delivery reports: "none" while unused
  payload,   \* the pull request's state in the payload
  by,        \* the author of the comment a delivery reports
  pc,        \* where a delivery's goroutine is
  todo,      \* branches its loop has still to handle
  asked,     \* history: all the branches its loop was to handle
  cur,       \* the branch it is handling
  lock,      \* lockMap: the delivery that holds a branch's mutex
  branch,    \* content of the cherry-pick branch: who wrote it last
  pick,      \* the cherry-pick pull request: "none", "open" or "closed"
  attempted, \* history: <<delivery, branch>> for which handle has returned
  lost       \* history: a delivery was given up before its loop

github   == <<pr, comments, labels>>
delivery == <<kind, payload, by>>
picks    == <<branch, pick>>
vars == <<github, delivery, pc, todo, asked, cur, lock, picks, attempted, lost>>

Working == {"locked", "applied", "pushed", "opened"}

TypeOK ==
  /\ pr \in {"open", "closed", "merged"}
  /\ comments \subseteq Users \X Branches
  /\ labels \subseteq Branches
  /\ kind \in [Deliveries -> {"none", "comment", "closed", "labeled"}]
  /\ payload \in [Deliveries -> {"open", "closed", "merged"}]
  /\ by \in [Deliveries -> Users]
  /\ pc \in [Deliveries -> {"new", "received", "listed", "loop", "done"} \cup Working]
  /\ todo \in [Deliveries -> SUBSET Branches]
  /\ asked \in [Deliveries -> SUBSET Branches]
  /\ cur \in [Deliveries -> Branches \cup {None}]
  /\ lock \in [Branches -> Deliveries \cup {None}]
  /\ branch \in [Branches -> Deliveries \cup {None, "edited"}]
  /\ pick \in [Branches -> {"none", "open", "closed"}]
  /\ attempted \subseteq Deliveries \X Branches
  /\ lost \in BOOLEAN

\* The description of the pull request may hold commands of its author.
Init ==
  /\ pr = "open"
  /\ \E S \in Commands \cup {{}} : comments = {Author} \X S
  /\ labels = {}
  /\ kind = [d \in Deliveries |-> "none"]
  /\ payload = [d \in Deliveries |-> "open"]
  /\ by = [d \in Deliveries |-> Author]
  /\ pc = [d \in Deliveries |-> "new"]
  /\ todo = [d \in Deliveries |-> {}]
  /\ asked = [d \in Deliveries |-> {}]
  /\ cur = [d \in Deliveries |-> None]
  /\ lock = [b \in Branches |-> None]
  /\ branch = [b \in Branches |-> None]
  /\ pick = [b \in Branches |-> "none"]
  /\ attempted = {}
  /\ lost = FALSE

-----------------------------------------------------------------------------
(* GitHub: what users do, each with the webhook that reports it.           *)

\* GitHub sends an event; the payload shows the pull request as it is then.
Send(d, what, user) ==
  /\ pc[d] = "new"
  /\ kind' = [kind EXCEPT ![d] = what]
  /\ payload' = [payload EXCEPT ![d] = pr']
  /\ by' = [by EXCEPT ![d] = user]
  /\ pc' = [pc EXCEPT ![d] = "received"]
  /\ UNCHANGED <<cur, lock, picks, attempted, lost>>

\* A comment with one or more /cherrypick commands (parseComment).
Comment(d, user, S) ==
  /\ comments' = comments \cup ({user} \X S)
  /\ UNCHANGED <<pr, labels>>
  /\ Send(d, "comment", user)
  /\ todo' = [todo EXCEPT ![d] = S]
  /\ UNCHANGED asked

Close(d) == /\ pr = "open"
            /\ pr' \in {"closed", "merged"}
            /\ UNCHANGED <<comments, labels, todo, asked>>
            /\ Send(d, "closed", Author)

\* The label is a cherrypick label or, with S = {}, any other.
Label(d, S) == /\ labels' = labels \cup S
               /\ UNCHANGED <<pr, comments, todo, asked>>
               /\ Send(d, "labeled", Author)

\* Somebody asks GitHub to deliver the event of the closing once more.
Redeliver(d) == /\ pr # "open"
                /\ UNCHANGED <<github, todo, asked>>
                /\ Send(d, "closed", Author)

\* A maintainer adds a commit to a cherry-pick branch, for instance to
\* resolve a conflict or to adapt the change to the release.
Edit(b) == /\ pick[b] = "open"
           /\ branch[b] # None
           /\ branch' = [branch EXCEPT ![b] = "edited"]
           /\ UNCHANGED <<github, delivery, pc, todo, asked, cur, lock, pick,
                          attempted, lost>>

\* A cherry-pick pull request is merged or closed and its branch deleted.
ClosePick(b) == /\ pick[b] = "open"
                /\ pick' = [pick EXCEPT ![b] = "closed"]
                /\ branch' = [branch EXCEPT ![b] = None]
                /\ UNCHANGED <<github, delivery, pc, todo, asked, cur, lock,
                               attempted, lost>>

-----------------------------------------------------------------------------
(* handleIssueComment and handlePullRequest: what a delivery asks for.     *)

\* Asked for one user, and for all of them at once.
isTrustedUser(user) == user \in Trusted

listTrustedUsers == {user \in Users : isTrustedUser(user)}

\* Nothing of the event is needed any more.
Forget(d) == /\ kind' = [kind EXCEPT ![d] = "none"]
             /\ payload' = [payload EXCEPT ![d] = "open"]
             /\ by' = [by EXCEPT ![d] = Author]

\* There is nothing to do, or an error is logged.
GiveUp(d, error) == /\ Forget(d)
                    /\ pc' = [pc EXCEPT ![d] = "done"]
                    /\ todo' = [todo EXCEPT ![d] = {}]
                    /\ lost' = (lost \/ error)
                    /\ UNCHANGED <<github, asked, cur, lock, picks, attempted>>

\* The goroutine goes on to cherry-pick to the branches of S one by one.
Begin(d, S) == /\ Forget(d)
               /\ pc' = [pc EXCEPT ![d] = "loop"]
               /\ todo' = [todo EXCEPT ![d] = S]
               /\ asked' = [asked EXCEPT ![d] = S]
               /\ UNCHANGED <<github, cur, lock, picks, attempted, lost>>

\* The pull request is fetched, but whether it is closed is read from the
\* payload.  While it is open a trusted user gets the promise that it will be
\* cherry-picked once it merges; nothing is stored, the event of the closing
\* finds the comment again.  An error then costs nothing but the promise.
handleIssueComment(d) ==
  /\ pc[d] = "received"
  /\ kind[d] = "comment"
  /\ LET commands == todo[d] \ {Base}
     IN  \/ Faults /\ GiveUp(d, payload[d] # "open")
         \/ /\ \/ commands = {}
               \/ payload[d] = "open"
               \/ pr # "merged"
               \/ ~isTrustedUser(by[d])
            /\ GiveUp(d, FALSE)
         \/ /\ commands # {}
            /\ payload[d] # "open"
            /\ pr = "merged"
            /\ isTrustedUser(by[d])
            /\ Begin(d, commands)

\* Mutant of TrustedCommands: whoever comments is obeyed.
allCommands == {b \in Branches : \E u \in Users : <<u, b>> \in comments}

\* Mutant of TrustedCommands: only labels count once the PR has merged.
noCommands == {b \in Branches : Branches = {}}

\* The branches trusted users have asked for in comments or the description.
TrustedCommands ==
  {b \in Branches : \E u \in listTrustedUsers : <<u, b>> \in comments}

\* handlePullRequest drops all but merged pull requests and lists comments.
ListComments(d) ==
  /\ pc[d] = "received"
  /\ kind[d] \in {"closed", "labeled"}
  /\ \/ /\ payload[d] # "merged"
        /\ GiveUp(d, FALSE)
     \/ /\ payload[d] = "merged"
        /\ Faults
        /\ GiveUp(d, TRUE)
     \/ /\ payload[d] = "merged"
        /\ todo' = [todo EXCEPT ![d] = TrustedCommands]
        /\ pc' = [pc EXCEPT ![d] = "listed"]
        /\ UNCHANGED <<github, delivery, asked, cur, lock, picks, attempted, lost>>

\* It then reads the labels, which count as requests of the author, and goes
\* on unless the event was about a label and there is no cherrypick label.
ReadLabels(d) ==
  /\ pc[d] = "listed"
  /\ \/ /\ Faults
        /\ GiveUp(d, TRUE)
     \/ /\ kind[d] = "labeled" /\ labels = {}
        /\ GiveUp(d, FALSE)
     \/ /\ kind[d] = "closed" \/ labels # {}
        /\ Begin(d, (todo[d] \cup {b \in labels : Author \in listTrustedUsers}) \ {Base})

-----------------------------------------------------------------------------
(* handle, for one branch.                                                 *)

\* Mutant of Free: the mutex is per delivery, so it is always free.
alwaysFree(b) == b \in Branches

Free(b) == lock[b] = None

\* Mutant of Lock: handle runs with a branch that was never assigned.
LockUnset(d, b) == /\ pc[d] = "loop"
                   /\ b \in todo[d]
                   /\ Free(b)
                   /\ todo' = [todo EXCEPT ![d] = @ \ {b}]
                   /\ pc' = [pc EXCEPT ![d] = "locked"]
                   /\ UNCHANGED <<lock, cur>>
                   /\ UNCHANGED <<github, delivery, asked, picks, attempted, lost>>

\* The loop takes one of its branches, in any order, and handle its mutex.
Lock(d, b) == /\ pc[d] = "loop"
              /\ b \in todo[d]
              /\ Free(b)
              /\ lock' = [lock EXCEPT ![b] = d]
              /\ cur' = [cur EXCEPT ![d] = b]
              /\ todo' = [todo EXCEPT ![d] = @ \ {b}]
              /\ pc' = [pc EXCEPT ![d] = "locked"]
              /\ UNCHANGED <<github, delivery, asked, picks, attempted, lost>>

\* Mutant of Return: an early return leaves the mutex locked.
ReturnLocked(d) == /\ lock' = lock
                   /\ attempted' = attempted \cup {<<d, cur[d]>>}
                   /\ cur' = [cur EXCEPT ![d] = None]
                   /\ pc' = [pc EXCEPT ![d] = "loop"]
                   /\ todo' = todo
                   /\ UNCHANGED <<github, delivery, asked, lost>>

\* Mutant of Return: the loop ends with the first branch that goes wrong.
ReturnAll(d) == /\ lock' = [lock EXCEPT ![cur[d]] = None]
                /\ attempted' = attempted \cup {<<d, cur[d]>>}
                /\ cur' = [cur EXCEPT ![d] = None]
                /\ pc' = [pc EXCEPT ![d] = "loop"]
                /\ todo' = [todo EXCEPT ![d] = {}]
                /\ UNCHANGED <<github, delivery, asked, lost>>

\* handle returns, with or without an error: its deferred Unlock runs, and
\* the loop of the caller goes on with the next branch.
Return(d) == /\ lock' = [lock EXCEPT ![cur[d]] = None]
             /\ attempted' = attempted \cup {<<d, cur[d]>>}
             /\ cur' = [cur EXCEPT ![d] = None]
             /\ pc' = [pc EXCEPT ![d] = "loop"]
             /\ todo' = todo
             /\ UNCHANGED <<github, delivery, asked, lost>>

\* handle goes on to its next step.
Proceed(d, step) ==
  /\ pc' = [pc EXCEPT ![d] = step]
  /\ UNCHANGED <<github, delivery, todo, asked, cur, lock, attempted, lost>>

\* BranchExists looks at the clone of the repository, never at the fork.
BranchExists(b) == b \in Taken \/ (Central /\ branch[b] # None)

\* A reference as its parts around a colon.  GitHub names the head of a pull
\* request by its branch alone, the form in which the branch cleaner and the
\* GitHub interactor read the same field.
HeadRef(b) == <<b>>

\* handle looks for "<bot>:<branch>", the form CreatePullRequest takes.
SoughtRef(b) == <<"bot", b>>

\* One of the open pull requests is the cherry-pick.
HasPick(b) == pick[b] = "open" /\ HeadRef(b) = SoughtRef(b)

\* Pusher, clone, checkout, patch, the check for an existing cherry-pick and
\* git am: all of it is local but for reads.  The patch may not apply.
Prepare(d) == /\ pc[d] = "locked"
              /\ UNCHANGED picks
              /\ \/ Return(d)
                 \/ /\ ~(BranchExists(cur[d]) /\ HasPick(cur[d]))
                    /\ Proceed(d, "applied")

\* The branch is pushed with force, whatever is there.
Push(d) == /\ pc[d] = "applied"
           /\ UNCHANGED pick
           /\ \/ Faults /\ Return(d) /\ UNCHANGED branch
              \/ /\ branch' = [branch EXCEPT ![cur[d]] = d]
                 /\ Proceed(d, "pushed")

\* CreatePullRequest.  GitHub refuses a second one for the same branches.
Open(d) == /\ pc[d] = "pushed"
           /\ UNCHANGED branch
           /\ \/ /\ Faults \/ pick[cur[d]] = "open" \/ branch[cur[d]] = None
                 /\ Return(d)
                 /\ UNCHANGED pick
              \/ /\ pick[cur[d]] # "open"
                 /\ branch[cur[d]] # None
                 /\ pick' = [pick EXCEPT ![cur[d]] = "open"]
                 /\ \/ Faults /\ Return(d)
                    \/ Proceed(d, "opened")

\* Comment, release note, labels and assignment; an error ends it early.
Complete(d) == /\ pc[d] = "opened"
               /\ UNCHANGED picks
               /\ Return(d)

LoopEnds(d) == /\ pc[d] = "loop"
               /\ todo[d] = {}
               /\ pc' = [pc EXCEPT ![d] = "done"]
               /\ UNCHANGED <<github, delivery, todo, asked, cur, lock, picks,
                              attempted, lost>>

\* The plugin is restarted: goroutines and mutexes are gone, and GitHub does
\* not repeat an event it has delivered.
Restart ==
  /\ Restarts
  /\ \E d \in Deliveries : pc[d] \notin {"new", "done"}
  /\ pc' = [d \in Deliveries |-> IF pc[d] = "new" THEN "new" ELSE "done"]
  /\ asked' = [d \in Deliveries |-> IF pc[d] = "done" THEN asked[d] ELSE {}]
  /\ todo' = [d \in Deliveries |-> {}]
  /\ cur' = [d \in Deliveries |-> None]
  /\ lock' = [b \in Branches |-> None]
  /\ lost' = TRUE
  /\ UNCHANGED <<github, delivery, picks, attempted>>

-----------------------------------------------------------------------------

Goroutine(d) == \/ handleIssueComment(d)
                \/ ListComments(d)
                \/ ReadLabels(d)
                \/ \E b \in Branches : Lock(d, b)
                \/ Prepare(d)
                \/ Push(d)
                \/ Open(d)
                \/ Complete(d)
                \/ LoopEnds(d)

Event(d) == \/ \E user \in Users, S \in Commands : Comment(d, user, S)
            \/ Close(d)
            \/ \E S \in {{}} \cup {{b} : b \in LabelFor} : Label(d, S)
            \/ Redeliver(d)

Idle == /\ \A d \in Deliveries : pc[d] = "done"
        /\ UNCHANGED vars

Next == \/ \E d \in Deliveries : Goroutine(d) \/ Event(d)
        \/ \E b \in Branches : Edit(b) \/ ClosePick(b)
        \/ Restart
        \/ Idle

Spec == Init /\ [][Next]_vars

\* Goroutines run to their end; nothing obliges users to do anything.
Fairness == \A d \in Deliveries : WF_vars(Goroutine(d))

FairSpec == Spec /\ Fairness

-----------------------------------------------------------------------------
(* Properties.                                                             *)

\* A cherry-pick exists only of a merged pull request, never to its own base
\* branch, and only for a branch a trusted user asked for, in a comment, in
\* the description or, standing for the author, by a label.
Authorized ==
  \A b \in Branches :
    branch[b] # None \/ pick[b] # "none" =>
      /\ pr = "merged"
      /\ b # Base
      /\ \/ \E u \in Trusted : <<u, b>> \in comments
         \/ b \in labels /\ Author \in Trusted

\* Between the push of a cherry-pick branch and the pull request opened for
\* it no other delivery pushes to that branch (lockMap).
PushedByOpener ==
  \A d \in Deliveries :
    pc[d] = "pushed" => branch[cur[d]] \in {d, "edited", None}

\* "A failure in one cherry-pick must NOT prevent processing of the remaining
\* targets": a goroutine that ends has attempted all it was asked for.
AllAttempted ==
  \A d \in Deliveries : pc[d] = "done" => {d} \X asked[d] \subseteq attempted

\* Every delivery is finished, whatever fails on the way.
DeliveriesEnd == \A d \in Deliveries : (pc[d] = "received") ~> (pc[d] = "done")

\* Once the pull request is merged, every branch a trusted user has asked
\* for is attempted, be it asked for before or after the merge and however
\* the deliveries overtake each other, unless an event is lost.
RequestsServed ==
  \A b \in Branches \ {Base} :
    (pr = "merged" /\ \E u \in Trusted : <<u, b>> \in comments)
      ~> (lost \/ \E d \in Deliveries : <<d, b>> \in attempted)

\* "Check if that branch already exists, which means there is already a PR":
\* the branch of an open cherry-pick pull request is not pushed again.
OpenPickKept ==
  [][\A b \in Branches :
       pick[b] = "open" /\ branch'[b] \notin {branch[b], None}
         => branch'[b] = "edited"]_vars
=============================================================================
