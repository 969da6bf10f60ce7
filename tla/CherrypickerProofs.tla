------------------------- MODULE CherrypickerProofs -------------------------
(***************************************************************************)
(* What the cherrypicker may create and whom it obeys, for any number of   *)
(* webhook deliveries, branches and users, whatever fails and however      *)
(* often the plugin is restarted.                                          *)
(***************************************************************************)
EXTENDS Cherrypicker, TLAPS

\* A trusted user has asked for the merged pull request on branch b.
Requested(b) ==
  /\ pr = "merged"
  /\ b # Base
  /\ \/ \E u \in Trusted : <<u, b>> \in comments
     \/ b \in labels /\ Author \in Trusted

\* Whoever handles a branch holds its mutex.
Mutex == \A d \in Deliveries :
           pc[d] \in Working => cur[d] \in Branches /\ lock[cur[d]] = d

\* An event reports what has happened: its comment is there, and a pull
\* request that was merged is.
Reported ==
  \A d \in Deliveries :
    /\ pc[d] = "received" /\ kind[d] = "comment" => {by[d]} \X todo[d] \subseteq comments
    /\ pc[d] \in {"received", "listed"} /\ payload[d] = "merged" => pr = "merged"
    /\ pc[d] = "listed" => payload[d] = "merged" /\ todo[d] \subseteq TrustedCommands

\* The loop of a goroutine handles nothing but requests.
Obeyed ==
  \A d \in Deliveries :
    /\ pc[d] \in {"loop"} \cup Working => \A b \in todo[d] : Requested(b)
    /\ pc[d] \in Working => Requested(cur[d])

\* What a goroutine was asked for it has attempted or has still before it.
Accounted ==
  \A d \in Deliveries :
    /\ pc[d] \in {"new", "received", "listed"} => asked[d] = {}
    /\ pc[d] = "loop" => {d} \X (asked[d] \ todo[d]) \subseteq attempted
    /\ pc[d] \in Working => {d} \X (asked[d] \ (todo[d] \cup {cur[d]})) \subseteq attempted
    /\ pc[d] = "done" => {d} \X asked[d] \subseteq attempted

IndInv == /\ TypeOK
          /\ Mutex
          /\ Reported
          /\ Obeyed
          /\ Authorized
          /\ PushedByOpener
          /\ Accounted

-----------------------------------------------------------------------------
(* Requests.                                                               *)

\* Requests are never taken back: comments and labels stay, and so does the
\* merge.
LEMMA RequestsStay ==
  ASSUME NEW b, Requested(b), pr = "merged" => pr' = "merged",
         comments \subseteq comments', labels \subseteq labels'
  PROVE  Requested(b)'
<1>. QED
  BY DEF Requested

\* A step after which only events of others have changed and that moves one
\* delivery to a step without a mutex leaves what was created justified.
LEMMA CreatedStay ==
  ASSUME Authorized, UNCHANGED picks,
         pr = "merged" => pr' = "merged",
         comments \subseteq comments', labels \subseteq labels'
  PROVE  Authorized'
<1>. SUFFICES ASSUME NEW b \in Branches, branch'[b] # None \/ pick'[b] # "none"
              PROVE  Requested(b)'
  BY DEF Authorized, Requested
<1>1. Requested(b)
  BY DEF Authorized, Requested, picks
<1>. QED
  BY <1>1, RequestsStay

-----------------------------------------------------------------------------
(* Events.                                                                 *)

\* The event that is sent reports the state the pull request has now.
LEMMA EventStep ==
  ASSUME IndInv, NEW d \in Deliveries, Event(d)
  PROVE  IndInv'
<1>. USE DEF IndInv
<1>. PICK what \in {"comment", "closed", "labeled"}, user \in Users,
          S \in SUBSET Branches :
       /\ Send(d, what, user)
       /\ todo' = IF what = "comment" THEN [todo EXCEPT ![d] = S] ELSE todo
       /\ asked' = asked
       /\ what = "comment" => comments' = comments \cup ({user} \X S)
       /\ what # "comment" => comments' = comments
       /\ labels \subseteq labels' /\ labels' \subseteq Branches
       /\ pr' \in {"open", "closed", "merged"}
       /\ pr = "merged" => pr' = "merged"
  <2>1. CASE \E user \in Users, S \in Commands : Comment(d, user, S)
    BY <2>1, BranchesAssumption DEF Comment, TypeOK
  <2>2. CASE Close(d) \/ Redeliver(d)
    BY <2>2, UsersAssumption DEF Close, Redeliver, TypeOK, github
  <2>3. CASE \E S \in {{}} \cup {{b} : b \in LabelFor} : Label(d, S)
    <3>. PICK S \in SUBSET Branches : Label(d, S)
      BY <2>3, BranchesAssumption
    <3>. QED
      BY UsersAssumption DEF Label, TypeOK
  <2>. QED
    BY <2>1, <2>2, <2>3 DEF Event
<1>. USE DEF Send
<1>1. comments \subseteq comments' /\ comments' \subseteq Users \X Branches
  BY DEF TypeOK
<1>2. TypeOK'
  BY <1>1 DEF TypeOK, picks
<1>3. \A e \in Deliveries : e # d => pc'[e] = pc[e] /\ todo'[e] = todo[e]
                                       /\ payload'[e] = payload[e]
                                       /\ kind'[e] = kind[e] /\ by'[e] = by[e]
  BY DEF TypeOK
<1>4. pc'[d] = "received" /\ payload'[d] = pr' /\ by'[d] = user /\ kind'[d] = what
  BY DEF TypeOK
<1>5. Mutex' /\ PushedByOpener'
  BY <1>3, <1>4 DEF Mutex, PushedByOpener, Working, picks
<1>6. Accounted'
  BY <1>3, <1>4 DEF Accounted, Working
<1>7. Authorized'
  BY <1>1, CreatedStay
<1>8. TrustedCommands \subseteq TrustedCommands'
  BY <1>1 DEF TrustedCommands
<1>9. Reported'
  <2>1. what = "comment" => {user} \X todo'[d] \subseteq comments'
    BY DEF TypeOK
  <2>. QED
    BY <1>1, <1>3, <1>4, <1>8, <2>1 DEF Reported
<1>10. Obeyed'
  BY <1>1, <1>3, <1>4, RequestsStay DEF Obeyed, Working
<1>. QED
  BY <1>2, <1>5, <1>6, <1>7, <1>9, <1>10

\* What maintainers do with a cherry-pick touches no request and opens none.
LEMMA MaintainersStep ==
  ASSUME IndInv, NEW b \in Branches, Edit(b) \/ ClosePick(b)
  PROVE  IndInv'
<1>. USE DEF IndInv
<1>1. UNCHANGED <<github, delivery, pc, todo, asked, cur, lock, attempted, lost>>
  BY DEF Edit, ClosePick
<1>. USE <1>1 DEF github, delivery
<1>2. TypeOK'
  BY DEF TypeOK, Edit, ClosePick
<1>3. Mutex' /\ Accounted'
  BY DEF Mutex, Accounted
<1>4. Reported' /\ Obeyed'
  BY DEF Reported, Obeyed, Requested, TrustedCommands
<1>5. \A c \in Branches : /\ branch'[c] # None => branch[c] # None
                          /\ pick'[c] # "none" => pick[c] # "none"
                          /\ pick'[c] = "open" => pick[c] = "open"
                          /\ branch'[c] \in {branch[c], "edited", None}
  BY DEF TypeOK, Edit, ClosePick
<1>6. Authorized'
  BY <1>5 DEF Authorized
<1>7. PushedByOpener'
  BY <1>5 DEF PushedByOpener, Mutex, Working
<1>. QED
  BY <1>2, <1>3, <1>4, <1>6, <1>7

-----------------------------------------------------------------------------
(* What a delivery asks for.                                               *)

\* A delivery that is given up before its loop was asked for nothing.
LEMMA GiveUpStep ==
  ASSUME IndInv, NEW d \in Deliveries, pc[d] \in {"received", "listed"},
         NEW error \in BOOLEAN, GiveUp(d, error)
  PROVE  IndInv'
<1>. USE DEF IndInv, GiveUp, Forget, github, picks
<1>1. TypeOK'
  BY UsersAssumption DEF TypeOK
<1>2. \A e \in Deliveries : e # d => pc'[e] = pc[e] /\ todo'[e] = todo[e]
                                       /\ payload'[e] = payload[e]
                                       /\ kind'[e] = kind[e] /\ by'[e] = by[e]
  BY DEF TypeOK
<1>3. pc'[d] = "done"
  BY DEF TypeOK
<1>4. Mutex' /\ PushedByOpener' /\ Authorized'
  BY <1>2, <1>3 DEF Mutex, PushedByOpener, Authorized, Working
<1>5. Accounted'
  BY <1>2, <1>3 DEF Accounted, Working
<1>6. Reported' /\ Obeyed'
  BY <1>2, <1>3 DEF Reported, Obeyed, Requested, TrustedCommands, Working
<1>. QED
  BY <1>1, <1>4, <1>5, <1>6

\* A loop begins with requests only, all of them still before it.
LEMMA BeginStep ==
  ASSUME IndInv, NEW d \in Deliveries, NEW S \in SUBSET Branches,
         Begin(d, S), \A b \in S : Requested(b)
  PROVE  IndInv'
<1>. USE DEF IndInv, Begin, Forget, github, picks
<1>1. TypeOK'
  BY UsersAssumption DEF TypeOK
<1>2. \A e \in Deliveries : e # d => /\ pc'[e] = pc[e] /\ todo'[e] = todo[e]
                                     /\ payload'[e] = payload[e]
                                     /\ kind'[e] = kind[e] /\ by'[e] = by[e]
                                     /\ asked'[e] = asked[e]
  BY DEF TypeOK
<1>3. pc'[d] = "loop" /\ todo'[d] = S /\ asked'[d] = S
  BY DEF TypeOK
<1>4. Mutex' /\ PushedByOpener' /\ Authorized'
  BY <1>2, <1>3 DEF Mutex, PushedByOpener, Authorized, Working
<1>5. Accounted'
  BY <1>2, <1>3 DEF Accounted, Working
<1>6. Reported' /\ Obeyed'
  BY <1>2, <1>3 DEF Reported, Obeyed, Requested, TrustedCommands, Working
<1>. QED
  BY <1>1, <1>4, <1>5, <1>6

\* A comment is obeyed if its author is trusted and the pull request that was
\* closed in the payload is merged.
LEMMA CommentStep ==
  ASSUME IndInv, NEW d \in Deliveries, handleIssueComment(d)
  PROVE  IndInv'
<1>. DEFINE commands == todo[d] \ {Base}
<1>1. CASE \E error \in BOOLEAN : GiveUp(d, error)
  BY <1>1, GiveUpStep DEF handleIssueComment
<1>2. CASE pr = "merged" /\ isTrustedUser(by[d]) /\ Begin(d, commands)
  <2>1. commands \in SUBSET Branches
    BY DEF IndInv, TypeOK
  <2>2. \A b \in commands : Requested(b)
    BY <1>2 DEF IndInv, Reported, Requested, handleIssueComment, isTrustedUser
  <2>. HIDE DEF commands
  <2>. QED
    BY <1>2, <2>1, <2>2, BeginStep
<1>. QED
  BY <1>1, <1>2 DEF handleIssueComment

\* Only the commands of trusted users are listed.
LEMMA ListCommentsStep ==
  ASSUME IndInv, NEW d \in Deliveries, ListComments(d)
  PROVE  IndInv'
<1>1. CASE \E error \in BOOLEAN : GiveUp(d, error)
  BY <1>1, GiveUpStep DEF ListComments
<1>2. CASE /\ payload[d] = "merged"
           /\ todo' = [todo EXCEPT ![d] = TrustedCommands]
           /\ pc' = [pc EXCEPT ![d] = "listed"]
           /\ UNCHANGED <<github, delivery, asked, cur, lock, picks, attempted, lost>>
  <2>. USE <1>2 DEF IndInv, ListComments, github, delivery, picks
  <2>0. TrustedCommands \subseteq Branches
    BY DEF TrustedCommands
  <2>1. TypeOK'
    BY <2>0 DEF TypeOK
  <2>2. \A e \in Deliveries : e # d => pc'[e] = pc[e] /\ todo'[e] = todo[e]
    BY DEF TypeOK
  <2>3. pc'[d] = "listed" /\ todo'[d] = TrustedCommands
    BY DEF TypeOK
  <2>4. Mutex' /\ PushedByOpener' /\ Authorized'
    BY <2>2, <2>3 DEF Mutex, PushedByOpener, Authorized, Working
  <2>5. Accounted'
    BY <2>2, <2>3 DEF Accounted, Working
  <2>6. TrustedCommands' = TrustedCommands
    BY DEF TrustedCommands
  <2>7. Reported' /\ Obeyed'
    BY <2>2, <2>3, <2>6 DEF Reported, Obeyed, Requested, Working
  <2>. QED
    BY <2>1, <2>4, <2>5, <2>7
<1>. QED
  BY <1>1, <1>2 DEF ListComments

\* Labels are requests of the author, if he is trusted.
LEMMA ReadLabelsStep ==
  ASSUME IndInv, NEW d \in Deliveries, ReadLabels(d)
  PROVE  IndInv'
<1>. DEFINE S == (todo[d] \cup {b \in labels : Author \in listTrustedUsers}) \ {Base}
<1>1. CASE \E error \in BOOLEAN : GiveUp(d, error)
  BY <1>1, GiveUpStep DEF ReadLabels
<1>2. CASE Begin(d, S)
  <2>1. S \in SUBSET Branches
    BY DEF IndInv, TypeOK
  <2>2. \A b \in S : Requested(b)
    BY DEF IndInv, Reported, Requested, ReadLabels, TrustedCommands,
           listTrustedUsers, isTrustedUser
  <2>. HIDE DEF S
  <2>. QED
    BY <1>2, <2>1, <2>2, BeginStep
<1>. QED
  BY <1>1, <1>2 DEF ReadLabels

-----------------------------------------------------------------------------
(* handle.                                                                 *)

\* A free mutex is taken for a branch that is asked for.
LEMMA LockStep ==
  ASSUME IndInv, NEW d \in Deliveries, NEW b \in Branches, Lock(d, b)
  PROVE  IndInv'
<1>. USE DEF IndInv, Lock, Free, github, delivery, picks
<1>1. TypeOK'
  BY DEF TypeOK, Working
<1>2. \A e \in Deliveries : e # d => /\ pc'[e] = pc[e] /\ todo'[e] = todo[e]
                                     /\ cur'[e] = cur[e]
  BY DEF TypeOK
<1>3. pc'[d] = "locked" /\ todo'[d] = todo[d] \ {b} /\ cur'[d] = b /\ lock'[b] = d
  BY DEF TypeOK
<1>4. Mutex'
  BY <1>2, <1>3, NoneAssumption DEF Mutex, TypeOK
<1>5. PushedByOpener' /\ Authorized'
  BY <1>2, <1>3 DEF PushedByOpener, Authorized
<1>6. Accounted'
  BY <1>2, <1>3 DEF Accounted, Working
<1>7. Reported' /\ Obeyed'
  BY <1>2, <1>3 DEF Reported, Obeyed, Requested, TrustedCommands, Working
<1>. QED
  BY <1>1, <1>4, <1>5, <1>6, <1>7

\* A return gives the mutex back that the goroutine holds and no other, and the
\* branch counts as attempted.
LEMMA ReturnStep ==
  ASSUME IndInv, NEW d \in Deliveries, pc[d] \in Working, Return(d)
  PROVE  /\ Mutex' /\ Reported' /\ Obeyed' /\ Accounted'
         /\ pc' = [pc EXCEPT ![d] = "loop"]
         /\ cur' = [cur EXCEPT ![d] = None]
         /\ lock' \in [Branches -> Deliveries \cup {None}]
         /\ attempted' \subseteq Deliveries \X Branches
         /\ UNCHANGED <<pr, comments, labels, kind, payload, by, todo, asked, lost>>
<1>. USE DEF IndInv, Return, github, delivery
<1>1. \A e \in Deliveries : e # d => pc'[e] = pc[e] /\ cur'[e] = cur[e]
  BY DEF TypeOK
<1>2. pc'[d] = "loop" /\ cur[d] \in Branches
  BY DEF TypeOK, Mutex
<1>3. Mutex'
  BY <1>1, <1>2 DEF Mutex, TypeOK, Working
<1>4. Accounted'
  BY <1>1, <1>2 DEF Accounted, Working
<1>5. Reported' /\ Obeyed'
  BY <1>1, <1>2 DEF Reported, Obeyed, Requested, TrustedCommands, Working
<1>6. /\ lock' \in [Branches -> Deliveries \cup {None}]
      /\ attempted' \subseteq Deliveries \X Branches
  BY <1>2 DEF TypeOK
<1>. QED
  BY <1>3, <1>4, <1>5, <1>6

\* From one step of handle to the next the goroutine keeps its mutex.
LEMMA ProceedStep ==
  ASSUME IndInv, NEW d \in Deliveries, pc[d] \in Working,
         NEW step \in Working, Proceed(d, step)
  PROVE  /\ Mutex' /\ Reported' /\ Obeyed' /\ Accounted'
         /\ pc' = [pc EXCEPT ![d] = step]
         /\ UNCHANGED <<pr, comments, labels, kind, payload, by, todo, asked, cur,
                        lock, attempted, lost>>
<1>. USE DEF IndInv, Proceed, github, delivery
<1>1. \A e \in Deliveries : e # d => pc'[e] = pc[e]
  BY DEF TypeOK
<1>2. pc'[d] = step
  BY DEF TypeOK
<1>3. Mutex'
  BY <1>1, <1>2 DEF Mutex
<1>4. Accounted'
  BY <1>1, <1>2 DEF Accounted, Working
<1>5. Reported' /\ Obeyed'
  BY <1>1, <1>2 DEF Reported, Obeyed, Requested, TrustedCommands, Working
<1>. QED
  BY <1>3, <1>4, <1>5

\* No cherry-pick of another delivery stands in between two steps of one that
\* holds the mutex.
LEMMA OthersElsewhere ==
  ASSUME IndInv, NEW d \in Deliveries, NEW e \in Deliveries, d # e,
         pc[d] \in Working, pc[e] \in Working
  PROVE  cur[d] # cur[e]
<1>. QED
  BY DEF IndInv, Mutex

\* handle goes on to the push if it finds no cherry-pick.
LEMMA PrepareStep ==
  ASSUME IndInv, NEW d \in Deliveries, Prepare(d)
  PROVE  IndInv'
<1>1. pc[d] \in Working
  BY DEF Prepare, Working
<1>2. CASE Return(d)
  <2>. USE <1>2 DEF IndInv, Prepare, picks
  <2>1. Mutex' /\ Reported' /\ Obeyed' /\ Accounted' /\ TypeOK'
    BY <1>1, ReturnStep DEF TypeOK
  <2>2. \A e \in Deliveries : pc'[e] \in {pc[e], "loop"}
                                /\ (e # d => cur'[e] = cur[e] /\ pc'[e] = pc[e])
                                /\ pc'[d] = "loop"
    BY DEF Return, TypeOK
  <2>3. PushedByOpener' /\ Authorized'
    BY <2>2 DEF PushedByOpener, Authorized, Return, github
  <2>. QED
    BY <2>1, <2>3
<1>3. CASE ~(BranchExists(cur[d]) /\ HasPick(cur[d])) /\ Proceed(d, "applied")
  <2>. USE <1>3 DEF IndInv, Prepare, picks
  <2>1. Mutex' /\ Reported' /\ Obeyed' /\ Accounted' /\ TypeOK'
    BY <1>1, ProceedStep DEF TypeOK, Working
  <2>2. /\ pc'[d] = "applied"
        /\ \A e \in Deliveries : e # d => pc'[e] = pc[e]
        /\ cur' = cur
    BY DEF Proceed, TypeOK
  <2>3. PushedByOpener' /\ Authorized'
    BY <2>2 DEF PushedByOpener, Authorized, Proceed, github
  <2>. QED
    BY <2>1, <2>3
<1>. QED
  BY <1>2, <1>3 DEF Prepare

\* A push writes the branch the goroutine holds the mutex of.
LEMMA PushStep ==
  ASSUME IndInv, NEW d \in Deliveries, Push(d)
  PROVE  IndInv'
<1>1. pc[d] \in Working
  BY DEF Push, Working
<1>2. CASE Return(d) /\ UNCHANGED branch
  <2>. USE <1>2 DEF IndInv, Push
  <2>1. Mutex' /\ Reported' /\ Obeyed' /\ Accounted' /\ TypeOK'
    BY <1>1, ReturnStep DEF TypeOK
  <2>2. \A e \in Deliveries : pc'[d] = "loop"
                                /\ (e # d => cur'[e] = cur[e] /\ pc'[e] = pc[e])
    BY DEF Return, TypeOK
  <2>3. PushedByOpener' /\ Authorized'
    BY <2>2 DEF PushedByOpener, Authorized, Return, github
  <2>. QED
    BY <2>1, <2>3
<1>3. CASE branch' = [branch EXCEPT ![cur[d]] = d] /\ Proceed(d, "pushed")
  <2>. USE <1>3 DEF IndInv, Push
  <2>1. Mutex' /\ Reported' /\ Obeyed' /\ Accounted' /\ TypeOK'
    BY <1>1, ProceedStep DEF TypeOK, Working
  <2>2. /\ pc'[d] = "pushed"
        /\ \A e \in Deliveries : e # d => pc'[e] = pc[e]
        /\ cur' = cur
    BY DEF Proceed, TypeOK
  <2>3. cur[d] \in Branches /\ Requested(cur[d])
    BY <1>1 DEF Mutex, Obeyed
  <2>4. PushedByOpener'
    <3>. SUFFICES ASSUME NEW e \in Deliveries, pc'[e] = "pushed"
                  PROVE  branch'[cur[e]] \in {e, "edited", None}
      BY <2>2 DEF PushedByOpener
    <3>1. CASE e = d
      BY <2>3, <3>1 DEF TypeOK
    <3>2. CASE e # d
      <4>1. pc[e] = "pushed" /\ cur[e] # cur[d] /\ cur[e] \in Branches
        BY <1>1, <2>2, <3>2, OthersElsewhere DEF Working, Mutex
      <4>. QED
        BY <2>3, <4>1 DEF PushedByOpener, TypeOK
    <3>. QED
      BY <3>1, <3>2
  <2>5. Authorized'
    BY <2>3 DEF Authorized, Requested, Proceed, github, TypeOK
  <2>. QED
    BY <2>1, <2>4, <2>5
<1>. QED
  BY <1>2, <1>3 DEF Push

\* A cherry-pick is opened by the holder of the mutex.
LEMMA OpenStep ==
  ASSUME IndInv, NEW d \in Deliveries, Open(d)
  PROVE  IndInv'
<1>. USE DEF IndInv
<1>1. pc[d] \in Working
  BY DEF Open, Working
<1>2. cur[d] \in Branches /\ Requested(cur[d])
  BY <1>1 DEF Mutex, Obeyed
<1>3. Return(d) \/ Proceed(d, "opened")
  BY DEF Open
<1>4. /\ branch' = branch
      /\ pick' \in [Branches -> {"none", "open", "closed"}]
      /\ \A b \in Branches : b # cur[d] => pick'[b] = pick[b]
  BY <1>2 DEF Open, TypeOK
<1>5. /\ UNCHANGED github
      /\ pc'[d] \in {"loop", "opened"}
      /\ \A e \in Deliveries : e # d => pc'[e] = pc[e] /\ cur'[e] = cur[e]
  BY <1>3 DEF Return, Proceed, TypeOK
<1>6. Mutex' /\ Reported' /\ Obeyed' /\ Accounted' /\ TypeOK'
  <2>1. CASE Return(d)
    BY <1>1, <1>4, <2>1, ReturnStep DEF TypeOK
  <2>2. CASE Proceed(d, "opened")
    BY <1>1, <1>4, <2>2, ProceedStep DEF TypeOK, Working
  <2>. QED
    BY <1>3, <2>1, <2>2
<1>7. PushedByOpener'
  BY <1>4, <1>5 DEF PushedByOpener
<1>8. Authorized'
  BY <1>2, <1>4, <1>5 DEF Authorized, Requested, github
<1>. QED
  BY <1>6, <1>7, <1>8

\* What follows the pull request changes no branch and opens nothing.
LEMMA CompleteStep ==
  ASSUME IndInv, NEW d \in Deliveries, Complete(d)
  PROVE  IndInv'
<1>. USE DEF IndInv, Complete, picks
<1>1. pc[d] \in Working
  BY DEF Working
<1>2. Mutex' /\ Reported' /\ Obeyed' /\ Accounted' /\ TypeOK'
  BY <1>1, ReturnStep DEF TypeOK
<1>3. \A e \in Deliveries : pc'[d] = "loop"
                              /\ (e # d => cur'[e] = cur[e] /\ pc'[e] = pc[e])
  BY DEF Return, TypeOK
<1>4. PushedByOpener' /\ Authorized'
  BY <1>3 DEF PushedByOpener, Authorized, Return, github
<1>. QED
  BY <1>2, <1>4

\* A loop that has nothing left has attempted everything.
LEMMA LoopEndsStep ==
  ASSUME IndInv, NEW d \in Deliveries, LoopEnds(d)
  PROVE  IndInv'
<1>. USE DEF IndInv, LoopEnds, github, delivery, picks
<1>1. TypeOK'
  BY DEF TypeOK
<1>2. pc'[d] = "done" /\ \A e \in Deliveries : e # d => pc'[e] = pc[e]
  BY DEF TypeOK
<1>3. Mutex' /\ PushedByOpener' /\ Authorized'
  BY <1>2 DEF Mutex, PushedByOpener, Authorized, Working
<1>4. Accounted'
  BY <1>2 DEF Accounted, Working
<1>5. Reported' /\ Obeyed'
  BY <1>2 DEF Reported, Obeyed, Requested, TrustedCommands, Working
<1>. QED
  BY <1>1, <1>3, <1>4, <1>5

\* A restart ends every goroutine and frees every mutex at once.
LEMMA RestartStep ==
  ASSUME IndInv, Restart
  PROVE  IndInv'
<1>. USE DEF IndInv, Restart, github, delivery, picks
<1>1. TypeOK'
  BY DEF TypeOK
<1>2. \A d \in Deliveries : pc'[d] = IF pc[d] = "new" THEN "new" ELSE "done"
  OBVIOUS
<1>3. Mutex' /\ PushedByOpener' /\ Authorized'
  BY <1>2 DEF Mutex, PushedByOpener, Authorized, Working
<1>4. Accounted'
  BY <1>2 DEF Accounted, Working
<1>5. Reported' /\ Obeyed'
  BY <1>2 DEF Reported, Obeyed, Working
<1>. QED
  BY <1>1, <1>3, <1>4, <1>5

-----------------------------------------------------------------------------
(* The invariant.                                                          *)

\* Before the first event nothing is asked for and nothing exists.
LEMMA Initially == Init => IndInv
<1>. SUFFICES ASSUME Init PROVE IndInv
  OBVIOUS
<1>1. TypeOK
  BY BranchesAssumption, UsersAssumption DEF Init, TypeOK
<1>2. /\ Mutex /\ Reported /\ Obeyed /\ Authorized /\ PushedByOpener
      /\ Accounted
  BY DEF Init, Mutex, Reported, Obeyed, Authorized, PushedByOpener, Accounted,
         Working
<1>. QED
  BY <1>1, <1>2 DEF IndInv

\* A step that changes nothing keeps the invariant.
LEMMA StutterStep ==
  ASSUME IndInv, UNCHANGED vars
  PROVE  IndInv'
<1>. USE DEF IndInv, vars, github, delivery, picks
<1>1. TypeOK' /\ Mutex' /\ Accounted'
  BY DEF TypeOK, Mutex, Accounted
<1>2. Reported' /\ Obeyed' /\ Authorized' /\ PushedByOpener'
  BY DEF Reported, Obeyed, Authorized, PushedByOpener, Requested, TrustedCommands
<1>. QED
  BY <1>1, <1>2

\* Every step, of a goroutine, of a user or of the plugin, keeps it.
LEMMA Inductive == IndInv /\ [Next]_vars => IndInv'
<1>. SUFFICES ASSUME IndInv, [Next]_vars PROVE IndInv'
  OBVIOUS
<1>1. ASSUME NEW d \in Deliveries, Goroutine(d) PROVE IndInv'
  BY <1>1, CommentStep, ListCommentsStep, ReadLabelsStep, LockStep, PrepareStep,
     PushStep, OpenStep, CompleteStep, LoopEndsStep DEF Goroutine
<1>. QED
  BY <1>1, EventStep, MaintainersStep, RestartStep, StutterStep DEF Next, Idle

\* What the theorems below rest on holds in every run.
THEOREM Invariance == Spec => []IndInv
<1>. QED
  BY Initially, Inductive, PTL DEF Spec

-----------------------------------------------------------------------------
(* What follows.                                                           *)

\* The state of the plugin keeps its form through errors and restarts.
THEOREM TypeCorrect == Spec => []TypeOK
<1>1. IndInv => TypeOK
  BY DEF IndInv
<1>. QED
  BY <1>1, Invariance, PTL

\* lockMap: of all the goroutines one at a time handles a branch.
THEOREM OneHandlerPerBranch ==
  Spec => [](\A d, e \in Deliveries :
               pc[d] \in Working /\ pc[e] \in Working /\ cur[d] = cur[e] => d = e)
<1>1. IndInv => \A d, e \in Deliveries :
                  pc[d] \in Working /\ pc[e] \in Working /\ cur[d] = cur[e] => d = e
  BY DEF IndInv, Mutex
<1>. QED
  BY <1>1, Invariance, PTL

\* handleIssueComment and handlePullRequest create cherry-picks of merged pull
\* requests only, for branches that trusted users have asked for.
THEOREM CherryPicksAuthorized == Spec => []Authorized
<1>1. IndInv => Authorized
  BY DEF IndInv
<1>. QED
  BY <1>1, Invariance, PTL

\* From its push to its pull request a goroutine shares the branch with
\* maintainers at most, never with another delivery.
THEOREM OpenerHasPushed == Spec => []PushedByOpener
<1>1. IndInv => PushedByOpener
  BY DEF IndInv
<1>. QED
  BY <1>1, Invariance, PTL

\* A failure in one cherry-pick does not prevent the remaining ones.
THEOREM NoTargetSkipped == Spec => []AllAttempted
<1>1. IndInv => AllAttempted
  BY DEF IndInv, Accounted, AllAttempted
<1>. QED
  BY <1>1, Invariance, PTL
=============================================================================
