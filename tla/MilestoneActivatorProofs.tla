---------------------- MODULE MilestoneActivatorProofs ----------------------
(***************************************************************************)
(* Theorems about MilestoneActivator, for any files, titles and bounds,    *)
(* whatever stands in the files.                                           *)
(* First what the operations on one line do, then what a file whose lines  *)
(* are treated so keeps, then the steps.                                   *)
(***************************************************************************)
EXTENDS MilestoneActivator, FiniteSetTheorems, SequenceTheorems, WellFoundedInduction, TLAPS

-----------------------------------------------------------------------------
(* Numbers.                                                                *)

\* What is not empty has a least number.
LEMMA Least ==
  ASSUME NEW T \in SUBSET Nat, T # {}
  PROVE  \E x \in T : \A y \in T : x <= y
<1>1. PICK x \in T : \A y \in T : <<y, x>> \notin OpToRel(<, Nat)
  BY NatLessThanWellFounded, WFMin
<1>2. \A y \in T : ~(y < x)
  BY <1>1 DEF OpToRel
<1>. QED
  BY <1>2

\* If there is a bound, it has a greatest number.
LEMMA Greatest ==
  ASSUME NEW m \in Nat, NEW S \in SUBSET (1 .. m), S # {}
  PROVE  \E x \in S : \A y \in S : y <= x
<1>. DEFINE T == {m - y : y \in S}
<1>1. T \in SUBSET Nat
  <2>1. \A y \in 1 .. m : m - y \in Nat
    OBVIOUS
  <2>. QED
    BY <2>1
<1>2. T # {}
  OBVIOUS
<1>3. PICK z \in T : \A y \in T : z <= y
  <2>. HIDE DEF T
  <2>. QED
    BY <1>1, <1>2, Least
<1>4. PICK x \in S : z = m - x
  OBVIOUS
<1>5. ASSUME NEW y \in S PROVE y <= x
  <2>1. m - y \in T
    OBVIOUS
  <2>2. m - x <= m - y
    BY <2>1, <1>3, <1>4
  <2>3. x \in Nat /\ y \in Nat
    OBVIOUS
  <2>. HIDE DEF T
  <2>. QED
    BY <2>2, <2>3
<1>. QED
  BY <1>5

-----------------------------------------------------------------------------
(* Lines.                                                                  *)

\* A line begins with n spaces, or more.
Leading(line, n) == n <= Len(line) /\ \A i \in 1 .. n : line[i] = "space"

\* Where an indentation of n ends.
Ends(line, n) == n < Len(line) => line[n + 1] # "space"

\* Every line has one indentation.
LEMMA IndentOK ==
  ASSUME NEW line \in Seq(Token)
  PROVE  /\ indent(line) \in 0 .. Len(line)
         /\ Leading(line, indent(line))
         /\ Ends(line, indent(line))
<1>. DEFINE P(n) == \A i \in 1 .. n : line[i] = "space"
            S == {n \in 0 .. Len(line) : n < Len(line) /\ line[n + 1] # "space"}
<1>0. Len(line) \in Nat
  OBVIOUS
<1>1. \E n \in 0 .. Len(line) : P(n) /\ Ends(line, n)
  <2>1. CASE S = {}
    <3>1. ASSUME NEW i \in 1 .. Len(line) PROVE line[i] = "space"
      <4>1. i - 1 \in 0 .. Len(line) /\ i - 1 < Len(line) /\ (i - 1) + 1 = i
        BY <1>0
      <4>. QED
        BY <2>1, <4>1
    <3>2. Len(line) \in 0 .. Len(line) /\ ~(Len(line) < Len(line))
      BY <1>0
    <3>. QED
      BY <3>1, <3>2 DEF Ends
  <2>2. CASE S # {}
    <3>1. PICK n \in S : \A y \in S : n <= y
      <4>1. S \in SUBSET Nat
        BY <1>0
      <4>. HIDE DEF S
      <4>. QED
        BY <2>2, <4>1, Least
    <3>2. n \in 0 .. Len(line) /\ Ends(line, n)
      BY <3>1 DEF Ends
    <3>3. ASSUME NEW i \in 1 .. n PROVE line[i] = "space"
      <4>1. i - 1 \in 0 .. Len(line) /\ i - 1 < Len(line) /\ (i - 1) + 1 = i /\ ~(n <= i - 1)
        BY <1>0, <3>2
      <4>. QED
        BY <3>1, <4>1
    <3>. QED
      BY <3>2, <3>3
  <2>. QED
    BY <2>1, <2>2
<1>2. indent(line) = CHOOSE n \in 0 .. Len(line) : P(n) /\ Ends(line, n)
  BY DEF indent, Ends
<1>3. indent(line) \in 0 .. Len(line) /\ P(indent(line)) /\ Ends(line, indent(line))
  <2>. HIDE DEF P
  <2>. QED
    BY <1>1, <1>2
<1>. DEFINE k == indent(line)
<1>4. k \in 0 .. Len(line) /\ P(k) /\ Ends(line, k)
  BY <1>3
<1>. HIDE DEF k
<1>5. k <= Len(line)
  BY <1>0, <1>4
<1>6. Leading(line, k)
  BY <1>4, <1>5 DEF Leading
<1>. QED
  BY <1>4, <1>6 DEF k

\* What it means for it to be no less than n.
LEMMA IndentAtLeast ==
  ASSUME NEW line \in Seq(Token), NEW n \in Nat
  PROVE  indent(line) >= n <=> Leading(line, n)
<1>. DEFINE k == indent(line)
            m == Len(line)
<1>1. k \in 0 .. m /\ m \in Nat /\ (\A i \in 1 .. k : line[i] = "space") /\ (k < m => line[k + 1] # "space")
  BY IndentOK DEF Leading, Ends
<1>2. Leading(line, n) <=> n <= m /\ \A i \in 1 .. n : line[i] = "space"
  BY DEF Leading
<1>. HIDE DEF k, m
<1>3. ASSUME k >= n PROVE n <= m /\ \A i \in 1 .. n : line[i] = "space"
  BY <1>1, <1>3
<1>4. ASSUME ~(k >= n), n <= m PROVE ~\A i \in 1 .. n : line[i] = "space"
  <2>1. k + 1 \in 1 .. n /\ k < m
    BY <1>1, <1>4
  <2>. QED
    BY <1>1, <2>1
<1>5. k >= n <=> Leading(line, n)
  BY <1>2, <1>3, <1>4
<1>. QED
  BY <1>5 DEF k

\* A comment behind n spaces.
CommentAt(line, n) == /\ Leading(line, n) /\ n + 2 <= Len(line)
                      /\ line[n + 1] = "#" /\ line[n + 2] = "space"

\* A comment behind any indentation is one behind some leading spaces.
LEMMA CommentAnywhere ==
  ASSUME NEW line \in Seq(Token)
  PROVE  isComment(line) <=> \E n \in Nat : CommentAt(line, n)
<1>1. ASSUME isComment(line)
      PROVE  \E n \in Nat : CommentAt(line, n)
  <2>1. CommentAt(line, indent(line))
    BY <1>1, IndentOK DEF isComment, CommentAt
  <2>2. indent(line) \in Nat
    BY IndentOK
  <2>. QED
    BY <2>1, <2>2
<1>2. ASSUME NEW n \in Nat, CommentAt(line, n)
      PROVE  isComment(line)
  <2>1. Leading(line, n) /\ n + 2 <= Len(line) /\ line[n + 1] = "#" /\ line[n + 2] = "space"
    BY <1>2 DEF CommentAt
  <2>2. ~Leading(line, n + 1)
    BY <2>1 DEF Leading
  <2>3. indent(line) >= n /\ ~(indent(line) >= n + 1)
    BY <2>1, <2>2, IndentAtLeast
  <2>4. indent(line) \in Nat
    BY IndentOK
  <2>5. indent(line) = n
    <3>. DEFINE k == indent(line)
    <3>1. k >= n /\ ~(k >= n + 1) /\ k \in Nat
      BY <2>3, <2>4
    <3>. HIDE DEF k
    <3>2. k = n
      BY <3>1
    <3>. QED
      BY <3>2 DEF k
  <2>. QED
    BY <2>1, <2>5 DEF isComment
<1>. QED
  BY <1>1, <1>2

\* The parts of a line on both sides of the offset.
LEMMA Parts ==
  ASSUME NEW line \in Seq(Token), NEW n \in 0 .. Len(line)
  PROVE  /\ upTo(line, n) \in Seq(Token) /\ Len(upTo(line, n)) = n
         /\ \A i \in 1 .. n : upTo(line, n)[i] = line[i]
         /\ after(line, n) \in Seq(Token) /\ Len(after(line, n)) = Len(line) - n
         /\ \A i \in 1 .. Len(line) - n : after(line, n)[i] = line[n + i]
<1>. DEFINE left  == SubSeq(line, 1, n)
            right == SubSeq(line, n + 1, Len(line))
<1>1. Len(line) \in Nat /\ n <= Len(line) /\ \A i \in 1 .. Len(line) : line[i] \in Token
  OBVIOUS
<1>2. /\ left \in Seq(Token) /\ Len(left) = n
      /\ \A i \in 1 .. n : left[i] = line[i]
  <2>1. \A i \in 1 .. n : line[i] \in Token
    BY <1>1
  <2>. HIDE DEF left
  <2>2. /\ left \in Seq(Token) /\ Len(left) = IF 1 <= n THEN n - 1 + 1 ELSE 0
        /\ \A i \in 1 .. n - 1 + 1 : left[i] = line[1 + i - 1]
    BY <2>1, SubSeqProperties, 1 \in Int, n \in Int DEF left
  <2>. QED
    BY <1>1, <2>2
<1>3. /\ right \in Seq(Token) /\ Len(right) = Len(line) - n
      /\ \A i \in 1 .. Len(line) - n : right[i] = line[n + i]
  <2>1. \A i \in n + 1 .. Len(line) : line[i] \in Token
    BY <1>1
  <2>. HIDE DEF right
  <2>2. /\ right \in Seq(Token)
        /\ Len(right) = IF n + 1 <= Len(line) THEN Len(line) - (n + 1) + 1 ELSE 0
        /\ \A i \in 1 .. Len(line) - (n + 1) + 1 : right[i] = line[n + 1 + i - 1]
    BY <1>1, <2>1, SubSeqProperties, n + 1 \in Int, Len(line) \in Int DEF right
  <2>3. \A i \in 1 .. Len(line) - n : n + 1 + i - 1 = n + i
    BY <1>1
  <2>. QED
    BY <1>1, <2>2, <2>3
<1>. QED
  BY <1>2, <1>3 DEF upTo, after

\* Commented out, a line has the two tokens at the offset.
LEMMA CommentOutIs ==
  ASSUME NEW line \in Seq(Token), NEW n \in 0 .. Len(line)
  PROVE  /\ commentOut(line, n) \in Seq(Token)
         /\ Len(commentOut(line, n)) = Len(line) + 2
         /\ \A i \in 1 .. n : commentOut(line, n)[i] = line[i]
         /\ commentOut(line, n)[n + 1] = "#" /\ commentOut(line, n)[n + 2] = "space"
         /\ \A i \in n + 1 .. Len(line) : commentOut(line, n)[i + 2] = line[i]
<1>. DEFINE mark == <<"#", "space">>
            left == upTo(line, n)
            right == after(line, n)
<1>1. mark \in Seq(Token) /\ Len(mark) = 2 /\ mark[1] = "#" /\ mark[2] = "space"
  BY DEF Token
<1>2. /\ left \in Seq(Token) /\ Len(left) = n
      /\ \A i \in 1 .. n : left[i] = line[i]
      /\ right \in Seq(Token) /\ Len(right) = Len(line) - n
      /\ \A i \in 1 .. Len(line) - n : right[i] = line[n + i]
  BY Parts
<1>3. commentOut(line, n) = (left \o mark) \o right
  BY DEF commentOut
<1>. HIDE DEF mark, left, right
<1>. DEFINE front == left \o mark
<1>n. n \in Nat
  OBVIOUS
<1>4. /\ front \in Seq(Token) /\ Len(front) = n + 2
      /\ \A i \in 1 .. n : front[i] = line[i]
      /\ front[n + 1] = "#" /\ front[n + 2] = "space"
  <2>0. left \in Seq(Token) /\ mark \in Seq(Token)
    BY <1>1, <1>2
  <2>1. /\ front \in Seq(Token) /\ Len(front) = Len(left) + Len(mark)
        /\ \A i \in 1 .. Len(left) + Len(mark) :
             front[i] = IF i <= Len(left) THEN left[i] ELSE mark[i - Len(left)]
    BY <2>0, ConcatProperties
  <2>. HIDE DEF front
  <2>2. Len(left) + Len(mark) = n + 2
    BY <1>1, <1>2
  <2>3. \A i \in 1 .. n : front[i] = line[i]
    BY <1>2, <2>1, <2>2
  <2>4. front[n + 1] = mark[1] /\ front[n + 2] = mark[2]
    <3>1. n + 1 \in 1 .. n + 2 /\ ~(n + 1 <= n) /\ n + 1 - n = 1
      OBVIOUS
    <3>2. n + 2 \in 1 .. n + 2 /\ ~(n + 2 <= n) /\ n + 2 - n = 2
      OBVIOUS
    <3>. QED
      BY <1>2, <2>1, <2>2, <3>1, <3>2
  <2>. QED
    BY <1>1, <2>1, <2>2, <2>3, <2>4
<1>5. commentOut(line, n) = front \o right
  BY <1>3
<1>. HIDE DEF front
<1>6. \A i \in n + 1 .. Len(line) : right[i - n] = line[i]
  BY <1>2
<1>. QED
  BY <1>2, <1>4, <1>5, <1>6

\* A line with one of these tokens is no marker.
LEMMA NoMarker ==
  ASSUME NEW line \in Seq(Token), NEW i \in 1 .. Len(line), line[i] \in {"#", "milestone:"}
  PROVE  ~isMarker(line, "start") /\ ~isMarker(line, "end")
BY DEF isMarker

\* Where there is a comment at the offset, uncomment removes the two tokens.
LEMMA UncommentIs ==
  ASSUME NEW line \in Seq(Token), NEW n \in Nat, n + 2 <= Len(line),
         line[n + 1] = "#", line[n + 2] = "space"
  PROVE  /\ uncomment(line, n) \in Seq(Token)
         /\ Len(uncomment(line, n)) = Len(line) - 2
         /\ \A i \in 1 .. n : uncomment(line, n)[i] = line[i]
         /\ \A i \in n + 1 .. Len(line) - 2 : uncomment(line, n)[i] = line[i + 2]
<1>. DEFINE left  == upTo(line, n)
            right == after(line, n + 2)
            bare  == left \o right
<1>1. Len(line) \in Nat /\ n \in 0 .. Len(line) /\ n + 2 \in 0 .. Len(line)
  OBVIOUS
<1>2. /\ left \in Seq(Token) /\ Len(left) = n
      /\ \A i \in 1 .. n : left[i] = line[i]
      /\ right \in Seq(Token) /\ Len(right) = Len(line) - (n + 2)
      /\ \A i \in 1 .. Len(line) - (n + 2) : right[i] = line[n + 2 + i]
  BY <1>1, Parts
<1>3. uncomment(line, n) = bare
  BY DEF uncomment
<1>. HIDE DEF left, right
<1>4. /\ bare \in Seq(Token) /\ Len(bare) = Len(left) + Len(right)
      /\ \A i \in 1 .. Len(left) + Len(right) :
           bare[i] = IF i <= Len(left) THEN left[i] ELSE right[i - Len(left)]
  <2>1. left \in Seq(Token) /\ right \in Seq(Token)
    BY <1>2
  <2>. QED
    BY <2>1, ConcatProperties
<1>. HIDE DEF bare
<1>5. Len(bare) = Len(line) - 2
  BY <1>1, <1>2, <1>4
<1>6. \A i \in 1 .. Len(line) - 2 : bare[i] = IF i <= n THEN left[i] ELSE right[i - n]
  BY <1>1, <1>2, <1>4
<1>7. ASSUME NEW i \in 1 .. n PROVE bare[i] = line[i]
  <2>1. i \in 1 .. Len(line) - 2 /\ i <= n
    BY <1>1
  <2>. QED
    BY <1>2, <1>6, <2>1
<1>8. ASSUME NEW i \in n + 1 .. Len(line) - 2 PROVE bare[i] = line[i + 2]
  <2>1. i - n \in 1 .. Len(line) - (n + 2) /\ n + 2 + (i - n) = i + 2 /\ i \in 1 .. Len(line) - 2
    BY <1>1
  <2>. QED
    BY <1>2, <1>6, <2>1
<1>. QED
  BY <1>3, <1>4, <1>5, <1>7, <1>8

\* Uncommented, a line is still one.
LEMMA UncommentIsLine ==
  ASSUME NEW line \in Seq(Token), NEW n \in Nat
  PROVE  uncomment(line, n) \in Seq(Token)
<1>1. CASE n + 2 <= Len(line) /\ line[n + 1] = "#" /\ line[n + 2] = "space"
  BY <1>1, UncommentIs
<1>2. CASE ~(n + 2 <= Len(line) /\ line[n + 1] = "#" /\ line[n + 2] = "space")
  BY <1>2 DEF uncomment
<1>. QED
  BY <1>1, <1>2

\* A plain line is left as it is.
LEMMA UncommentPlain ==
  ASSUME NEW line \in Seq(Token), NEW n \in Nat, isPlain(line, n)
  PROVE  uncomment(line, n) = line
<1>1. ~CommentAt(line, n)
  BY CommentAnywhere DEF isPlain
<1>2. Leading(line, n)
  BY IndentAtLeast DEF isPlain
<1>. QED
  BY <1>1, <1>2 DEF CommentAt, uncomment

\* So is one that is no comment and plain without the comment.
LEMMA UncommentBare ==
  ASSUME NEW line \in Seq(Token), NEW n \in Nat, isPlain(uncomment(line, n), n),
         ~isComment(line)
  PROVE  uncomment(line, n) = line
<1>1. CASE n + 2 <= Len(line) /\ line[n + 1] = "#" /\ line[n + 2] = "space"
  <2>1. Leading(uncomment(line, n), n)
    BY UncommentIsLine, IndentAtLeast DEF isPlain
  <2>2. Leading(line, n)
    BY <1>1, <2>1, UncommentIs DEF Leading
  <2>3. CommentAt(line, n)
    BY <1>1, <2>2 DEF CommentAt
  <2>. QED
    BY <2>3, CommentAnywhere
<1>2. CASE ~(n + 2 <= Len(line) /\ line[n + 1] = "#" /\ line[n + 2] = "space")
  BY <1>2 DEF uncomment
<1>. QED
  BY <1>1, <1>2

\* Commented out, a plain line is a comment at the offset, and uncomment
\* restores it.
LEMMA CommentOutPlain ==
  ASSUME NEW line \in Seq(Token), NEW n \in Nat, isPlain(line, n)
  PROVE  /\ commentOut(line, n) \in Seq(Token)
         /\ isComment(commentOut(line, n))
         /\ ~isMarker(commentOut(line, n), "start") /\ ~isMarker(commentOut(line, n), "end")
         /\ uncomment(commentOut(line, n), n) = line
         /\ commentOut(line, n) # line
<1>. DEFINE c == commentOut(line, n)
<1>1. Leading(line, n)
  BY IndentAtLeast DEF isPlain
<1>2. n \in 0 .. Len(line) /\ Len(line) \in Nat
  BY <1>1 DEF Leading
<1>3. /\ c \in Seq(Token) /\ Len(c) = Len(line) + 2
      /\ \A i \in 1 .. n : c[i] = line[i]
      /\ c[n + 1] = "#" /\ c[n + 2] = "space"
      /\ \A i \in n + 1 .. Len(line) : c[i + 2] = line[i]
  BY <1>2, CommentOutIs
<1>. HIDE DEF c
<1>4. isComment(c)
  <2>1. CommentAt(c, n)
    BY <1>1, <1>2, <1>3 DEF CommentAt, Leading
  <2>. QED
    BY <1>3, <2>1, CommentAnywhere
<1>5. ~isMarker(c, "start") /\ ~isMarker(c, "end")
  <2>1. n + 1 \in 1 .. Len(c)
    BY <1>2, <1>3
  <2>. QED
    BY <1>3, <2>1, NoMarker
<1>6. uncomment(c, n) = line
  <2>. DEFINE u == uncomment(c, n)
  <2>. HIDE DEF u
  <2>1. n + 2 <= Len(c) /\ Len(c) - 2 = Len(line)
    BY <1>2, <1>3
  <2>a. /\ u \in Seq(Token) /\ Len(u) = Len(c) - 2
        /\ \A i \in 1 .. n : u[i] = c[i]
        /\ \A i \in n + 1 .. Len(c) - 2 : u[i] = c[i + 2]
    BY <1>3, <2>1, UncommentIs DEF u
  <2>2. /\ u \in Seq(Token) /\ Len(u) = Len(line)
        /\ \A i \in 1 .. n : u[i] = c[i]
        /\ \A i \in n + 1 .. Len(line) : u[i] = c[i + 2]
    BY <2>1, <2>a
  <2>3. \A i \in 1 .. Len(line) : u[i] = line[i]
    BY <1>2, <1>3, <2>2
  <2>4. u = line
    BY <2>2, <2>3, SeqEqual
  <2>. QED
    BY <2>4 DEF u
<1>. QED
  BY <1>2, <1>3, <1>4, <1>5, <1>6 DEF c

\* The last milestone: there is one of a line that has any.
LEMMA LastPropertyOK ==
  ASSUME NEW line \in Seq(Token), properties(line) # {}
  PROVE  /\ lastProperty(line) \in 1 .. Len(line)
         /\ line[lastProperty(line)] = "milestone:"
<1>1. properties(line) \in SUBSET (1 .. Len(line)) /\ Len(line) \in Nat
  BY DEF properties
<1>2. \E i \in properties(line) : \A j \in properties(line) : j <= i
  BY <1>1, Greatest
<1>3. lastProperty(line) \in properties(line)
  BY <1>2 DEF lastProperty
<1>. QED
  BY <1>1, <1>3 DEF properties

\* With a title, a plain line ends in two tokens after its last milestone:.
LEMMA WithTitleIs ==
  ASSUME NEW line \in Seq(Token), properties(line) # {}, NEW t \in Titles
  PROVE  LET q == lastProperty(line)
             w == withTitle(line, t)
         IN  /\ w \in Seq(Token) /\ Len(w) = q + 2
             /\ \A i \in 1 .. q : w[i] = line[i]
             /\ w[q + 1] = "space" /\ w[q + 2] = t
<1>1. PICK q \in 1 .. Len(line) : q = lastProperty(line)
  BY LastPropertyOK
<1>. DEFINE left == upTo(line, q)
            tail == <<"space", t>>
            w    == left \o tail
<1>2. tail \in Seq(Token) /\ Len(tail) = 2 /\ tail[1] = "space" /\ tail[2] = t
  BY DEF Token
<1>3. /\ q \in Nat
      /\ left \in Seq(Token) /\ Len(left) = q
      /\ \A i \in 1 .. q : left[i] = line[i]
  <2>1. q \in 0 .. Len(line) /\ q \in Nat
    OBVIOUS
  <2>. QED
    BY <2>1, Parts
<1>4. withTitle(line, t) = w
  BY <1>1 DEF withTitle
<1>. HIDE DEF left, tail
<1>5. /\ w \in Seq(Token) /\ Len(w) = Len(left) + Len(tail)
      /\ \A i \in 1 .. Len(left) + Len(tail) :
           w[i] = IF i <= Len(left) THEN left[i] ELSE tail[i - Len(left)]
  <2>1. left \in Seq(Token) /\ tail \in Seq(Token)
    BY <1>2, <1>3
  <2>. QED
    BY <2>1, ConcatProperties
<1>. HIDE DEF w
<1>6. Len(w) = q + 2 /\ \A i \in 1 .. q + 2 : w[i] = IF i <= q THEN left[i] ELSE tail[i - q]
  BY <1>2, <1>3, <1>5
<1>7. ASSUME NEW i \in 1 .. q PROVE w[i] = line[i]
  <2>1. i \in 1 .. q + 2 /\ i <= q
    BY <1>3
  <2>. QED
    BY <1>3, <1>6, <2>1
<1>8. w[q + 1] = "space" /\ w[q + 2] = t
  <2>1. /\ q + 1 \in 1 .. q + 2 /\ ~(q + 1 <= q) /\ q + 1 - q = 1
        /\ q + 2 \in 1 .. q + 2 /\ ~(q + 2 <= q) /\ q + 2 - q = 2
    BY <1>3
  <2>. QED
    BY <1>2, <1>6, <2>1
<1>9. w \in Seq(Token)
  BY <1>5
<1>. QED
  BY <1>1, <1>4, <1>6, <1>7, <1>8, <1>9

\* It is plain still, and the same line but for the title.
LEMMA WithTitlePlain ==
  ASSUME NEW line \in Seq(Token), NEW n \in Nat, isPlain(line, n), NEW t \in Titles
  PROVE  /\ withTitle(line, t) \in Seq(Token)
         /\ isPlain(withTitle(line, t), n)
         /\ untitled(withTitle(line, t)) = untitled(line)
<1>1. CASE properties(line) = {}
  BY <1>1 DEF withTitle
<1>2. CASE properties(line) # {}
  <2>1. PICK q \in 1 .. Len(line) : q = lastProperty(line) /\ line[q] = "milestone:"
    BY <1>2, LastPropertyOK
  <2>2. PICK w \in Seq(Token) : /\ w = withTitle(line, t) /\ Len(w) = q + 2
                                /\ \A i \in 1 .. q : w[i] = line[i]
                                /\ w[q + 1] = "space" /\ w[q + 2] = t
    BY <1>2, <2>1, WithTitleIs
  <2>3. t \notin {"#", "space", "milestone:"}
    BY ActivatorAssumption
  <2>4. Leading(line, n) /\ n < q
    <3>1. Leading(line, n)
      BY IndentAtLeast DEF isPlain
    <3>. QED
      BY <2>1, <3>1 DEF Leading
  <2>5. Leading(w, n)
    BY <2>1, <2>2, <2>4 DEF Leading
  <2>6. ASSUME NEW m \in Nat, CommentAt(w, m) PROVE FALSE
    <3>1. /\ m + 2 <= q + 2 /\ w[m + 1] = "#" /\ w[m + 2] = "space"
          /\ \A i \in 1 .. m : w[i] = "space"
      BY <2>2, <2>6 DEF CommentAt, Leading
    <3>2. m + 1 # q /\ m + 1 # q + 1 /\ m + 1 # q + 2
      BY <2>1, <2>2, <2>3, <3>1
    <3>3. m + 2 <= q
      BY <3>1, <3>2
    <3>4. CommentAt(line, m)
      <4>1. q <= Len(line) /\ Len(line) \in Nat /\ q \in Nat
        BY <2>1
      <4>2. /\ m + 1 \in 1 .. q /\ m + 2 \in 1 .. q /\ m + 2 <= Len(line) /\ m <= Len(line)
            /\ \A i \in 1 .. m : i \in 1 .. q
        BY <3>3, <4>1
      <4>3. /\ line[m + 1] = "#" /\ line[m + 2] = "space"
            /\ \A i \in 1 .. m : line[i] = "space"
        BY <2>2, <3>1, <4>2
      <4>. QED
        BY <4>2, <4>3 DEF CommentAt, Leading
    <3>. QED
      BY <3>4, CommentAnywhere DEF isPlain
  <2>7. isPlain(w, n)
    <3>1. q \in 1 .. Len(w) /\ w[q] = "milestone:"
      BY <2>1, <2>2
    <3>2. ~isMarker(w, "start") /\ ~isMarker(w, "end")
      BY <3>1, NoMarker
    <3>3. ~isComment(w)
      BY <2>6, CommentAnywhere
    <3>4. indent(w) >= n
      BY <2>5, IndentAtLeast
    <3>. QED
      BY <3>2, <3>3, <3>4 DEF isPlain
  <2>8. properties(w) = properties(line)
    <3>1. \A i \in DOMAIN line : line[i] = "milestone:" => i <= q
      <4>1. properties(line) \in SUBSET (1 .. Len(line)) /\ Len(line) \in Nat
        BY DEF properties
      <4>2. \E i \in properties(line) : \A j \in properties(line) : j <= i
        BY <1>2, <4>1, Greatest
      <4>3. \A j \in properties(line) : j <= q
        BY <2>1, <4>2 DEF lastProperty
      <4>. QED
        BY <4>3 DEF properties
    <3>2. ASSUME NEW i \in 1 .. Len(line), line[i] = "milestone:"
          PROVE  i \in 1 .. Len(w) /\ w[i] = "milestone:"
      BY <2>1, <2>2, <3>1, <3>2
    <3>3. ASSUME NEW i \in 1 .. Len(w), w[i] = "milestone:"
          PROVE  i \in 1 .. Len(line) /\ line[i] = "milestone:"
      <4>1. i # q + 1 /\ i # q + 2
        BY <2>2, <2>3, <3>3
      <4>2. i \in 1 .. q
        BY <2>1, <2>2, <4>1
      <4>. QED
        BY <2>1, <2>2, <3>3, <4>2
    <3>4. properties(w) = {i \in 1 .. Len(w) : w[i] = "milestone:"}
      BY DEF properties
    <3>5. properties(line) = {i \in 1 .. Len(line) : line[i] = "milestone:"}
      BY DEF properties
    <3>. QED
      BY <3>2, <3>3, <3>4, <3>5
  <2>9. upTo(w, q) = upTo(line, q)
    <3>1. q \in 0 .. Len(line) /\ q \in 0 .. Len(w) /\ q \in Nat
      BY <2>1, <2>2
    <3>2. /\ upTo(w, q) \in Seq(Token) /\ Len(upTo(w, q)) = q
          /\ \A i \in 1 .. q : upTo(w, q)[i] = w[i]
      BY <3>1, Parts
    <3>3. /\ upTo(line, q) \in Seq(Token) /\ Len(upTo(line, q)) = q
          /\ \A i \in 1 .. q : upTo(line, q)[i] = line[i]
      BY <3>1, Parts
    <3>. QED
      BY <2>2, <3>2, <3>3, SeqEqual
  <2>10. untitled(w) = untitled(line)
    BY <1>2, <2>1, <2>8, <2>9 DEF untitled, lastProperty
  <2>. QED
    BY <2>2, <2>7, <2>10
<1>. QED
  BY <1>1, <1>2

-----------------------------------------------------------------------------
(* Lines of a section.                                                     *)

\* A line holds no marker.
Bare(line) == \A j \in DOMAIN line : line[j] \notin {"start", "end"}

\* A bare line is no marker itself.
LEMMA BareIsNoMarker ==
  ASSUME NEW line, Bare(line)
  PROVE  ~isMarker(line, "start") /\ ~isMarker(line, "end")
BY DEF Bare, isMarker

\* What becomes of a line of a section: it holds no marker if it did not, a line
\* that can be restored still can and says the same, and a short blank line
\* stays.
Kept(line, new, n) ==
  /\ new \in Seq(Token)
  /\ Bare(line) => Bare(new)
  /\ isPlain(uncomment(line, n), n) =>
       isPlain(uncomment(new, n), n) /\ textOf(new, n) = textOf(line, n)
  /\ isBlank(line) /\ Len(line) < n => new = line

\* Left alone, a line is kept.
LEMMA KeptAsIs ==
  ASSUME NEW line \in Seq(Token), NEW n
  PROVE  Kept(line, line, n)
BY DEF Kept

\* So it is over two changes.
LEMMA KeptTwice ==
  ASSUME NEW line, NEW mid, NEW new, NEW n, Kept(line, mid, n), Kept(mid, new, n)
  PROVE  Kept(line, new, n)
BY DEF Kept

\* Neither comments nor titles bring markers.
LEMMA BareAfter ==
  ASSUME NEW line \in Seq(Token), Bare(line), NEW n \in Nat
  PROVE  /\ n <= Len(line) => Bare(commentOut(line, n))
         /\ Bare(uncomment(line, n))
         /\ \A t \in Titles : Bare(withTitle(line, t))
<1>0. Len(line) \in Nat /\ DOMAIN line = 1 .. Len(line)
  OBVIOUS
<1>1. ASSUME n <= Len(line) PROVE Bare(commentOut(line, n))
  <2>. DEFINE c == commentOut(line, n)
  <2>1. n \in 0 .. Len(line)
    BY <1>0, <1>1
  <2>2. /\ c \in Seq(Token) /\ Len(c) = Len(line) + 2
        /\ \A i \in 1 .. n : c[i] = line[i]
        /\ c[n + 1] = "#" /\ c[n + 2] = "space"
        /\ \A i \in n + 1 .. Len(line) : c[i + 2] = line[i]
    BY <2>1, CommentOutIs
  <2>. HIDE DEF c
  <2>3. ASSUME NEW j \in 1 .. Len(c) PROVE c[j] \notin {"start", "end"}
    <3>1. CASE j \in 1 .. n
      BY <1>0, <2>1, <2>2, <3>1 DEF Bare
    <3>2. CASE j = n + 1 \/ j = n + 2
      BY <2>2, <3>2
    <3>3. CASE j > n + 2
      <4>1. j - 2 \in n + 1 .. Len(line) /\ (j - 2) + 2 = j /\ j - 2 \in 1 .. Len(line)
        BY <1>0, <2>2, <3>3
      <4>2. c[j] = line[j - 2]
        BY <2>2, <4>1
      <4>. QED
        BY <1>0, <4>1, <4>2 DEF Bare
    <3>. QED
      BY <2>2, <3>1, <3>2, <3>3
  <2>4. Bare(c)
    BY <2>2, <2>3 DEF Bare
  <2>. QED
    BY <2>4 DEF c
<1>2. Bare(uncomment(line, n))
  <2>1. CASE n + 2 <= Len(line) /\ line[n + 1] = "#" /\ line[n + 2] = "space"
    <3>. DEFINE u == uncomment(line, n)
    <3>1. /\ u \in Seq(Token) /\ Len(u) = Len(line) - 2
          /\ \A i \in 1 .. n : u[i] = line[i]
          /\ \A i \in n + 1 .. Len(line) - 2 : u[i] = line[i + 2]
      BY <2>1, UncommentIs
    <3>. HIDE DEF u
    <3>2. ASSUME NEW j \in 1 .. Len(u) PROVE u[j] \notin {"start", "end"}
      <4>1. CASE j \in 1 .. n
        <5>1. j \in 1 .. Len(line)
          BY <1>0, <2>1, <4>1
        <5>. QED
          BY <1>0, <3>1, <4>1, <5>1 DEF Bare
      <4>2. CASE j > n
        <5>1. j \in n + 1 .. Len(line) - 2 /\ j + 2 \in 1 .. Len(line)
          BY <1>0, <3>1, <4>2
        <5>. QED
          BY <1>0, <3>1, <5>1 DEF Bare
      <4>. QED
        BY <3>1, <4>1, <4>2
    <3>3. Bare(u)
      BY <3>1, <3>2 DEF Bare
    <3>. QED
      BY <3>3 DEF u
  <2>2. CASE ~(n + 2 <= Len(line) /\ line[n + 1] = "#" /\ line[n + 2] = "space")
    BY <2>2 DEF uncomment
  <2>. QED
    BY <2>1, <2>2
<1>3. ASSUME NEW t \in Titles PROVE Bare(withTitle(line, t))
  <2>1. CASE properties(line) = {}
    BY <2>1 DEF withTitle
  <2>2. CASE properties(line) # {}
    <3>1. PICK q \in 1 .. Len(line) : q = lastProperty(line)
      BY <2>2, LastPropertyOK
    <3>2. PICK w \in Seq(Token) : /\ w = withTitle(line, t) /\ Len(w) = q + 2
                                  /\ \A i \in 1 .. q : w[i] = line[i]
                                  /\ w[q + 1] = "space" /\ w[q + 2] = t
      BY <2>2, <3>1, WithTitleIs
    <3>3. t \notin {"start", "end"}
      BY ActivatorAssumption
    <3>4. ASSUME NEW j \in 1 .. q + 2 PROVE w[j] \notin {"start", "end"}
      <4>1. CASE j \in 1 .. q
        <5>1. j \in 1 .. Len(line)
          BY <1>0, <3>1, <4>1
        <5>. QED
          BY <1>0, <3>2, <4>1, <5>1 DEF Bare
      <4>2. CASE j = q + 1 \/ j = q + 2
        BY <3>2, <3>3, <4>2
      <4>. QED
        BY <3>1, <4>1, <4>2
    <3>. QED
      BY <3>2, <3>4 DEF Bare
  <2>. QED
    BY <2>1, <2>2
<1>. QED
  BY <1>1, <1>2, <1>3

\* With a title, any line is one.
LEMMA WithTitleIsLine ==
  ASSUME NEW line \in Seq(Token), NEW t \in Titles
  PROVE  withTitle(line, t) \in Seq(Token)
<1>1. CASE properties(line) = {}
  BY <1>1 DEF withTitle
<1>2. CASE properties(line) # {}
  BY <1>2, WithTitleIs
<1>. QED
  BY <1>1, <1>2

\* A blank line is no comment, and has no title.
LEMMA BlankIs ==
  ASSUME NEW line \in Seq(Token), isBlank(line)
  PROVE  ~isComment(line) /\ properties(line) = {}
<1>0. \A i \in 1 .. Len(line) : line[i] = "space"
  BY DEF isBlank
<1>1. ASSUME NEW n \in Nat, CommentAt(line, n) PROVE FALSE
  <2>1. n + 1 \in 1 .. Len(line) /\ line[n + 1] = "#"
    BY <1>1 DEF CommentAt
  <2>. QED
    BY <1>0, <2>1
<1>2. ~isComment(line)
  BY <1>1, CommentAnywhere
<1>3. properties(line) = {}
  BY <1>0 DEF properties
<1>. QED
  BY <1>2, <1>3

\* Commented out behind its first n tokens, a line is kept, and it is another.
LEMMA CommentOutKept ==
  ASSUME NEW line \in Seq(Token), NEW n \in Nat, n <= Len(line), ~isComment(line)
  PROVE  Kept(line, commentOut(line, n), n) /\ commentOut(line, n) # line
<1>1. n \in 0 .. Len(line) /\ Len(line) \in Nat /\ ~(Len(line) < n)
  OBVIOUS
<1>2. commentOut(line, n) \in Seq(Token) /\ Len(commentOut(line, n)) = Len(line) + 2
  BY <1>1, CommentOutIs
<1>3. Bare(line) => Bare(commentOut(line, n))
  BY BareAfter
<1>4. ASSUME isPlain(uncomment(line, n), n)
      PROVE  /\ isPlain(uncomment(commentOut(line, n), n), n)
             /\ textOf(commentOut(line, n), n) = textOf(line, n)
  <2>1. uncomment(line, n) = line /\ isPlain(line, n)
    BY <1>4, UncommentBare
  <2>2. uncomment(commentOut(line, n), n) = line
    BY <2>1, CommentOutPlain
  <2>. QED
    BY <2>1, <2>2 DEF textOf
<1>5. commentOut(line, n) # line
  <2>. DEFINE c == commentOut(line, n)
  <2>1. Len(c) # Len(line)
    BY <1>1, <1>2
  <2>. HIDE DEF c
  <2>2. c # line
    BY <2>1
  <2>. QED
    BY <2>2 DEF c
<1>. QED
  BY <1>1, <1>2, <1>3, <1>4, <1>5 DEF Kept

\* Uncommented, a line is kept.
LEMMA UncommentKept ==
  ASSUME NEW line \in Seq(Token), NEW n \in Nat
  PROVE  Kept(line, uncomment(line, n), n)
<1>1. uncomment(line, n) \in Seq(Token)
  BY UncommentIsLine
<1>2. Bare(line) => Bare(uncomment(line, n))
  BY BareAfter
<1>3. isPlain(uncomment(line, n), n) => uncomment(uncomment(line, n), n) = uncomment(line, n)
  BY <1>1, UncommentPlain
<1>4. Len(line) < n => uncomment(line, n) = line
  <2>1. Len(line) < n => ~(n + 2 <= Len(line))
    OBVIOUS
  <2>. QED
    BY <2>1 DEF uncomment
<1>. QED
  BY <1>1, <1>2, <1>3, <1>4 DEF Kept, textOf

\* The two results of an operation on a line.
LEMMA ChangedIs ==
  ASSUME NEW line, NEW changed
  PROVE  Changed(line, changed).line = line /\ Changed(line, changed).changed = changed
BY DEF Changed

\* handleDeactivateLine keeps a line unless it panics, and reports a change only
\* if there is one.
LEMMA DeactivateOK ==
  ASSUME NEW line \in Seq(Token), NEW n \in Nat, isComment(line) \/ n <= Len(line)
  PROVE  LET r == handleDeactivateLine(line, n)
         IN  Kept(line, r.line, n) /\ (r.changed => r.line # line)
<1>1. CASE isComment(line)
  BY <1>1, KeptAsIs, ChangedIs DEF handleDeactivateLine
<1>2. CASE ~isComment(line)
  <2>. DEFINE new == commentOut(line, n)
  <2>1. Kept(line, new, n) /\ new # line
    BY <1>2, CommentOutKept
  <2>2. handleDeactivateLine(line, n) = Changed(new, TRUE)
    BY <1>2 DEF handleDeactivateLine
  <2>. HIDE DEF new
  <2>3. handleDeactivateLine(line, n).line = new
    BY <2>2, ChangedIs
  <2>. QED
    BY <2>1, <2>3
<1>. QED
  BY <1>1, <1>2

\* handleActivateLine keeps a line, and reports a change to one that can be
\* restored only if there is one.
LEMMA ActivateOK ==
  ASSUME NEW line \in Seq(Token), NEW n \in Nat, NEW t \in Titles
  PROVE  LET r == handleActivateLine(line, t, n)
         IN  Kept(line, r.line, n) /\ (restorable(line, n) /\ r.changed => r.line # line)
<1>. DEFINE bare == IF isComment(line) THEN uncomment(line, n) ELSE line
            new  == withTitle(bare, t)
<1>1. /\ handleActivateLine(line, t, n).line = new
      /\ handleActivateLine(line, t, n).changed = (isComment(line) \/ new # bare)
  BY ChangedIs DEF handleActivateLine
<1>2. bare \in Seq(Token) /\ (Bare(line) => Bare(bare))
  BY UncommentIsLine, BareAfter
<1>3. new \in Seq(Token) /\ (Bare(line) => Bare(new))
  BY <1>2, WithTitleIsLine, BareAfter
<1>4. ASSUME isPlain(uncomment(line, n), n)
      PROVE  /\ isPlain(uncomment(new, n), n) /\ textOf(new, n) = textOf(line, n)
             /\ isComment(line) \/ new # bare => new # line
  <2>1. bare = uncomment(line, n)
    BY <1>4, UncommentBare
  <2>2. isPlain(new, n) /\ untitled(new) = untitled(bare)
    BY <1>2, <1>4, <2>1, WithTitlePlain
  <2>3. uncomment(new, n) = new
    BY <1>3, <2>2, UncommentPlain
  <2>4. isComment(line) => new # line
    BY <2>2 DEF isPlain
  <2>5. ~isComment(line) => bare = line
    OBVIOUS
  <2>. HIDE DEF bare, new
  <2>6. textOf(new, n) = textOf(line, n)
    BY <2>1, <2>2, <2>3 DEF textOf
  <2>. QED
    BY <2>2, <2>3, <2>4, <2>5, <2>6
<1>5. ASSUME isBlank(line)
      PROVE  new = line /\ ~(isComment(line) \/ new # bare)
  <2>1. ~isComment(line) /\ properties(line) = {}
    BY <1>5, BlankIs
  <2>. QED
    BY <2>1 DEF withTitle
<1>. HIDE DEF bare, new
<1>6. Kept(line, new, n)
  BY <1>3, <1>4, <1>5 DEF Kept
<1>7. restorable(line, n) /\ (isComment(line) \/ new # bare) => new # line
  BY <1>4, <1>5 DEF restorable
<1>. QED
  BY <1>1, <1>6, <1>7

-----------------------------------------------------------------------------
(* Files.                                                                  *)

\* Sections begin with a marker, and their offset is a number.
LEMMA SectionOK ==
  ASSUME NEW f \in Seq(Seq(Token)), NEW i \in 1 .. Len(f), isBody(f, i)
  PROVE  /\ offset(f, i) \in Nat
         /\ ~isMarker(f[i], "start") /\ ~isMarker(f[i], "end")
<1>1. (CHOOSE s \in sectionOf(f, i) : TRUE) \in sectionOf(f, i)
  BY DEF isBody
<1>2. \A s \in sectionOf(f, i) : s \in 1 .. Len(f) /\ indent(f[s]) \in Nat
  <2>1. \A s \in sectionOf(f, i) : s \in 1 .. Len(f)
    BY DEF sectionOf, starts
  <2>2. \A s \in 1 .. Len(f) : f[s] \in Seq(Token)
    OBVIOUS
  <2>3. \A s \in 1 .. Len(f) : indent(f[s]) \in Nat
    BY <2>2, IndentOK
  <2>. QED
    BY <2>1, <2>3
<1>3. ~isMarker(f[i], "end")
  <2>1. \A s \in sectionOf(f, i) : i \in s .. i
    BY DEF sectionOf, starts
  <2>. QED
    BY <2>1, <1>1 DEF sectionOf
<1>. QED
  BY <1>1, <1>2, <1>3 DEF offset, isBody

\* The lines of a file's sections are kept, and the others are the same.
Follows(f, g) ==
  /\ Len(g) = Len(f)
  /\ \A i \in 1 .. Len(f) : IF isBody(f, i) THEN Kept(f[i], g[i], offset(f, i)) ELSE g[i] = f[i]

\* Then the sections are the same, unless a line of one held a marker.
LEMMA SameSections ==
  ASSUME NEW f \in Seq(Seq(Token)), NEW g \in Seq(Seq(Token)), Follows(f, g), noHiddenMarkers(f)
  PROVE  /\ \A i \in 1 .. Len(f) : isBody(g, i) <=> isBody(f, i)
         /\ \A i \in 1 .. Len(f) : isBody(f, i) => offset(g, i) = offset(f, i)
         /\ starts(g, Len(g)) = starts(f, Len(f))
         /\ wellFormed(g) <=> wellFormed(f)
         /\ evenMarkers(g) <=> evenMarkers(f)
<1>. DEFINE m == Len(f)
<1>1. m \in Nat /\ Len(g) = m /\ DOMAIN f = 1 .. m /\ DOMAIN g = 1 .. m
  BY DEF Follows
<1>2. \A i \in 1 .. m : /\ isMarker(g[i], "start") <=> isMarker(f[i], "start")
                        /\ isMarker(g[i], "end") <=> isMarker(f[i], "end")
  <2>1. SUFFICES ASSUME NEW i \in 1 .. m, isBody(f, i)
                 PROVE  /\ ~isMarker(g[i], "start") /\ ~isMarker(f[i], "start")
                        /\ ~isMarker(g[i], "end") /\ ~isMarker(f[i], "end")
    BY DEF Follows
  <2>2. Bare(f[i])
    BY <1>1, <2>1 DEF noHiddenMarkers, Bare
  <2>3. Bare(g[i])
    BY <2>1, <2>2 DEF Follows, Kept
  <2>. QED
    BY <2>2, <2>3, BareIsNoMarker
<1>3. ASSUME NEW n \in 0 .. m
      PROVE  starts(g, n) = starts(f, n) /\ ends(g, n) = ends(f, n)
  <2>1. \A i \in 1 .. n : i \in 1 .. m
    BY <1>1
  <2>. HIDE DEF m
  <2>. QED
    BY <1>2, <2>1 DEF starts, ends
<1>4. ASSUME NEW i \in 0 .. m PROVE sectionOf(g, i) = sectionOf(f, i)
  <2>1. starts(g, i) = starts(f, i) /\ starts(f, i) \subseteq 1 .. i
    BY <1>3 DEF starts
  <2>2. \A s \in 1 .. i : \A j \in s .. i : j \in 1 .. m
    BY <1>1
  <2>3. \A s \in 1 .. i : (\A j \in s .. i : ~isMarker(g[j], "end"))
                            <=> (\A j \in s .. i : ~isMarker(f[j], "end"))
    BY <1>2, <2>2
  <2>. QED
    BY <2>1, <2>3 DEF sectionOf
<1>5. \A i \in 1 .. m : isBody(g, i) <=> isBody(f, i)
  BY <1>2, <1>4 DEF isBody
<1>6. \A i \in 1 .. m : isMarker(f[i], "start") \/ isMarker(f[i], "end") => g[i] = f[i]
  BY SectionOK DEF Follows
<1>7. \A i \in 1 .. m : isBody(f, i) => offset(g, i) = offset(f, i)
  <2>1. SUFFICES ASSUME NEW i \in 1 .. m, isBody(f, i)
                 PROVE  offset(g, i) = offset(f, i)
    OBVIOUS
  <2>2. PICK s : s = CHOOSE x \in sectionOf(f, i) : TRUE
    OBVIOUS
  <2>3. s \in sectionOf(f, i)
    BY <2>1, <2>2 DEF isBody
  <2>4. s \in 1 .. m /\ isMarker(f[s], "start")
    BY <2>3 DEF sectionOf, starts
  <2>5. g[s] = f[s]
    BY <1>6, <2>4
  <2>6. sectionOf(g, i) = sectionOf(f, i)
    BY <1>4
  <2>. QED
    BY <2>2, <2>5, <2>6 DEF offset
<1>. HIDE DEF m
<1>8. wellFormed(g) <=> wellFormed(f)
  <2>1. m = Len(f) /\ m = Len(g)
    BY <1>1 DEF m
  <2>2. m \in 0 .. m /\ \A n \in 1 .. m : n \in 0 .. m
    BY <1>1
  <2>. QED
    BY <1>1, <1>3, <2>1, <2>2 DEF wellFormed
<1>9. evenMarkers(g) <=> evenMarkers(f)
  <2>1. m = Len(f) /\ m = Len(g) /\ m \in 0 .. m
    BY <1>1 DEF m
  <2>2. ends(g, m) = ends(f, m)
    BY <1>3, <2>1
  <2>3. ASSUME NEW e \in ends(f, m), NEW s \in sectionOf(f, e - 1)
        PROVE  g[e] = f[e] /\ g[s] = f[s]
    <3>1. e \in 1 .. m /\ isMarker(f[e], "end")
      BY DEF ends
    <3>2. s \in 1 .. m /\ isMarker(f[s], "start")
      BY <1>1, <3>1 DEF sectionOf, starts
    <3>. QED
      BY <1>6, <3>1, <3>2
  <2>4. \A e \in ends(f, m) : sectionOf(g, e - 1) = sectionOf(f, e - 1)
    <3>1. \A e \in ends(f, m) : e - 1 \in 0 .. m
      BY <1>1 DEF ends
    <3>. QED
      BY <1>4, <3>1
  <2>. QED
    BY <2>1, <2>2, <2>3, <2>4 DEF evenMarkers
<1>10. starts(g, Len(g)) = starts(f, Len(f))
  <2>1. m = Len(f) /\ m = Len(g) /\ m \in 0 .. m
    BY <1>1 DEF m
  <2>. QED
    BY <1>3, <2>1
<1>. QED
  BY <1>5, <1>7, <1>8, <1>9, <1>10 DEF m

\* A file follows itself, and one that follows it is followed by what follows
\* that one.
LEMMA FollowsItself ==
  ASSUME NEW f \in Seq(Seq(Token))
  PROVE  Follows(f, f)
<1>1. \A i \in 1 .. Len(f) : Kept(f[i], f[i], offset(f, i))
  BY KeptAsIs
<1>. QED
  BY <1>1 DEF Follows

LEMMA FollowsOn ==
  ASSUME NEW f \in Seq(Seq(Token)), NEW g \in Seq(Seq(Token)), NEW h,
         noHiddenMarkers(f), Follows(f, g), Follows(g, h)
  PROVE  Follows(f, h)
<1>1. Len(h) = Len(f) /\ Len(g) = Len(f)
  BY DEF Follows
<1>2. ASSUME NEW i \in 1 .. Len(f), isBody(f, i)
      PROVE  Kept(f[i], h[i], offset(f, i))
  <2>1. isBody(g, i) /\ offset(g, i) = offset(f, i)
    BY <1>2, SameSections
  <2>2. Kept(f[i], g[i], offset(f, i)) /\ Kept(g[i], h[i], offset(f, i))
    BY <1>1, <1>2, <2>1 DEF Follows
  <2>. QED
    BY <2>2, KeptTwice
<1>3. ASSUME NEW i \in 1 .. Len(f), ~isBody(f, i)
      PROVE  h[i] = f[i]
  BY <1>1, <1>3, SameSections DEF Follows
<1>. QED
  BY <1>1, <1>2, <1>3 DEF Follows

\* Lines that can be restored still can.
LEMMA StaysRestorable ==
  ASSUME NEW f \in Seq(Seq(Token)), NEW g \in Seq(Seq(Token)), Follows(f, g), Restorable(f),
         NEW i \in 1 .. Len(f), isBody(g, i)
  PROVE  restorable(g[i], offset(g, i))
<1>1. isBody(f, i) /\ offset(g, i) = offset(f, i)
  BY SameSections DEF Restorable
<1>2. restorable(f[i], offset(f, i)) /\ Kept(f[i], g[i], offset(f, i))
  <2>1. i \in DOMAIN f
    OBVIOUS
  <2>. QED
    BY <1>1, <2>1 DEF Restorable, Follows
<1>. QED
  BY <1>1, <1>2 DEF restorable, Kept

\* handleMilestoneSection keeps every line of a section, if it does not panic.
LEMMA HandledOK ==
  ASSUME NEW f \in Seq(Seq(Token)), NEW title \in Titles \cup {None}, updatable(f, title),
         NEW i \in 1 .. Len(f)
  PROVE  LET r == handled(f, i, title)
             n == offset(f, i)
         IN  /\ IF isBody(f, i) THEN Kept(f[i], r.line, n) ELSE r.line = f[i]
             /\ r.line \in Seq(Token)
             /\ r.changed /\ (isBody(f, i) => restorable(f[i], n)) => r.line # f[i]
<1>. DEFINE line == f[i]
            n    == offset(f, i)
<1>1. CASE ~isBody(f, i)
  <2>1. handled(f, i, title) = Changed(line, FALSE)
    BY <1>1 DEF handled
  <2>2. Changed(line, FALSE).line = line /\ ~Changed(line, FALSE).changed
    BY DEF Changed
  <2>3. line \in Seq(Token)
    OBVIOUS
  <2>. HIDE DEF line
  <2>4. LET r == Changed(line, FALSE)
        IN  /\ r.line = line /\ r.line \in Seq(Token)
            /\ r.changed /\ (isBody(f, i) => restorable(line, n)) => r.line # line
    BY <2>2, <2>3
  <2>. QED
    BY <1>1, <2>1, <2>4 DEF line
<1>2. CASE isBody(f, i)
  <2>1. line \in Seq(Token) /\ n \in Nat
    BY <1>2, SectionOK
  <2>2. ~panics(f, title)
    <3>1. starts(f, Len(f)) # {}
      BY <1>2 DEF isBody, sectionOf, starts
    <3>. QED
      BY <3>1 DEF updatable
  <2>3. CASE title = None
    <3>1. handled(f, i, title) = handleDeactivateLine(line, n)
      BY <1>2, <2>3 DEF handled
    <3>2. ~(Len(line) < n) \/ isComment(line)
      BY <1>2, <2>2, <2>3 DEF panics
    <3>. HIDE DEF line, n
    <3>3. isComment(line) \/ n <= Len(line)
      BY <2>1, <3>2
    <3>4. LET r == handleDeactivateLine(line, n)
          IN  Kept(line, r.line, n) /\ (r.changed => r.line # line)
      BY <2>1, <3>3, DeactivateOK
    <3>. QED
      BY <1>2, <3>1, <3>4 DEF line, n, Kept
  <2>4. CASE title \in Titles
    <3>1. handled(f, i, title) = handleActivateLine(line, title, n)
      BY <1>2, <2>4, ActivatorAssumption DEF handled
    <3>. HIDE DEF line, n
    <3>2. LET r == handleActivateLine(line, title, n)
          IN  Kept(line, r.line, n) /\ (restorable(line, n) /\ r.changed => r.line # line)
      BY <2>1, <2>4, ActivateOK
    <3>. QED
      BY <1>2, <3>1, <3>2 DEF line, n, Kept
  <2>. QED
    BY <2>3, <2>4
<1>. QED
  BY <1>1, <1>2

\* What it makes of a file follows it, and one that counts as changed is not the
\* same if its lines can be restored.
LEMMA SectionsHandled ==
  ASSUME NEW f \in Seq(Seq(Token)), NEW title \in Titles \cup {None}, updatable(f, title)
  PROVE  /\ handleMilestoneSection(f, title) \in Seq(Seq(Token))
         /\ Follows(f, handleMilestoneSection(f, title))
         /\ (\A i \in 1 .. Len(f) : isBody(f, i) => restorable(f[i], offset(f, i)))
              => (fileChanged(f, title) => handleMilestoneSection(f, title) # f)
<1>. DEFINE g == handleMilestoneSection(f, title)
            line(i) == handled(f, i, title).line
            fine(i) == isBody(f, i) => restorable(f[i], offset(f, i))
<1>1. Len(f) \in Nat /\ DOMAIN f = 1 .. Len(f)
  OBVIOUS
<1>2. ASSUME NEW i \in 1 .. Len(f)
      PROVE  /\ IF isBody(f, i) THEN Kept(f[i], line(i), offset(f, i)) ELSE line(i) = f[i]
             /\ line(i) \in Seq(Token)
             /\ handled(f, i, title).changed /\ fine(i) => line(i) # f[i]
  BY HandledOK
<1>3. g = [i \in 1 .. Len(f) |-> line(i)]
  BY <1>1 DEF handleMilestoneSection
<1>. HIDE DEF g, line, fine
<1>4. g \in Seq(Seq(Token)) /\ Len(g) = Len(f) /\ \A i \in 1 .. Len(f) : g[i] = line(i)
  <2>1. g \in [1 .. Len(f) -> Seq(Token)]
    BY <1>2, <1>3
  <2>2. \A i \in 1 .. Len(f) : g[i] = line(i)
    BY <1>3
  <2>3. g \in Seq(Seq(Token)) /\ Len(g) = Len(f)
    BY <1>1, <2>1
  <2>. QED
    BY <2>2, <2>3
<1>5. Follows(f, g)
  BY <1>2, <1>4 DEF Follows
<1>6. ASSUME \A i \in 1 .. Len(f) : fine(i), fileChanged(f, title) PROVE g # f
  <2>1. PICK i \in 1 .. Len(f) : handled(f, i, title).changed
    BY <1>1, <1>6 DEF fileChanged
  <2>. QED
    BY <1>2, <1>4, <1>6, <2>1
<1>. QED
  BY <1>4, <1>5, <1>6 DEF g, fine

\* So does the file in which people have commented one line in or out.
LEMMA Toggled ==
  ASSUME NEW f \in Seq(Seq(Token)), NEW i \in 1 .. Len(f), isBody(f, i),
         offset(f, i) <= Len(f[i]), NEW new,
         new = IF isComment(f[i]) THEN uncomment(f[i], offset(f, i))
                                  ELSE commentOut(f[i], offset(f, i))
  PROVE  /\ [f EXCEPT ![i] = new] \in Seq(Seq(Token))
         /\ Follows(f, [f EXCEPT ![i] = new])
<1>. DEFINE g == [f EXCEPT ![i] = new]
<1>1. f[i] \in Seq(Token) /\ offset(f, i) \in Nat
  BY SectionOK
<1>2. Kept(f[i], new, offset(f, i))
  BY <1>1, UncommentKept, CommentOutKept
<1>3. new \in Seq(Token)
  BY <1>2 DEF Kept
<1>4. /\ g \in Seq(Seq(Token)) /\ Len(g) = Len(f) /\ g[i] = new
      /\ \A j \in 1 .. Len(f) : j # i => g[j] = f[j]
  BY <1>3
<1>. HIDE DEF g
<1>5. \A j \in 1 .. Len(f) : Kept(f[j], f[j], offset(f, j))
  BY KeptAsIs
<1>6. Follows(f, g)
  BY <1>2, <1>4, <1>5 DEF Follows
<1>. QED
  BY <1>4, <1>6 DEF g

-----------------------------------------------------------------------------
(* The invariant.                                                          *)

\* A file follows what people wrote at first.
Good(x, f) == noHiddenMarkers(Original[x]) => Follows(Original[x], f)

\* The files on the upstream branch do.
MasterGood == \A x \in Files : Good(x, master[x])

\* What a merge would bring from the fork is, too.
HeadGood == \A x \in Files : head.base[x] = head.new[x] \/ Good(x, head.new[x])

\* So is what a run has cloned, and what it has written.
CloneGood == /\ pc = "update" => \A x \in Files : Good(x, base[x])
             /\ pc \in {"commit", "push"} => \A x \in Files : Good(x, work[x])

IndInv == TypeOK /\ MasterGood /\ HeadGood /\ CloneGood /\ SomethingToCommit

\* A run starts from nothing, and people from what they wrote.
LEMMA Initially == Init => IndInv
<1>. SUFFICES ASSUME Init PROVE IndInv
  OBVIOUS
<1>1. NoFiles \in files /\ Original \in files
  <2>1. << >> \in Seq(Seq(Token))
    OBVIOUS
  <2>. QED
    BY <2>1, ActivatorAssumption DEF NoFiles, files
<1>2. TypeOK
  <2>1. head = [base |-> NoFiles, new |-> NoFiles]
    BY DEF Init
  <2>2. head \in [base : files, new : files]
    BY <1>1, <2>1
  <2>3. open \subseteq Titles /\ events \in 0 .. MaxEvents /\ faults \in 0 .. MaxFaults
    BY ActivatorAssumption DEF Init
  <2>4. /\ master \in files /\ base \in files /\ work \in files
        /\ base = NoFiles /\ work = NoFiles
    BY <1>1 DEF Init
  <2>5. pr = "none" /\ pc = "idle" /\ prExists = FALSE
    BY DEF Init
  <2>. QED
    BY <2>2, <2>3, <2>4, <2>5 DEF TypeOK
<1>3. MasterGood
  <2>1. \A x \in Files : Original[x] \in Seq(Seq(Token))
    BY <1>1 DEF files
  <2>. QED
    BY <2>1, FollowsItself DEF Init, MasterGood, Good
<1>4. HeadGood
  BY DEF Init, HeadGood
<1>5. CloneGood /\ SomethingToCommit
  BY DEF Init, CloneGood, SomethingToCommit
<1>. QED
  BY <1>2, <1>3, <1>4, <1>5 DEF IndInv

\* A run that ends leaves nothing behind.
LEMMA ResetStep ==
  ASSUME IndInv, Reset, open' = open, master' = master, head' = head,
         pr' \in {"none", "open", "labeled"}, events' = events, faults' \in 0 .. MaxFaults
  PROVE  IndInv'
<1>1. NoFiles \in files
  BY DEF NoFiles, files
<1>2. TypeOK'
  BY <1>1 DEF IndInv, TypeOK, Reset
<1>3. MasterGood' /\ HeadGood'
  BY DEF IndInv, MasterGood, HeadGood, Good
<1>4. CloneGood' /\ SomethingToCommit'
  BY DEF Reset, CloneGood, SomethingToCommit
<1>. QED
  BY <1>2, <1>3, <1>4 DEF IndInv

\* The clone has the files of the upstream branch.
LEMMA CloneStep == ASSUME IndInv, Clone PROVE IndInv'
<1>1. TypeOK'
  BY DEF IndInv, TypeOK, Clone, github
<1>2. MasterGood' /\ HeadGood'
  BY DEF IndInv, MasterGood, HeadGood, Good, Clone, github
<1>3. CloneGood' /\ SomethingToCommit'
  BY DEF IndInv, MasterGood, Good, Clone, CloneGood, SomethingToCommit
<1>. QED
  BY <1>1, <1>2, <1>3 DEF IndInv

\* There is one title to write, or none.
LEMMA OpenMilestone ==
  ASSUME TypeOK, Cardinality(open) <= 1
  PROVE  getOpenMilestone(open) \in Titles \cup {None}
<1>1. IsFiniteSet(open)
  BY ActivatorAssumption, FS_Subset DEF TypeOK
<1>2. CASE open = {}
  BY <1>2 DEF getOpenMilestone
<1>3. CASE open # {}
  <2>1. Cardinality(open) \in Nat /\ Cardinality(open) # 0
    BY <1>1, <1>3, FS_CardinalityType, FS_EmptySet
  <2>2. Cardinality(open) = 1
    BY <2>1
  <2>3. \E t \in open : open = {t}
    <3>1. PICK t : open = {t}
      BY <1>1, <2>2, FS_Singleton
    <3>. QED
      BY <3>1
  <2>4. getOpenMilestone(open) \in open
    BY <1>3, <2>3 DEF getOpenMilestone
  <2>. QED
    BY <2>4 DEF TypeOK
<1>. QED
  BY <1>2, <1>3

\* updateFiles writes files that follow the clone's, and if one counts as changed
\* and lines can be restored they differ.
LEMMA UpdateStep == ASSUME IndInv, Update PROVE IndInv'
<1>. DEFINE title == getOpenMilestone(open)
            new   == [x \in Files |-> handleMilestoneSection(base[x], title)]
<1>1. CASE Reset
  BY <1>1, ResetStep DEF IndInv, TypeOK, Update, github
<1>2. CASE /\ Cardinality(open) <= 1
           /\ \A x \in Files : updatable(base[x], title)
           /\ \E x \in Files : fileChanged(base[x], title)
           /\ work' = new /\ pc' = "commit" /\ UNCHANGED <<base, prExists>>
  <2>1. title \in Titles \cup {None}
    BY <1>2, OpenMilestone DEF IndInv
  <2>2. \A x \in Files : /\ base[x] \in Seq(Seq(Token)) /\ Original[x] \in Seq(Seq(Token))
                         /\ Good(x, base[x]) /\ updatable(base[x], title)
    BY <1>2, ActivatorAssumption DEF IndInv, TypeOK, files, CloneGood, Update
  <2>. HIDE DEF title
  <2>3. ASSUME NEW x \in Files
        PROVE  /\ new[x] \in Seq(Seq(Token)) /\ Good(x, new[x])
               /\ Restorable(Original[x]) /\ fileChanged(base[x], title) => new[x] # base[x]
    <3>. DEFINE f == base[x]
                g == handleMilestoneSection(f, title)
                fine == \A i \in 1 .. Len(f) : isBody(f, i) => restorable(f[i], offset(f, i))
    <3>1. f \in Seq(Seq(Token)) /\ Original[x] \in Seq(Seq(Token)) /\ Good(x, f) /\ updatable(f, title)
      BY <2>2
    <3>2. new[x] = g
      OBVIOUS
    <3>. HIDE DEF f
    <3>3. /\ g \in Seq(Seq(Token)) /\ Follows(f, g)
          /\ fine => (fileChanged(f, title) => g # f)
      BY <2>1, <3>1, SectionsHandled
    <3>4. Good(x, g)
      BY <3>1, <3>3, FollowsOn DEF Good
    <3>5. Restorable(Original[x]) => fine
      <4>1. SUFFICES ASSUME Restorable(Original[x]), NEW i \in 1 .. Len(f), isBody(f, i)
                     PROVE  restorable(f[i], offset(f, i))
        OBVIOUS
      <4>2. Follows(Original[x], f)
        BY <3>1, <4>1 DEF Good, Restorable
      <4>3. i \in 1 .. Len(Original[x])
        BY <4>2 DEF Follows
      <4>. QED
        BY <3>1, <4>1, <4>2, <4>3, StaysRestorable
    <3>. HIDE DEF g, fine
    <3>. QED
      BY <3>2, <3>3, <3>4, <3>5 DEF f
  <2>4. new \in files
    BY <2>3 DEF files
  <2>. HIDE DEF new
  <2>5. TypeOK'
    BY <1>2, <2>4 DEF IndInv, TypeOK, Update, github
  <2>6. MasterGood' /\ HeadGood'
    BY DEF IndInv, MasterGood, HeadGood, Good, Update, github
  <2>7. CloneGood'
    BY <1>2, <2>3 DEF CloneGood, Good
  <2>8. SomethingToCommit'
    BY <1>2, <2>3 DEF SomethingToCommit
  <2>. QED
    BY <2>5, <2>6, <2>7, <2>8 DEF IndInv
<1>. QED
  BY <1>1, <1>2 DEF Update

\* What has been written is what is pushed.
LEMMA CommitStep == ASSUME IndInv, Commit PROVE IndInv'
<1>1. CASE Reset
  BY <1>1, ResetStep DEF IndInv, TypeOK, Commit, github
<1>2. CASE prExists' = (pr # "none") /\ pc' = "push" /\ UNCHANGED <<base, work>>
  <2>1. TypeOK'
    BY <1>2 DEF IndInv, TypeOK, Commit, github
  <2>2. MasterGood' /\ HeadGood'
    BY DEF IndInv, MasterGood, HeadGood, Good, Commit, github
  <2>3. CloneGood' /\ SomethingToCommit'
    BY <1>2 DEF IndInv, CloneGood, Good, SomethingToCommit, Commit
  <2>. QED
    BY <2>1, <2>2, <2>3 DEF IndInv
<1>. QED
  BY <1>1, <1>2 DEF Commit

\* The fork's branch holds what the run has written.
LEMMA PushStep == ASSUME IndInv, Push PROVE IndInv'
<1>1. head'.base = base /\ head'.new = work
  BY DEF Push
<1>2. TypeOK'
  <2>1. head' \in [base : files, new : files]
    BY DEF IndInv, TypeOK, Push
  <2>. QED
    BY <2>1 DEF IndInv, TypeOK, Push, local
<1>3. MasterGood'
  BY DEF IndInv, MasterGood, Good, Push
<1>4. HeadGood'
  BY <1>1 DEF IndInv, CloneGood, HeadGood, Good, Push
<1>5. CloneGood' /\ SomethingToCommit'
  BY DEF Push, CloneGood, SomethingToCommit
<1>. QED
  BY <1>2, <1>3, <1>4, <1>5 DEF IndInv

\* A pull request is opened.
LEMMA OpenStep == ASSUME IndInv, Open PROVE IndInv'
<1>1. TypeOK'
  BY DEF IndInv, TypeOK, Open, local
<1>2. MasterGood' /\ HeadGood'
  BY DEF IndInv, MasterGood, HeadGood, Good, Open
<1>3. CloneGood' /\ SomethingToCommit'
  BY DEF Open, CloneGood, SomethingToCommit
<1>. QED
  BY <1>1, <1>2, <1>3 DEF IndInv

\* The run ends, having labeled the pull request or failed.
LEMMA EndStep == ASSUME IndInv, AddLabels \/ Fail PROVE IndInv'
<1>1. CASE AddLabels
  <2>1. pr' \in {"none", "open", "labeled"}
    BY <1>1 DEF AddLabels
  <2>2. faults' \in 0 .. MaxFaults
    BY <1>1 DEF IndInv, TypeOK, AddLabels
  <2>. QED
    BY <1>1, <2>1, <2>2, ResetStep DEF AddLabels
<1>2. CASE Fail
  <2>1. pr' \in {"none", "open", "labeled"}
    BY <1>2 DEF IndInv, TypeOK, Fail, github
  <2>2. faults' \in 0 .. MaxFaults
    BY <1>2, ActivatorAssumption DEF IndInv, TypeOK, Fail
  <2>. QED
    BY <1>2, <2>1, <2>2, ResetStep DEF Fail, github
<1>. QED
  BY <1>1, <1>2

\* The others leave the run alone: only the upstream branch may change.
LEMMA OthersStep ==
  ASSUME IndInv, UNCHANGED <<head, pc, local>>, MasterGood', master' \in files,
         open' \subseteq Titles, pr' \in {"none", "open", "labeled"},
         events' \in 0 .. MaxEvents, faults' \in 0 .. MaxFaults
  PROVE  IndInv'
<1>1. TypeOK'
  BY DEF IndInv, TypeOK, local
<1>2. HeadGood' /\ CloneGood' /\ SomethingToCommit'
  BY DEF IndInv, HeadGood, CloneGood, SomethingToCommit, Good, local
<1>. QED
  BY <1>1, <1>2 DEF IndInv

\* Milestones open and close, and pull requests are closed.
LEMMA EventStep ==
  ASSUME IndInv, (\E t \in Titles : SetMilestone(t)) \/ ClosePR
  PROVE  IndInv'
<1>1. MasterGood'
  BY DEF IndInv, MasterGood, Good, SetMilestone, ClosePR
<1>2. open' \subseteq Titles
  BY DEF IndInv, TypeOK, SetMilestone, ClosePR
<1>3. events' \in 0 .. MaxEvents /\ faults' \in 0 .. MaxFaults
  BY ActivatorAssumption DEF IndInv, TypeOK, SetMilestone, ClosePR, Event
<1>4. pr' \in {"none", "open", "labeled"} /\ master' \in files
  BY DEF IndInv, TypeOK, SetMilestone, ClosePR
<1>5. UNCHANGED <<head, pc, local>>
  BY DEF SetMilestone, ClosePR, Event
<1>. QED
  BY <1>1, <1>2, <1>3, <1>4, <1>5, OthersStep

\* Somebody comments a line in or out.
LEMMA EditStep ==
  ASSUME IndInv, NEW x \in Files, NEW i \in DOMAIN master[x], Edit(x, i)
  PROVE  IndInv'
<1>. DEFINE f   == master[x]
            new == IF isComment(f[i]) THEN uncomment(f[i], offset(f, i))
                                      ELSE commentOut(f[i], offset(f, i))
            g   == [f EXCEPT ![i] = new]
<1>1. f \in Seq(Seq(Token)) /\ Original[x] \in Seq(Seq(Token)) /\ Good(x, f)
  BY ActivatorAssumption DEF IndInv, TypeOK, files, MasterGood
<1>2. i \in 1 .. Len(f) /\ isBody(f, i) /\ offset(f, i) <= Len(f[i])
  BY <1>1 DEF Edit
<1>3. g \in Seq(Seq(Token)) /\ Good(x, g)
  <2>. HIDE DEF f
  <2>1. g \in Seq(Seq(Token)) /\ Follows(f, g)
    BY <1>1, <1>2, Toggled
  <2>. HIDE DEF g
  <2>. QED
    BY <1>1, <2>1, FollowsOn DEF Good
<1>4. master' = [master EXCEPT ![x] = g]
  BY DEF Edit
<1>. HIDE DEF g
<1>5. master' \in files
  BY <1>3, <1>4 DEF IndInv, TypeOK, files
<1>6. MasterGood'
  BY <1>3, <1>4 DEF IndInv, TypeOK, files, MasterGood, Good
<1>7. events' \in 0 .. MaxEvents /\ faults' \in 0 .. MaxFaults
  BY ActivatorAssumption DEF IndInv, TypeOK, Edit, Event
<1>8. open' \subseteq Titles /\ pr' \in {"none", "open", "labeled"}
  BY DEF IndInv, TypeOK, Edit
<1>. QED
  BY <1>5, <1>6, <1>7, <1>8, OthersStep DEF Edit, Event

\* A merge brings files that follow the first ones.
LEMMA MergeStep == ASSUME IndInv, Merge PROVE IndInv'
<1>1. \A x \in Files : Good(x, master'[x])
  BY DEF IndInv, MasterGood, HeadGood, Merge
<1>2. MasterGood'
  BY <1>1 DEF MasterGood, Good
<1>3. master' \in files
  BY DEF IndInv, TypeOK, Merge, files
<1>4. open' \subseteq Titles /\ events' \in 0 .. MaxEvents /\ faults' \in 0 .. MaxFaults
  BY DEF IndInv, TypeOK, Merge
<1>. QED
  BY <1>2, <1>3, <1>4, OthersStep DEF Merge

\* Every step keeps the invariant.
LEMMA Inductive == IndInv /\ [Next]_vars => IndInv'
<1>. SUFFICES ASSUME IndInv, [Next]_vars PROVE IndInv'
  OBVIOUS
<1>1. CASE Run
  BY <1>1, CloneStep, UpdateStep, CommitStep, PushStep, OpenStep, EndStep DEF Run
<1>2. CASE Fail
  BY <1>2, EndStep
<1>3. CASE Others
  BY <1>3, EventStep, EditStep, MergeStep DEF Others
<1>4. CASE UNCHANGED vars
  <2>1. MasterGood'
    BY <1>4 DEF IndInv, MasterGood, Good, vars, github
  <2>. QED
    BY <1>4, <2>1, OthersStep DEF IndInv, TypeOK, vars, github
<1>. QED
  BY <1>1, <1>2, <1>3, <1>4 DEF Next

\* What the theorems below rest on holds in every run.
THEOREM Invariance == Spec => []IndInv
<1>. QED
  BY Initially, Inductive, PTL DEF Spec

-----------------------------------------------------------------------------
(* What follows.                                                           *)

\* Lines stay lines, and a run that has ended leaves no clone behind.
THEOREM TypeCorrect == Spec => []TypeOK
<1>1. IndInv => TypeOK
  BY DEF IndInv
<1>. QED
  BY <1>1, Invariance, PTL

\* handleActivateLine and handleDeactivateLine undo one another: whatever
\* milestones open and close, however often lines are commented in and out, by
\* runs and by people, and whatever stands in the other lines, every line keeps
\* its place, and its text if it can be restored.
THEOREM TextIsKept == Spec => []TextKept
<1>1. ASSUME IndInv, NEW x \in Files, noHiddenMarkers(Original[x])
      PROVE  /\ DOMAIN master[x] = DOMAIN Original[x]
             /\ \A i \in DOMAIN Original[x] :
                  IF isBody(Original[x], i)
                    THEN restorable(Original[x][i], offset(Original[x], i)) =>
                           textOf(master[x][i], offset(Original[x], i))
                             = textOf(Original[x][i], offset(Original[x], i))
                    ELSE master[x][i] = Original[x][i]
  <2>1. /\ Original[x] \in Seq(Seq(Token)) /\ master[x] \in Seq(Seq(Token))
        /\ Follows(Original[x], master[x])
    BY <1>1, ActivatorAssumption DEF IndInv, TypeOK, files, MasterGood, Good
  <2>2. DOMAIN Original[x] = 1 .. Len(Original[x]) /\ DOMAIN master[x] = DOMAIN Original[x]
    BY <2>1 DEF Follows
  <2>3. ASSUME NEW i \in 1 .. Len(Original[x]), isBody(Original[x], i),
               restorable(Original[x][i], offset(Original[x], i))
        PROVE  textOf(master[x][i], offset(Original[x], i))
                 = textOf(Original[x][i], offset(Original[x], i))
    <3>1. Kept(Original[x][i], master[x][i], offset(Original[x], i))
      BY <2>1, <2>3 DEF Follows
    <3>. QED
      BY <2>3, <3>1 DEF Kept, restorable
  <2>4. \A i \in 1 .. Len(Original[x]) : ~isBody(Original[x], i) => master[x][i] = Original[x][i]
    BY <2>1 DEF Follows
  <2>. QED
    BY <2>2, <2>3, <2>4
<1>2. IndInv => TextKept
  BY <1>1 DEF TextKept
<1>. QED
  BY <1>2, Invariance, PTL

\* handleMilestoneSection and PushChanges: where the lines of sections can be
\* restored, a run that goes on to the commit has something to commit, so that
\* git does not fail.
THEOREM ChangesAreCommitted == Spec => []SomethingToCommit
<1>1. IndInv => SomethingToCommit
  BY DEF IndInv
<1>. QED
  BY <1>1, Invariance, PTL

\* A line that is plain once it is commented in does not end before the offset.
LEMMA LongEnough ==
  ASSUME NEW line \in Seq(Token), NEW n \in Nat, isPlain(uncomment(line, n), n)
  PROVE  ~(Len(line) < n)
<1>1. n <= Len(uncomment(line, n)) /\ Len(uncomment(line, n)) \in Nat
  BY UncommentIsLine, IndentAtLeast DEF isPlain, Leading
<1>2. Len(uncomment(line, n)) <= Len(line) /\ Len(line) \in Nat
  <2>1. CASE n + 2 <= Len(line) /\ line[n + 1] = "#" /\ line[n + 2] = "space"
    BY <2>1, UncommentIs
  <2>2. CASE ~(n + 2 <= Len(line) /\ line[n + 1] = "#" /\ line[n + 2] = "space")
    BY <2>2 DEF uncomment
  <2>. QED
    BY <2>1, <2>2
<1>. QED
  BY <1>1, <1>2

\* findSectionsInFile and the slicing of lines in handleActivateLine and
\* handleDeactivateLine: where the lines of sections can be restored, whatever
\* runs and people do to them neither misplaces a marker nor makes a line too
\* short for its offset, so that a run fails or panics on a file only if it did on
\* the file people wrote at first: for misplaced markers, or, when it comments
\* out, for a blank line that ends before the offset.
THEOREM OnlyOriginalsFail == Spec => []StaysUpdatable
<1>1. ASSUME IndInv, NEW x \in Files, Restorable(Original[x]), NEW title \in Titles \cup {None}
      PROVE  updatable(master[x], title) <=> updatable(Original[x], title)
  <2>. DEFINE o == Original[x]
              f == master[x]
  <2>1. o \in Seq(Seq(Token)) /\ f \in Seq(Seq(Token)) /\ Follows(o, f) /\ noHiddenMarkers(o)
    BY <1>1, ActivatorAssumption DEF IndInv, TypeOK, files, MasterGood, Good, Restorable
  <2>2. Restorable(o)
    BY <1>1
  <2>. HIDE DEF o, f
  <2>3. /\ \A i \in 1 .. Len(o) : isBody(f, i) <=> isBody(o, i)
        /\ \A i \in 1 .. Len(o) : isBody(o, i) => offset(f, i) = offset(o, i)
        /\ starts(f, Len(f)) = starts(o, Len(o))
        /\ wellFormed(f) <=> wellFormed(o)
        /\ evenMarkers(f) <=> evenMarkers(o)
    BY <2>1, SameSections
  <2>4. ASSUME NEW i \in 1 .. Len(o), isBody(o, i)
        PROVE  \/ f[i] = o[i]
               \/ ~(Len(f[i]) < offset(o, i)) /\ ~(Len(o[i]) < offset(o, i))
    <3>. DEFINE n == offset(o, i)
    <3>1. Kept(o[i], f[i], n) /\ restorable(o[i], n)
      BY <2>1, <2>2, <2>4 DEF Follows, Restorable
    <3>2. o[i] \in Seq(Token) /\ f[i] \in Seq(Token) /\ n \in Nat
      <4>1. i \in 1 .. Len(f)
        BY <2>1 DEF Follows
      <4>. QED
        BY <2>1, <2>4, <4>1, SectionOK
    <3>3. CASE isBlank(o[i]) /\ Len(o[i]) < n
      BY <3>1, <3>3 DEF Kept
    <3>4. CASE isPlain(uncomment(o[i], n), n)
      <4>1. isPlain(uncomment(f[i], n), n)
        BY <3>1, <3>4 DEF Kept
      <4>. HIDE DEF n
      <4>2. ~(Len(f[i]) < n) /\ ~(Len(o[i]) < n)
        BY <3>2, <3>4, <4>1, LongEnough
      <4>. QED
        BY <4>2 DEF n
    <3>. QED
      BY <3>1, <3>3, <3>4 DEF restorable
  <2>5. Len(f) = Len(o) /\ DOMAIN f = 1 .. Len(o) /\ DOMAIN o = 1 .. Len(o)
    BY <2>1 DEF Follows
  <2>6. panics(f, title) <=> panics(o, title)
    BY <2>3, <2>4, <2>5 DEF panics
  <2>7. updatable(f, title) <=> updatable(o, title)
    BY <2>3, <2>6 DEF updatable
  <2>. QED
    BY <2>7 DEF o, f
<1>2. IndInv => StaysUpdatable
  BY <1>1 DEF StaysUpdatable
<1>. QED
  BY <1>2, Invariance, PTL
=============================================================================
