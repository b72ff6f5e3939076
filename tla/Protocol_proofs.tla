-------------------------- MODULE Protocol_proofs ---------------------------
(***************************************************************************)
(* Theorems about Protocol, for texts over any characters and of any       *)
(* length, any number of events in any order, and both ways of escaping    *)
(* the server may choose.                                                  *)
(*                                                                         *)
(* The argument follows a message from the server's pieces to the record.  *)
(* Reads(p, k) says that the tokenizer reads the tokens k from p whatever  *)
(* comes before and after; it is kept by concatenation, so a line reads as *)
(* its pieces do, and a quoted text reads as the text by induction over    *)
(* its characters.  The parsers' loops are followed the same way: Leads    *)
(* says that turns of a loop lead from one state to another, and where     *)
(* they lead to the end of the stream the loop has its result.  A reply    *)
(* is read event by event, by induction over the events.                   *)
(***************************************************************************)
EXTENDS Protocol, TLAPS, WellFoundedInduction, SequenceTheorems

-----------------------------------------------------------------------------
(* Induction, and the loops of the tokenizer and the parsers.              *)

\* A set of natural numbers that is not empty has a least element.
LEMMA Least ==
    ASSUME NEW T, T \subseteq Nat, T # {}
    PROVE  \E n \in T : \A m \in T : n <= m
<1>1. \E R : /\ IsWellFoundedOn(R, Nat)
             /\ \A m, n \in Nat : m < n => <<m, n>> \in R
  <2>1. \A m, n \in Nat : m < n => <<m, n>> \in OpToRel(<, Nat)
    BY DEF OpToRel
  <2> QED BY <2>1, NatLessThanWellFounded
<1>2. PICK R : /\ IsWellFoundedOn(R, Nat)
               /\ \A m, n \in Nat : m < n => <<m, n>> \in R
  BY <1>1
<1>3. PICK n \in T : \A m \in T : ~ (<<m, n>> \in R)
  <2>1. \A RR, S : IsWellFoundedOn(RR, S) =>
            \A Q : Q \subseteq S /\ Q # {} => \E x \in Q : \A y \in Q : ~ (<<y, x>> \in RR)
    BY WFMin, Zenon
  <2>2. \A Q : Q \subseteq Nat /\ Q # {} => \E x \in Q : \A y \in Q : ~ (<<y, x>> \in R)
    BY <1>2, <2>1
  <2> QED BY <2>2
<1>4. \A m \in T : ~ (m < n)
  BY <1>2, <1>3
<1> QED BY <1>3, <1>4

\* Induction over the natural numbers, for a set.
LEMMA Induction ==
    ASSUME NEW T, 0 \in T, \A n \in Nat : n \in T => n + 1 \in T
    PROVE  \A n \in Nat : n \in T
<1> DEFINE Others == {n \in Nat : n \notin T}
<1>1. SUFFICES ASSUME Others # {} PROVE FALSE
  OBVIOUS
<1>2. PICK n \in Others : \A m \in Others : n <= m
  BY <1>1, Least
<1>3. n \in Nat /\ n # 0 /\ n - 1 \in Nat /\ n - 1 \notin Others
  BY <1>2
<1> QED BY <1>2, <1>3

Run(h, n, turn, start) == h = [i \in 0..n |-> IF i = 0 THEN start ELSE turn[h[i - 1]]]

\* Two runs of a loop from the same state are the same as far as both go.
LEMMA RunsAgree ==
    ASSUME NEW turn, NEW start, NEW n \in Nat, NEW m \in Nat, n <= m, NEW h, NEW k,
           Run(h, n, turn, start), Run(k, m, turn, start)
    PROVE  \A i \in 0..n : h[i] = k[i]
<1> DEFINE T == {i \in Nat : i <= n => h[i] = k[i]}
<1>1. 0 \in T
  BY DEF Run
<1>2. ASSUME NEW i \in Nat, i \in T PROVE i + 1 \in T
  <2>1. SUFFICES ASSUME i + 1 <= n PROVE h[i + 1] = k[i + 1]
    OBVIOUS
  <2>2. i + 1 \in 0..n /\ i + 1 \in 0..m /\ i + 1 # 0 /\ (i + 1) - 1 = i
    BY <2>1
  <2>3. h[i + 1] = turn[h[i]]
    BY <2>2 DEF Run
  <2>4. k[i + 1] = turn[k[i]]
    BY <2>2 DEF Run
  <2>5. h[i] = k[i]
    BY <1>2, <2>1
  <2> QED BY <2>3, <2>4, <2>5
<1>3. \A i \in Nat : i \in T
  <2> HIDE DEF T
  <2> QED BY <1>1, <1>2, Induction
<1> QED BY <1>3

\* A loop may run for any number of turns.
LEMMA RunsExist ==
    ASSUME NEW turn, NEW start
    PROVE  \A n \in Nat : \E h : Run(h, n, turn, start)
<1> DEFINE T == {n \in Nat : \E h : Run(h, n, turn, start)}
<1>1. 0 \in T
  <2>1. Run([i \in 0..0 |-> start], 0, turn, start)
    BY DEF Run
  <2> QED BY <2>1
<1>2. ASSUME NEW n \in Nat, n \in T PROVE n + 1 \in T
  <2>1. PICK h : Run(h, n, turn, start)
    BY <1>2
  <2> DEFINE k == [i \in 0..(n + 1) |-> IF i = 0 THEN start ELSE turn[h[i - 1]]]
  <2>2. \A i \in 0..n : h[i] = IF i = 0 THEN start ELSE turn[h[i - 1]]
    BY <2>1 DEF Run
  <2>3. \A i \in 0..n : k[i] = h[i]
    BY <2>2
  <2>4. \A i \in 0..(n + 1) : i # 0 => k[i - 1] = h[i - 1]
    BY <2>3
  <2>5. Run(k, n + 1, turn, start)
    BY <2>4 DEF Run
  <2> QED BY <2>5
<1>3. \A n \in Nat : n \in T
  <2> HIDE DEF T
  <2> QED BY <1>1, <1>2, Induction
<1> QED BY <1>3

\* What repeating a turn means, turn by turn (the loops of api/parser.py).
LEMMA RepeatedSteps ==
    ASSUME NEW turn, NEW start
    PROVE  /\ Repeated(turn, 0, start) = start
           /\ \A n \in Nat : Repeated(turn, n + 1, start) = turn[Repeated(turn, n, start)]
           /\ Repeated(turn, 1, start) = turn[start]
<1> DEFINE run[n \in Nat] == CHOOSE h : Run(h, n, turn, start)
           all == [n \in Nat |-> run[n][n]]
           Whole(g) == g = [i \in Nat |-> IF i = 0 THEN start ELSE turn[g[i - 1]]]
<1>1. \A n \in Nat : Run(run[n], n, turn, start)
  BY RunsExist
<1> HIDE DEF run
<1>2. \A n \in Nat : n # 0 => all[n] = turn[all[n - 1]]
  <2> TAKE n \in Nat
  <2> HAVE n # 0
  <2>1. n - 1 \in Nat /\ n \in 0..n /\ n - 1 \in 0..(n - 1) /\ n - 1 <= n
    OBVIOUS
  <2>2. run[n][n] = turn[run[n][n - 1]]
    BY <1>1, <2>1 DEF Run
  <2>3. Run(run[n - 1], n - 1, turn, start) /\ Run(run[n], n, turn, start)
    BY <1>1, <2>1
  <2> DEFINE h == run[n - 1]
             k == run[n]
             m == n - 1
  <2>4. h[m] = k[m]
    <3>1. m \in Nat /\ m <= n /\ m \in 0..m /\ Run(h, m, turn, start) /\ Run(k, n, turn, start)
      BY <2>1, <2>3
    <3> HIDE DEF h, k, m
    <3> QED BY <3>1, RunsAgree
  <2> QED BY <2>1, <2>2, <2>4 DEF h
<1>3. all[0] = start
  <2>1. Run(run[0], 0, turn, start) /\ 0 \in 0..0
    BY <1>1
  <2>2. run[0][0] = start
    BY <2>1 DEF Run
  <2> QED BY <2>2
<1>4. Whole(all)
  BY <1>2, <1>3
<1> DEFINE after == CHOOSE g : Whole(g)
<1>5. Whole(after)
  BY <1>4
<1>6. \A n \in Nat : Repeated(turn, n, start) = after[n]
  BY DEF Repeated
<1> HIDE DEF after
<1>7. after[0] = start /\ after[1] = turn[start] /\ \A n \in Nat : after[n + 1] = turn[after[n]]
  BY <1>5
<1> QED BY <1>6, <1>7

\* Turns taken m and then n times are taken m + n times.
LEMMA RepeatedSum ==
    ASSUME NEW turn, NEW start, NEW m \in Nat
    PROVE  \A n \in Nat :
             Repeated(turn, m + n, start) = Repeated(turn, n, Repeated(turn, m, start))
<1> DEFINE T == {n \in Nat : Repeated(turn, m + n, start) = Repeated(turn, n, Repeated(turn, m, start))}
<1>1. 0 \in T
  BY RepeatedSteps
<1>2. ASSUME NEW n \in Nat, n \in T PROVE n + 1 \in T
  <2>1. m + (n + 1) = (m + n) + 1 /\ m + n \in Nat
    OBVIOUS
  <2>2. Repeated(turn, (m + n) + 1, start) = turn[Repeated(turn, m + n, start)]
    BY <2>1, RepeatedSteps
  <2>3. Repeated(turn, n + 1, Repeated(turn, m, start)) = turn[Repeated(turn, n, Repeated(turn, m, start))]
    BY RepeatedSteps
  <2> QED BY <1>2, <2>1, <2>2, <2>3
<1>3. \A n \in Nat : n \in T
  <2> HIDE DEF T
  <2> QED BY <1>1, <1>2, Induction
<1> QED BY <1>3

\* Where a turn changes nothing, no number of turns does.
LEMMA RepeatedStays ==
    ASSUME NEW turn, NEW start, turn[start] = start
    PROVE  \A n \in Nat : Repeated(turn, n, start) = start
<1> DEFINE T == {n \in Nat : Repeated(turn, n, start) = start}
<1>1. 0 \in T
  BY RepeatedSteps
<1>2. ASSUME NEW n \in Nat, n \in T PROVE n + 1 \in T
  BY <1>2, RepeatedSteps
<1>3. \A n \in Nat : n \in T
  <2> HIDE DEF T
  <2> QED BY <1>1, <1>2, Induction
<1> QED BY <1>3

\* Turns of a loop lead from state a to state b, and each reads something.
Leads(turn, a, b) ==
    \E n \in Nat : /\ n <= Len(a.rest) - Len(b.rest)
                   /\ Repeated(turn, n, a) = b

\* A loop leads from a state to itself, in no turns.
LEMMA LeadsNowhere ==
    ASSUME NEW turn, NEW a, Len(a.rest) \in Nat
    PROVE  Leads(turn, a, a)
<1>1. Repeated(turn, 0, a) = a /\ 0 <= Len(a.rest) - Len(a.rest)
  BY RepeatedSteps
<1> QED BY <1>1 DEF Leads

\* A turn that reads something leads to its result.
LEMMA LeadsOnce ==
    ASSUME NEW turn, NEW a, Len(a.rest) \in Nat, Len(turn[a].rest) \in Nat,
           Len(turn[a].rest) < Len(a.rest)
    PROVE  Leads(turn, a, turn[a])
<1>1. Repeated(turn, 1, a) = turn[a]
  BY RepeatedSteps
<1>2. 1 <= Len(a.rest) - Len(turn[a].rest)
  OBVIOUS
<1> QED BY <1>1, <1>2 DEF Leads

\* What leads to a state that leads on leads there.
LEMMA LeadsOn ==
    ASSUME NEW turn, NEW a, NEW b, NEW c, Leads(turn, a, b), Leads(turn, b, c),
           Len(a.rest) \in Nat, Len(b.rest) \in Nat, Len(c.rest) \in Nat
    PROVE  Leads(turn, a, c)
<1>1. PICK m \in Nat : m <= Len(a.rest) - Len(b.rest) /\ Repeated(turn, m, a) = b
  BY DEF Leads
<1>2. PICK n \in Nat : n <= Len(b.rest) - Len(c.rest) /\ Repeated(turn, n, b) = c
  BY DEF Leads
<1>3. Repeated(turn, m + n, a) = c
  BY <1>1, <1>2, RepeatedSum
<1>4. m + n \in Nat /\ m + n <= Len(a.rest) - Len(c.rest)
  <2>1. PICK la \in Nat : la = Len(a.rest)
    OBVIOUS
  <2>2. PICK lb \in Nat : lb = Len(b.rest)
    OBVIOUS
  <2>3. PICK lc \in Nat : lc = Len(c.rest)
    OBVIOUS
  <2>4. m <= la - lb /\ n <= lb - lc
    BY <1>1, <1>2, <2>1, <2>2, <2>3
  <2>5. m + n \in Nat /\ m + n <= la - lc
    BY <2>4
  <2> QED BY <2>1, <2>3, <2>5
<1> QED BY <1>3, <1>4 DEF Leads

\* Where the turns of a loop lead to a state that stays as it is, the loop ends there.
LEMMA LoopEnds ==
    ASSUME NEW turn, NEW a, NEW b, Leads(turn, a, b), turn[b] = b,
           Len(a.rest) \in Nat, Len(b.rest) \in Nat
    PROVE  Loop(turn, a) = b
<1>1. PICK n \in Nat : n <= Len(a.rest) - Len(b.rest) /\ Repeated(turn, n, a) = b
  BY DEF Leads
<1>2. PICK m \in Nat : Len(a.rest) = n + m
  <2>1. \A la, lb \in Nat : n <= la - lb => la - n \in Nat /\ la = n + (la - n)
    OBVIOUS
  <2> QED BY <1>1, <2>1
<1>3. Repeated(turn, n + m, a) = Repeated(turn, m, b)
  BY <1>1, RepeatedSum
<1>4. Repeated(turn, m, b) = b
  BY RepeatedStays
<1> QED BY <1>2, <1>3, <1>4 DEF Loop

-----------------------------------------------------------------------------
(* Sequences, and the concatenation of many.                               *)

\* An element before a sequence.
LEMMA ConsIs ==
    ASSUME NEW S, NEW x \in S, NEW s \in Seq(S)
    PROVE  /\ <<x>> \o s \in Seq(S) /\ <<x>> \o s # <<>>
           /\ Len(<<x>> \o s) = Len(s) + 1
           /\ (<<x>> \o s)[1] = x /\ Head(<<x>> \o s) = x /\ Tail(<<x>> \o s) = s
           /\ \A i \in 1..Len(s) : (<<x>> \o s)[i + 1] = s[i]
<1> DEFINE u == <<x>> \o s
<1>1. <<x>> \in Seq(S) /\ Len(<<x>>) = 1
  OBVIOUS
<1>2. u \in Seq(S) /\ Len(u) = Len(s) + 1 /\ u[1] = x /\ \A i \in 1..Len(s) : u[i + 1] = s[i]
  BY <1>1, ConcatProperties
<1> HIDE DEF u
<1>3. u # <<>> /\ Head(u) = x
  BY <1>2
<1>4. Tail(u) = s
  <2>1. Tail(u) \in Seq(S) /\ Len(Tail(u)) = Len(u) - 1 /\ \A i \in 1..Len(Tail(u)) : Tail(u)[i] = u[i + 1]
    BY <1>2, <1>3, HeadTailProperties
  <2> QED BY <1>2, <2>1, SeqEqual
<1> QED BY <1>2, <1>3, <1>4 DEF u

\* What is left of two sequences without the first.
LEMMA Suffix ==
    ASSUME NEW S, NEW s \in Seq(S), NEW t \in Seq(S)
    PROVE  SubSeq(s \o t, Len(s) + 1, Len(s \o t)) = t
<1> DEFINE u == s \o t
           v == SubSeq(u, Len(s) + 1, Len(u))
<1>1. /\ u \in Seq(S) /\ Len(u) = Len(s) + Len(t) /\ Len(s) \in Nat /\ Len(t) \in Nat
      /\ \A i \in 1..Len(t) : u[Len(s) + i] = t[i]
  BY ConcatProperties, LenProperties
<1> HIDE DEF u
<1>2. CASE Len(t) = 0
  BY <1>1, <1>2
<1>3. CASE Len(t) > 0
  <2>1. \A i \in (Len(s) + 1)..Len(u) : u[i] \in S
    BY <1>1
  <2>2. v \in Seq(S) /\ Len(v) = Len(t) /\ \A i \in 1..Len(v) : v[i] = u[Len(s) + i]
    BY <1>1, <1>3, <2>1, SubSeqProperties
  <2> QED BY <1>1, <2>2, SeqEqual
<1> QED BY <1>1, <1>2, <1>3 DEF u

\* What is left of two sequences without the second.
LEMMA Prefix ==
    ASSUME NEW S, NEW s \in Seq(S), NEW t \in Seq(S)
    PROVE  SubSeq(s \o t, 1, Len(s)) = s
<1> DEFINE u == s \o t
           v == SubSeq(u, 1, Len(s))
<1>1. /\ u \in Seq(S) /\ Len(u) = Len(s) + Len(t) /\ Len(s) \in Nat /\ Len(t) \in Nat
      /\ \A i \in 1..Len(s) : u[i] = s[i]
  BY ConcatProperties, LenProperties
<1> HIDE DEF u
<1>2. CASE Len(s) = 0
  BY <1>1, <1>2
<1>3. CASE Len(s) > 0
  <2>1. \A i \in 1..Len(s) : u[i] \in S
    BY <1>1
  <2>2. v \in Seq(S) /\ Len(v) = Len(s) /\ \A i \in 1..Len(v) : v[i] = u[i]
    BY <1>1, <1>3, <2>1, SubSeqProperties
  <2> QED BY <1>1, <2>2, SeqEqual
<1> QED BY <1>1, <1>2, <1>3 DEF u

\* A sequence that is not empty is a shorter one and an element after it.
LEMMA LastOne ==
    ASSUME NEW S, NEW s \in Seq(S), s # <<>>
    PROVE  \E t \in Seq(S), x \in S : s = Append(t, x) /\ Len(s) = Len(t) + 1
<1> DEFINE n == Len(s)
           t == SubSeq(s, 1, n - 1)
<1>1. n \in Nat /\ n >= 1 /\ s[n] \in S /\ \A i \in 1..n : s[i] \in S
  BY LenProperties
<1>2. t \in Seq(S) /\ Len(t) = n - 1 /\ \A i \in 1..(n - 1) : t[i] = s[i]
  <2>1. CASE n = 1
    BY <1>1, <2>1
  <2>2. CASE n > 1
    BY <1>1, <2>2, SubSeqProperties
  <2>3. n = 1 \/ n > 1
    <3> HIDE DEF n
    <3> QED BY <1>1
  <2> QED BY <2>1, <2>2, <2>3
<1> HIDE DEF t
<1>3. Append(t, s[n]) \in Seq(S) /\ Len(Append(t, s[n])) = n
      /\ \A i \in 1..n : Append(t, s[n])[i] = s[i]
  BY <1>1, <1>2
<1>4. s = Append(t, s[n])
  BY <1>3, SeqEqual
<1> QED BY <1>1, <1>2, <1>4

\* Induction on sequences, by the element that was appended last.
LEMMA SeqInduction ==
    ASSUME NEW S, NEW P, <<>> \in P, \A s \in Seq(S), x \in S : s \in P => Append(s, x) \in P
    PROVE  \A s \in Seq(S) : s \in P
<1> DEFINE T == {n \in Nat : \A s \in Seq(S) : Len(s) = n => s \in P}
<1>1. 0 \in T
  OBVIOUS
<1>2. ASSUME NEW n \in Nat, n \in T PROVE n + 1 \in T
  <2>1. SUFFICES ASSUME NEW s \in Seq(S), Len(s) = n + 1 PROVE s \in P
    OBVIOUS
  <2>2. s # <<>>
    BY <2>1
  <2>3. PICK t \in Seq(S), x \in S : s = Append(t, x) /\ Len(s) = Len(t) + 1
    BY <2>2, LastOne
  <2>4. Len(t) = n
    BY <2>1, <2>3
  <2> QED BY <1>2, <2>3, <2>4
<1>3. \A n \in Nat : n \in T
  <2> HIDE DEF T
  <2> QED BY <1>1, <1>2, Induction
<1> QED BY <1>3

\* Find is the place of the first mark.
LEMMA FindFirst ==
    ASSUME NEW s \in Text, NEW marks, NEW i \in Nat, NEW j \in i..Len(s), s[j] \in marks,
           \A k \in i..(j - 1) : s[k] \notin marks
    PROVE  Find(s, i, marks) = j
<1> DEFINE found == {k \in i..Len(s) : s[k] \in marks}
<1>1. j \in found /\ \A k \in found : j <= k
  BY DEF Text
<1>2. \A f \in found : (\A k \in found : f <= k) => f = j
  BY <1>1
<1>3. (CHOOSE f \in found : \A k \in found : f <= k) = j
  BY <1>1, <1>2
<1> QED BY <1>1, <1>3 DEF Find

FlatRun(h, n, ss) == h = [i \in 1..n |-> IF i = 1 THEN ss[i] ELSE h[i - 1] \o ss[i]]

\* Two runs that concatenate the same sequences are the same.
LEMMA FlatRunsAgree ==
    ASSUME NEW n \in Nat, NEW m \in Nat, n <= m, NEW ss, NEW tt, \A i \in 1..n : ss[i] = tt[i],
           NEW h, NEW k, FlatRun(h, n, ss), FlatRun(k, m, tt)
    PROVE  \A i \in 1..n : h[i] = k[i]
<1> DEFINE T == {i \in Nat : i + 1 <= n => h[i + 1] = k[i + 1]}
<1>1. 0 \in T
  BY DEF FlatRun
<1>2. ASSUME NEW i \in Nat, i \in T PROVE i + 1 \in T
  <2> DEFINE j == i + 1
  <2>1. SUFFICES ASSUME j + 1 <= n PROVE h[j + 1] = k[j + 1]
    OBVIOUS
  <2>2. j + 1 \in 1..n /\ j + 1 \in 1..m /\ j + 1 # 1 /\ (j + 1) - 1 = j
    BY <2>1
  <2>3. h[j] = k[j]
    BY <1>2, <2>1
  <2> HIDE DEF j
  <2>4. h[j + 1] = h[j] \o ss[j + 1]
    BY <2>2 DEF FlatRun
  <2>5. k[j + 1] = k[j] \o tt[j + 1]
    BY <2>2 DEF FlatRun
  <2>6. ss[j + 1] = tt[j + 1]
    BY <2>2
  <2> QED BY <2>3, <2>4, <2>5, <2>6
<1>3. \A i \in Nat : i \in T
  <2> HIDE DEF T
  <2> QED BY <1>1, <1>2, Induction
<1>4. \A i \in 1..n : i - 1 \in Nat /\ (i - 1) + 1 = i
  OBVIOUS
<1> QED BY <1>3, <1>4

\* Any number of sequences can be concatenated.
LEMMA FlatRunsExist ==
    ASSUME NEW ss
    PROVE  \A n \in Nat : \E h : FlatRun(h, n, ss)
<1> DEFINE T == {n \in Nat : \E h : FlatRun(h, n, ss)}
<1>1. 0 \in T
  <2>1. FlatRun([i \in 1..0 |-> ss], 0, ss)
    BY DEF FlatRun
  <2> QED BY <2>1
<1>2. ASSUME NEW n \in Nat, n \in T PROVE n + 1 \in T
  <2>1. PICK h : FlatRun(h, n, ss)
    BY <1>2
  <2> DEFINE k == [i \in 1..(n + 1) |-> IF i = 1 THEN ss[i] ELSE h[i - 1] \o ss[i]]
  <2>2. \A i \in 1..n : h[i] = IF i = 1 THEN ss[i] ELSE h[i - 1] \o ss[i]
    BY <2>1 DEF FlatRun
  <2>3. \A i \in 1..n : k[i] = h[i]
    BY <2>2
  <2>4. \A i \in 1..(n + 1) : i # 1 => k[i - 1] = h[i - 1]
    <3> HIDE DEF k
    <3>1. \A i \in 1..(n + 1) : i # 1 => i - 1 \in 1..n
      OBVIOUS
    <3> QED BY <2>3, <3>1
  <2>5. FlatRun(k, n + 1, ss)
    BY <2>4 DEF FlatRun
  <2> QED BY <2>5
<1>3. \A n \in Nat : n \in T
  <2> HIDE DEF T
  <2> QED BY <1>1, <1>2, Induction
<1> QED BY <1>3

\* FlattenSeq is the last of such a run.
LEMMA FlattenIs ==
    ASSUME NEW ss, Len(ss) \in Nat, Len(ss) # 0
    PROVE  \E h : FlatRun(h, Len(ss), ss) /\ FlattenSeq(ss) = h[Len(ss)]
<1> DEFINE h == CHOOSE g : FlatRun(g, Len(ss), ss)
<1>1. FlatRun(h, Len(ss), ss)
  BY FlatRunsExist
<1>2. FlattenSeq(ss) = h[Len(ss)]
  BY DEF FlattenSeq, FlatRun
<1> QED BY <1>1, <1>2

\* A longer run ends with one concatenation more.
LEMMA FlatRunOn ==
    ASSUME NEW n \in Nat, n # 0, NEW ss, NEW tt, \A i \in 1..n : ss[i] = tt[i],
           NEW h, NEW k, FlatRun(h, n, ss), FlatRun(k, n + 1, tt)
    PROVE  k[n + 1] = h[n] \o tt[n + 1]
<1>1. k[n + 1] = k[n] \o tt[n + 1]
  <2>1. n + 1 \in 1..(n + 1) /\ n + 1 # 1 /\ (n + 1) - 1 = n
    OBVIOUS
  <2> QED BY <2>1 DEF FlatRun
<1>2. n \in 1..n /\ n + 1 \in Nat /\ n <= n + 1
  OBVIOUS
<1>3. \A i \in 1..n : h[i] = k[i]
  BY <1>2, FlatRunsAgree
<1> QED BY <1>1, <1>2, <1>3

\* Flattening a list with one sequence more, from the definition.
LEMMA FlattenAppend ==
    ASSUME NEW S, NEW ss \in Seq(Seq(S)), NEW s \in Seq(S)
    PROVE  FlattenSeq(Append(ss, s)) = IF ss = <<>> THEN s ELSE FlattenSeq(ss) \o s
<1> DEFINE tt == Append(ss, s)
           n == Len(ss)
<1>1. n \in Nat /\ n + 1 \in Nat /\ Len(tt) = n + 1 /\ tt[n + 1] = s /\ \A i \in 1..n : tt[i] = ss[i]
  BY AppendProperties, LenProperties
<1>2. PICK k : FlatRun(k, n + 1, tt) /\ FlattenSeq(tt) = k[n + 1]
  <2> HIDE DEF tt, n
  <2>1. Len(tt) \in Nat /\ Len(tt) # 0
    BY <1>1
  <2> QED BY <1>1, <2>1, FlattenIs
<1> HIDE DEF tt
<1>3. CASE n = 0
  <2>1. ss = <<>>
    BY <1>3
  <2>2. k[1] = tt[1]
    BY <1>1, <1>2, <1>3 DEF FlatRun
  <2> QED BY <1>1, <1>2, <1>3, <2>1, <2>2 DEF tt
<1>4. CASE n # 0
  <2>1. ss # <<>>
    BY <1>4
  <2>2. PICK h : FlatRun(h, n, ss) /\ FlattenSeq(ss) = h[n]
    BY <1>1, <1>4, FlattenIs
  <2> HIDE DEF n
  <2>3. FlatRun(k, n + 1, tt) /\ \A i \in 1..n : ss[i] = tt[i]
    BY <1>1, <1>2
  <2>4. k[n + 1] = h[n] \o tt[n + 1]
    BY <1>1, <1>4, <2>2, <2>3, FlatRunOn
  <2>5. FlattenSeq(tt) = FlattenSeq(ss) \o s
    BY <1>1, <1>2, <2>2, <2>4
  <2> QED BY <2>1, <2>5 DEF tt
<1> QED BY <1>3, <1>4

\* Flattening no sequences.
LEMMA FlattenEmpty == FlattenSeq(<<>>) = <<>>
  BY DEF FlattenSeq

\* Flattening a list with one sequence more adds that sequence.
LEMMA FlattenOn ==
    ASSUME NEW S
    PROVE  \A ss \in Seq(Seq(S)) :
             /\ FlattenSeq(ss) \in Seq(S)
             /\ \A s \in Seq(S) : FlattenSeq(Append(ss, s)) = FlattenSeq(ss) \o s
<1> DEFINE P == {ss \in Seq(Seq(S)) : FlattenSeq(ss) \in Seq(S)}
<1>1. <<>> \in P
  <2>1. <<>> \in Seq(Seq(S)) /\ <<>> \in Seq(S)
    OBVIOUS
  <2> QED BY <2>1, FlattenEmpty
<1>2. ASSUME NEW ss \in Seq(Seq(S)), NEW s \in Seq(S), ss \in P PROVE Append(ss, s) \in P
  <2>1. FlattenSeq(Append(ss, s)) = IF ss = <<>> THEN s ELSE FlattenSeq(ss) \o s
    BY FlattenAppend
  <2>2. FlattenSeq(ss) \in Seq(S)
    BY <1>2
  <2>3. FlattenSeq(ss) \o s \in Seq(S)
    BY <2>2, ConcatProperties
  <2>4. Append(ss, s) \in Seq(Seq(S))
    <3> DEFINE SS == Seq(S)
    <3>1. ss \in Seq(SS) /\ s \in SS
      OBVIOUS
    <3> HIDE DEF SS
    <3>2. Append(ss, s) \in Seq(SS)
      BY <3>1, AppendProperties
    <3> QED BY <3>2 DEF SS
  <2>5. FlattenSeq(Append(ss, s)) \in Seq(S)
    BY <2>1, <2>3
  <2> QED BY <2>4, <2>5
<1>3. \A ss \in Seq(Seq(S)) : ss \in P
  <2> HIDE DEF P
  <2> QED BY <1>1, <1>2, SeqInduction
<1>4. ASSUME NEW ss \in Seq(Seq(S)), NEW s \in Seq(S)
      PROVE  FlattenSeq(Append(ss, s)) = FlattenSeq(ss) \o s
  <2>1. CASE ss = <<>>
    BY <2>1, FlattenAppend, FlattenEmpty, ConcatEmptySeq
  <2>2. CASE ss # <<>>
    BY <2>2, FlattenAppend
  <2> QED BY <2>1, <2>2
<1> QED BY <1>3, <1>4

\* Appending and concatenating.
LEMMA AppendConcat ==
    ASSUME NEW S, NEW s \in Seq(S), NEW t \in Seq(S), NEW x \in S
    PROVE  /\ s \o Append(t, x) = Append(s \o t, x)
           /\ Append(s, x) \o t = s \o (<<x>> \o t)
<1>1. <<x>> \in Seq(S)
  OBVIOUS
<1>2. Append(t, x) = t \o <<x>> /\ Append(s, x) = s \o <<x>>
  BY AppendIsConcat
<1>3. s \o t \in Seq(S)
  BY ConcatProperties
<1>4. Append(s \o t, x) = (s \o t) \o <<x>>
  BY <1>3, AppendIsConcat
<1>5. s \o (t \o <<x>>) = (s \o t) \o <<x>>
  BY <1>1, ConcatAssociative
<1>6. (s \o <<x>>) \o t = s \o (<<x>> \o t)
  BY <1>1, ConcatAssociative
<1> QED BY <1>2, <1>4, <1>5, <1>6

FlatMap(F, s) == FlattenSeq([i \in DOMAIN s |-> F[s[i]]])

\* An operator of its own, so that the provers match it as a whole.
Maps(F, S, R) == F \in [S -> R]

\* Mapping a sequence with one element more.
LEMMA Mapped ==
    ASSUME NEW S, NEW R, NEW F, Maps(F, S, R), NEW s \in Seq(S), NEW x \in S
    PROVE  /\ [i \in DOMAIN s |-> F[s[i]]] \in Seq(R)
           /\ [i \in DOMAIN Append(s, x) |-> F[Append(s, x)[i]]] = Append([i \in DOMAIN s |-> F[s[i]]], F[x])
<1> DEFINE t == Append(s, x)
           n == Len(s)
           fs == [i \in DOMAIN s |-> F[s[i]]]
           ft == [i \in DOMAIN t |-> F[t[i]]]
<1>1. /\ n \in Nat /\ DOMAIN s = 1..n /\ \A i \in 1..n : s[i] \in S
      /\ t \in Seq(S) /\ Len(t) = n + 1 /\ t[n + 1] = x /\ \A i \in 1..n : t[i] = s[i]
  BY LenProperties, AppendProperties
<1>2. DOMAIN t = 1..(n + 1) /\ \A i \in 1..(n + 1) : t[i] \in S
  BY <1>1, LenProperties
<1> HIDE DEF t, n
<1>3. fs \in Seq(R) /\ Len(fs) = n /\ \A i \in 1..n : fs[i] = F[s[i]]
  BY <1>1 DEF Maps
<1>4. ft \in Seq(R) /\ Len(ft) = n + 1 /\ \A i \in 1..(n + 1) : ft[i] = F[t[i]]
  BY <1>2, <1>1 DEF Maps
<1>5. F[x] \in R
  BY DEF Maps
<1> HIDE DEF fs, ft
<1>6. Append(fs, F[x]) \in Seq(R) /\ Len(Append(fs, F[x])) = n + 1 /\ Append(fs, F[x])[n + 1] = F[x]
      /\ \A i \in 1..n : Append(fs, F[x])[i] = fs[i]
  BY <1>3, <1>5, AppendProperties
<1>7. \A i \in 1..(n + 1) : ft[i] = Append(fs, F[x])[i]
  <2> TAKE i \in 1..(n + 1)
  <2>1. CASE i = n + 1
    BY <1>1, <1>4, <1>6, <2>1
  <2>2. CASE i # n + 1
    <3>1. i \in 1..n
      BY <1>1, <2>2
    <3> QED BY <1>1, <1>3, <1>4, <1>6, <3>1
  <2> QED BY <2>1, <2>2
<1>8. ft = Append(fs, F[x])
  BY <1>4, <1>6, <1>7, SeqEqual
<1> QED BY <1>3, <1>8 DEF fs, ft, t

\* A flat map of nothing.
LEMMA FlatMapEmpty == ASSUME NEW F PROVE FlatMap(F, <<>>) = <<>>
<1>1. [i \in DOMAIN <<>> |-> F[<<>>[i]]] = <<>>
  OBVIOUS
<1> QED BY <1>1, FlattenEmpty DEF FlatMap

\* A flat map of a sequence with one element more.
LEMMA FlatMapAppend ==
    ASSUME NEW S, NEW R, NEW F, Maps(F, S, Seq(R)), NEW s \in Seq(S)
    PROVE  /\ FlatMap(F, s) \in Seq(R)
           /\ \A x \in S : FlatMap(F, Append(s, x)) = FlatMap(F, s) \o F[x]
<1> DEFINE fs == [i \in DOMAIN s |-> F[s[i]]]
<1>0. /\ <<>> \in Seq(Seq(R))
      /\ \A x \in S : /\ fs \in Seq(Seq(R))
                      /\ [i \in DOMAIN Append(s, x) |-> F[Append(s, x)[i]]] = Append(fs, F[x])
  <2> DEFINE RR == Seq(R)
  <2>1. Maps(F, S, RR)
    OBVIOUS
  <2>2. <<>> \in Seq(Seq(R))
    OBVIOUS
  <2> HIDE DEF RR
  <2>3. \A x \in S : fs \in Seq(RR) /\ [i \in DOMAIN Append(s, x) |-> F[Append(s, x)[i]]] = Append(fs, F[x])
    BY <2>1, Mapped
  <2> QED BY <2>2, <2>3 DEF RR
<1>1. fs \in Seq(Seq(R))
  <2>1. CASE s = <<>>
    <3>1. fs = <<>>
      BY <2>1
    <3> QED BY <1>0, <3>1
  <2>2. CASE s # <<>>
    <3>1. \E x : x \in S
      BY <2>2, HeadTailProperties
    <3> QED BY <1>0, <3>1
  <2> QED BY <2>1, <2>2
<1>2. FlatMap(F, s) \in Seq(R)
  BY <1>1, FlattenOn DEF FlatMap
<1>3. ASSUME NEW x \in S PROVE FlatMap(F, Append(s, x)) = FlatMap(F, s) \o F[x]
  <2>1. F[x] \in Seq(R)
    BY DEF Maps
  <2>2. FlattenSeq(Append(fs, F[x])) = FlattenSeq(fs) \o F[x]
    BY <1>1, <2>1, FlattenOn
  <2>3. [i \in DOMAIN Append(s, x) |-> F[Append(s, x)[i]]] = Append(fs, F[x])
    BY <1>0
  <2> QED BY <2>2, <2>3 DEF FlatMap
<1> QED BY <1>2, <1>3

\* A flat map of two sequences is that of each.
LEMMA FlatMapConcat ==
    ASSUME NEW S, NEW R, NEW F, Maps(F, S, Seq(R)), NEW s \in Seq(S)
    PROVE  \A t \in Seq(S) : FlatMap(F, s \o t) = FlatMap(F, s) \o FlatMap(F, t)
<1> DEFINE P == {t \in Seq(S) : FlatMap(F, s \o t) = FlatMap(F, s) \o FlatMap(F, t)}
<1>1. <<>> \in P
  <2>1. s \o <<>> = s /\ <<>> \in Seq(S)
    BY ConcatEmptySeq
  <2>2. FlatMap(F, s) \o <<>> = FlatMap(F, s)
    BY FlatMapAppend, ConcatEmptySeq
  <2> QED BY <2>1, <2>2, FlatMapEmpty
<1>2. ASSUME NEW t \in Seq(S), NEW x \in S, t \in P PROVE Append(t, x) \in P
  <2>1. s \o Append(t, x) = Append(s \o t, x) /\ s \o t \in Seq(S) /\ Append(t, x) \in Seq(S)
    BY AppendConcat, ConcatProperties, AppendProperties
  <2>2. FlatMap(F, Append(s \o t, x)) = FlatMap(F, s \o t) \o F[x]
    <3> DEFINE u == s \o t
    <3>1. u \in Seq(S)
      BY <2>1
    <3> HIDE DEF u
    <3>2. FlatMap(F, Append(u, x)) = FlatMap(F, u) \o F[x]
      BY <3>1, FlatMapAppend
    <3> QED BY <3>2 DEF u
  <2>3. FlatMap(F, Append(t, x)) = FlatMap(F, t) \o F[x]
    BY FlatMapAppend
  <2>4. FlatMap(F, s) \in Seq(R) /\ FlatMap(F, t) \in Seq(R) /\ F[x] \in Seq(R)
    BY FlatMapAppend DEF Maps
  <2>5. (FlatMap(F, s) \o FlatMap(F, t)) \o F[x] = FlatMap(F, s) \o (FlatMap(F, t) \o F[x])
    <3> DEFINE a == FlatMap(F, s)
               b == FlatMap(F, t)
               c == F[x]
    <3>1. a \in Seq(R) /\ b \in Seq(R) /\ c \in Seq(R)
      BY <2>4
    <3> HIDE DEF a, b, c
    <3>2. (a \o b) \o c = a \o (b \o c)
      BY <3>1, ConcatAssociative
    <3> QED BY <3>2 DEF a, b, c
  <2>6. FlatMap(F, s \o t) = FlatMap(F, s) \o FlatMap(F, t)
    BY <1>2
  <2>7. FlatMap(F, s \o Append(t, x)) = FlatMap(F, s) \o FlatMap(F, Append(t, x))
    BY <2>1, <2>2, <2>3, <2>5, <2>6
  <2> QED BY <2>1, <2>7
<1>3. \A t \in Seq(S) : t \in P
  <2> HIDE DEF P
  <2> QED BY <1>1, <1>2, SeqInduction
<1> QED BY <1>3

\* A flat map of one element.
LEMMA FlatMapOne ==
    ASSUME NEW S, NEW R, NEW F, Maps(F, S, Seq(R)), NEW x \in S
    PROVE  FlatMap(F, <<x>>) = F[x]
<1>1. <<>> \in Seq(S) /\ Append(<<>>, x) = <<x>>
  OBVIOUS
<1>2. FlatMap(F, Append(<<>>, x)) = FlatMap(F, <<>>) \o F[x]
  <2> DEFINE e == <<>>
  <2>1. e \in Seq(S)
    OBVIOUS
  <2> HIDE DEF e
  <2>2. FlatMap(F, Append(e, x)) = FlatMap(F, e) \o F[x]
    BY <2>1, FlatMapAppend
  <2> QED BY <2>2 DEF e
<1>3. <<>> \o F[x] = F[x]
  BY ConcatEmptySeq DEF Maps
<1> QED BY <1>1, <1>2, <1>3, FlatMapEmpty

-----------------------------------------------------------------------------
(* Quoting a text, and reading it back.                                    *)

Char(escaped) == [c \in Symbols |-> IF c \in escaped THEN <<"#">> \o Hex[c] ELSE <<c>>]
Encoded(s, escaped) == FlatMap(Char(escaped), s)
Escapes(escaped) == escaped \subseteq DOMAIN Hex /\ Mark \in escaped /\ "#" \in escaped

\* One element before a pair.
LEMMA Joined == ASSUME NEW a, NEW b, NEW c PROVE <<a>> \o <<b, c>> = <<a, b, c>>
<1> DEFINE S == {a, b, c}
           u == <<a>>
           v == <<b, c>>
           w == <<a, b, c>>
<1>1. u \in Seq(S) /\ v \in Seq(S) /\ w \in Seq(S) /\ Len(u) = 1 /\ Len(v) = 2 /\ Len(w) = 3
  OBVIOUS
<1>2. u[1] = w[1] /\ v[1] = w[2] /\ v[2] = w[3]
  OBVIOUS
<1> HIDE DEF u, v, w, S
<1>3. u \o v \in Seq(S) /\ Len(u \o v) = 3
      /\ (u \o v)[1] = u[1] /\ (u \o v)[2] = v[1] /\ (u \o v)[3] = v[2]
  <2>1. /\ u \o v \in Seq(S) /\ Len(u \o v) = Len(u) + Len(v)
        /\ \A i \in 1..(Len(u) + Len(v)) : (u \o v)[i] = IF i <= Len(u) THEN u[i] ELSE v[i - Len(u)]
    BY <1>1, ConcatProperties
  <2>2. \A i \in 1..3 : (u \o v)[i] = IF i <= 1 THEN u[i] ELSE v[i - 1]
    BY <1>1, <2>1
  <2> QED BY <1>1, <2>1, <2>2
<1>4. \A i \in 1..3 : (u \o v)[i] = w[i]
  BY <1>2, <1>3
<1>5. u \o v = w
  BY <1>1, <1>3, <1>4, SeqEqual
<1> QED BY <1>5 DEF u, v, w

\* The elements of a pair.
LEMMA PairIs == ASSUME NEW a, NEW b, NEW x, x = <<a, b>> PROVE x[1] = a /\ x[2] = b
  OBVIOUS

First(c) == Hex[c][1]
Second(c) == Hex[c][2]

\* No two symbols that may be escaped have the same digits, and none has a special one.
LEMMA HexDigits ==
    /\ DOMAIN Hex = {Mark, "#", "\n", " ", ",", "2", "z"} /\ DOMAIN Hex \subseteq Symbols
    /\ \A c \in DOMAIN Hex : /\ Hex[c] = <<Hex[c][1], Hex[c][2]>>
                             /\ Hex[c][1] \in {"0", "2", "3", "7"} /\ Hex[c][2] \in {"0", "2", "3", "A", "C"}
    /\ \A c, d \in DOMAIN Hex : Hex[d][1] = Hex[c][1] /\ Hex[d][2] = Hex[c][2] => c = d
<1>1. DOMAIN Hex = {Mark, "#", "\n", " ", ",", "2", "z"}
  BY DEF Hex
<1>2. /\ Hex[Mark] = <<"2", "2">> /\ Hex["#"] = <<"2", "3">> /\ Hex["\n"] = <<"0", "A">>
      /\ Hex[" "] = <<"2", "0">> /\ Hex[","] = <<"2", "C">> /\ Hex["2"] = <<"3", "2">>
      /\ Hex["z"] = <<"7", "A">>
  BY DEF Hex, Mark
<1>3. ASSUME NEW c \in DOMAIN Hex
      PROVE  \E a \in {"0", "2", "3", "7"}, b \in {"0", "2", "3", "A", "C"} : Hex[c] = <<a, b>>
  <2>1. CASE c = Mark    BY <1>2, <2>1
  <2>2. CASE c = "#"     BY <1>2, <2>2
  <2>3. CASE c = "\n"    BY <1>2, <2>3
  <2>4. CASE c = " "     BY <1>2, <2>4
  <2>5. CASE c = ","     BY <1>2, <2>5
  <2>6. CASE c = "2"     BY <1>2, <2>6
  <2>7. CASE c = "z"     BY <1>2, <2>7
  <2> QED BY <1>1, <2>1, <2>2, <2>3, <2>4, <2>5, <2>6, <2>7
<1>4. \A c \in DOMAIN Hex : /\ Hex[c] = <<Hex[c][1], Hex[c][2]>>
                            /\ Hex[c][1] \in {"0", "2", "3", "7"} /\ Hex[c][2] \in {"0", "2", "3", "A", "C"}
  <2> TAKE c \in DOMAIN Hex
  <2>1. PICK a \in {"0", "2", "3", "7"}, b \in {"0", "2", "3", "A", "C"} : Hex[c] = <<a, b>>
    BY <1>3
  <2>2. <<a, b>>[1] = a /\ <<a, b>>[2] = b
    OBVIOUS
  <2>3. Hex[c][1] = a /\ Hex[c][2] = b
    BY <2>1, <2>2
  <2> QED BY <2>1, <2>3
<1>5. \A c : /\ c = Mark => First(c) = "2" /\ Second(c) = "2"
             /\ c = "#" => First(c) = "2" /\ Second(c) = "3"
             /\ c = "\n" => First(c) = "0" /\ Second(c) = "A"
             /\ c = " " => First(c) = "2" /\ Second(c) = "0"
             /\ c = "," => First(c) = "2" /\ Second(c) = "C"
             /\ c = "2" => First(c) = "3" /\ Second(c) = "2"
             /\ c = "z" => First(c) = "7" /\ Second(c) = "A"
  <2> TAKE c
  <2>1. ASSUME c = Mark PROVE First(c) = "2" /\ Second(c) = "2"
    <3>1. Hex[c] = <<"2", "2">>
      BY <1>2, <2>1
    <3> QED BY <3>1, PairIs DEF First, Second
  <2>2. ASSUME c = "#" PROVE First(c) = "2" /\ Second(c) = "3"
    <3>1. Hex[c] = <<"2", "3">>
      BY <1>2, <2>2
    <3> QED BY <3>1, PairIs DEF First, Second
  <2>3. ASSUME c = "\n" PROVE First(c) = "0" /\ Second(c) = "A"
    <3>1. Hex[c] = <<"0", "A">>
      BY <1>2, <2>3
    <3> QED BY <3>1, PairIs DEF First, Second
  <2>4. ASSUME c = " " PROVE First(c) = "2" /\ Second(c) = "0"
    <3>1. Hex[c] = <<"2", "0">>
      BY <1>2, <2>4
    <3> QED BY <3>1, PairIs DEF First, Second
  <2>5. ASSUME c = "," PROVE First(c) = "2" /\ Second(c) = "C"
    <3>1. Hex[c] = <<"2", "C">>
      BY <1>2, <2>5
    <3> QED BY <3>1, PairIs DEF First, Second
  <2>6. ASSUME c = "2" PROVE First(c) = "3" /\ Second(c) = "2"
    <3>1. Hex[c] = <<"3", "2">>
      BY <1>2, <2>6
    <3> QED BY <3>1, PairIs DEF First, Second
  <2>7. ASSUME c = "z" PROVE First(c) = "7" /\ Second(c) = "A"
    <3>1. Hex[c] = <<"7", "A">>
      BY <1>2, <2>7
    <3> QED BY <3>1, PairIs DEF First, Second
  <2> QED BY <2>1, <2>2, <2>3, <2>4, <2>5, <2>6, <2>7
<1>6. \A c, d \in DOMAIN Hex : First(d) = First(c) /\ Second(d) = Second(c) => c = d
  <2> SUFFICES ASSUME NEW c \in DOMAIN Hex, NEW d \in DOMAIN Hex, First(d) = First(c), Second(d) = Second(c)
               PROVE  c = d
    OBVIOUS
  <2>1. /\ c = Mark => First(c) = "2" /\ Second(c) = "2"
        /\ c = "#" => First(c) = "2" /\ Second(c) = "3"
        /\ c = "\n" => First(c) = "0" /\ Second(c) = "A"
        /\ c = " " => First(c) = "2" /\ Second(c) = "0"
        /\ c = "," => First(c) = "2" /\ Second(c) = "C"
        /\ c = "2" => First(c) = "3" /\ Second(c) = "2"
        /\ c = "z" => First(c) = "7" /\ Second(c) = "A"
    BY <1>5
  <2>2. /\ d = Mark => First(d) = "2" /\ Second(d) = "2"
        /\ d = "#" => First(d) = "2" /\ Second(d) = "3"
        /\ d = "\n" => First(d) = "0" /\ Second(d) = "A"
        /\ d = " " => First(d) = "2" /\ Second(d) = "0"
        /\ d = "," => First(d) = "2" /\ Second(d) = "C"
        /\ d = "2" => First(d) = "3" /\ Second(d) = "2"
        /\ d = "z" => First(d) = "7" /\ Second(d) = "A"
    BY <1>5
  <2>3. /\ c = Mark \/ c = "#" \/ c = "\n" \/ c = " " \/ c = "," \/ c = "2" \/ c = "z"
        /\ d = Mark \/ d = "#" \/ d = "\n" \/ d = " " \/ d = "," \/ d = "2" \/ d = "z"
    BY <1>1
  <2>4. CASE c = Mark
    BY <2>1, <2>2, <2>3, <2>4 DEF Mark
  <2>5. CASE c = "#"
    BY <2>1, <2>2, <2>3, <2>5 DEF Mark
  <2>6. CASE c = "\n"
    BY <2>1, <2>2, <2>3, <2>6 DEF Mark
  <2>7. CASE c = " "
    BY <2>1, <2>2, <2>3, <2>7 DEF Mark
  <2>8. CASE c = ","
    BY <2>1, <2>2, <2>3, <2>8 DEF Mark
  <2>9. CASE c = "2"
    BY <2>1, <2>2, <2>3, <2>9 DEF Mark
  <2>10. CASE c = "z"
    BY <2>1, <2>2, <2>3, <2>10 DEF Mark
  <2> QED BY <2>3, <2>4, <2>5, <2>6, <2>7, <2>8, <2>9, <2>10
<1> QED BY <1>1, <1>4, <1>6, SymbolsAssumption DEF First, Second

\* How a symbol is written: itself, or # and two digits.
LEMMA CharMaps ==
    ASSUME NEW escaped, Escapes(escaped)
    PROVE  /\ Maps(Char(escaped), Symbols, Text)
           /\ \A c \in Symbols : Char(escaped)[c] \in Text
           /\ \A c \in escaped : c \in Symbols /\ c \in DOMAIN Hex /\ Char(escaped)[c] = <<"#", Hex[c][1], Hex[c][2]>>
           /\ \A c \in Symbols \ escaped : Char(escaped)[c] = <<c>>
<1>1. \A c \in escaped : c \in Symbols /\ c \in DOMAIN Hex /\ Char(escaped)[c] = <<"#", Hex[c][1], Hex[c][2]>>
  <2> TAKE c \in escaped
  <2>1. c \in Symbols /\ c \in DOMAIN Hex /\ Hex[c] = <<Hex[c][1], Hex[c][2]>>
    BY HexDigits DEF Escapes
  <2> DEFINE a == Hex[c][1]
             b == Hex[c][2]
  <2>2. Hex[c] = <<a, b>>
    BY <2>1
  <2> HIDE DEF a, b
  <2>3. <<"#">> \o <<a, b>> = <<"#", a, b>>
    BY Joined
  <2>4. Char(escaped)[c] = <<"#">> \o Hex[c]
    BY <2>1 DEF Char
  <2>5. Char(escaped)[c] = <<"#", a, b>>
    BY <2>2, <2>3, <2>4
  <2> QED BY <2>1, <2>5 DEF a, b
<1>2. \A c \in Symbols \ escaped : Char(escaped)[c] = <<c>>
  BY DEF Char
<1>3. \A c \in Symbols : Char(escaped)[c] \in Text
  <2> TAKE c \in Symbols
  <2>1. CASE c \in escaped
    <3>1. Hex[c][1] \in Symbols /\ Hex[c][2] \in Symbols /\ "#" \in Symbols
      <4>1. {"0", "2", "3", "7", "A", "C", "#"} \subseteq Symbols
        BY HexDigits, SymbolsAssumption
      <4> QED BY <2>1, <1>1, <4>1, HexDigits
    <3> DEFINE a == Hex[c][1]
               b == Hex[c][2]
    <3>2. Char(escaped)[c] = <<"#", a, b>> /\ a \in Symbols /\ b \in Symbols
      BY <1>1, <2>1, <3>1
    <3> HIDE DEF a, b
    <3>3. <<"#", a, b>> \in Seq(Symbols)
      BY <3>1, <3>2
    <3> QED BY <3>2, <3>3 DEF Text
  <2>2. CASE c \notin escaped
    <3>1. Char(escaped)[c] = <<c>>
      BY <1>2, <2>2
    <3>2. <<c>> \in Seq(Symbols)
      OBVIOUS
    <3> QED BY <3>1, <3>2 DEF Text
  <2> QED BY <2>1, <2>2
<1>4. Char(escaped) \in [Symbols -> Text]
  <2>1. Char(escaped) = [c \in Symbols |-> Char(escaped)[c]]
    BY DEF Char
  <2> HIDE DEF Char
  <2> QED BY <1>3, <2>1
<1> QED BY <1>1, <1>2, <1>3, <1>4 DEF Maps

\* Escaping a text with one symbol more.
LEMMA EncodedAppend ==
    ASSUME NEW escaped, Escapes(escaped), NEW s \in Text
    PROVE  /\ Encoded(s, escaped) \in Text
           /\ \A c \in Symbols : Encoded(Append(s, c), escaped) = Encoded(s, escaped) \o Char(escaped)[c]
  BY CharMaps, FlatMapAppend DEF Encoded, Text

\* A quoted text is its escaped form between marks (quote).
LEMMA QuotedIs ==
    ASSUME NEW escaped, NEW s \in Text
    PROVE  Quoted(s, escaped) = (<<Mark>> \o Encoded(s, escaped)) \o <<Mark>>
<1>1. \A i \in DOMAIN s : s[i] \in Symbols
  BY DEF Text
<1>2. [i \in DOMAIN s |-> IF s[i] \in escaped THEN <<"#">> \o Hex[s[i]] ELSE <<s[i]>>]
      = [i \in DOMAIN s |-> Char(escaped)[s[i]]]
  BY <1>1 DEF Char
<1> QED BY <1>2 DEF Quoted, Encoded, FlatMap

\* A sequence that starts with three symbols.
LEMMA PrefixOfThree ==
    ASSUME NEW S, NEW x \in S, NEW y \in S, NEW z \in S, NEW r \in Seq(S)
    PROVE  /\ IsPrefix(<<x, y, z>>, r) => r # <<>> /\ Head(r) = x
           /\ IsPrefix(<<x, y, z>>, r) => r[2] = y /\ r[3] = z
           /\ \A s \in Seq(S) : IsPrefix(<<x, y, z>>, <<x, y, z>> \o s)
<1> DEFINE p == <<x, y, z>>
<1>1. p \in Seq(S) /\ Len(p) = 3 /\ p[1] = x /\ p[2] = y /\ p[3] = z
  OBVIOUS
<1> HIDE DEF p
<1>2. SubSeq(p, 1, Len(p)) = p
  BY <1>1, SubSeqFull
<1>3. ASSUME IsPrefix(p, r) PROVE r # <<>> /\ Head(r) = x /\ r[2] = y /\ r[3] = z
  <2>1. 3 <= Len(r) /\ p = SubSeq(r, 1, 3)
    BY <1>1, <1>2, <1>3 DEF IsPrefix
  <2>2. Len(r) \in Nat /\ \A i \in 1..3 : r[i] \in S
    BY <2>1
  <2>3. \A i \in 1..3 : SubSeq(r, 1, 3)[i] = r[i]
    BY <2>2, SubSeqProperties
  <2>4. r[1] = x /\ r[2] = y /\ r[3] = z
    BY <1>1, <2>1, <2>3
  <2> QED BY <2>1, <2>4
<1>4. ASSUME NEW s \in Seq(S) PROVE IsPrefix(p, p \o s)
  <2>1. Len(p \o s) = Len(p) + Len(s) /\ Len(s) \in Nat
    BY <1>1, ConcatProperties, LenProperties
  <2>2. Len(p) <= Len(p \o s)
    BY <1>1, <2>1
  <2>3. SubSeq(p \o s, 1, Len(p)) = p
    BY <1>1, Prefix
  <2> QED BY <1>2, <2>2, <2>3 DEF IsPrefix
<1> QED BY <1>3, <1>4 DEF p

\* A turn of decode_quoted undoes the escaping of a symbol.
LEMMA DecodeOne ==
    ASSUME NEW escaped, Escapes(escaped), NEW c \in Symbols, NEW s \in Text, NEW acc \in Text
    PROVE  /\ Char(escaped)[c] \o s \in Text /\ Len(Char(escaped)[c] \o s) > Len(s)
           /\ Decode[[rest |-> Char(escaped)[c] \o s, text |-> acc]] = [rest |-> s, text |-> Append(acc, c)]
<1> DEFINE r == Char(escaped)[c] \o s
           named == {d \in DOMAIN Hex : IsPrefix(<<"#">> \o Hex[d], r)}
<1>1. Decode[[rest |-> r, text |-> acc]] =
          IF r = <<>> THEN [rest |-> r, text |-> acc]
          ELSE IF named # {}
          THEN [rest |-> SubSeq(r, 4, Len(r)), text |-> Append(acc, CHOOSE d \in named : TRUE)]
          ELSE [rest |-> Tail(r), text |-> Append(acc, Head(r))]
  <2>1. r \in Text
    BY CharMaps, ConcatProperties DEF Text
  <2> HIDE DEF r
  <2>2. [rest |-> r, text |-> acc] \in [rest : Text, text : Text]
    BY <2>1
  <2> QED BY <2>2 DEF Decode
<1>2. \A d \in DOMAIN Hex : <<"#">> \o Hex[d] = <<"#", Hex[d][1], Hex[d][2]>>
                            /\ "#" \in Symbols /\ Hex[d][1] \in Symbols /\ Hex[d][2] \in Symbols
  <2> TAKE d \in DOMAIN Hex
  <2>1. {"0", "2", "3", "7", "A", "C", "#"} \subseteq Symbols
    BY HexDigits, SymbolsAssumption
  <2>2. "#" \in Symbols /\ Hex[d][1] \in Symbols /\ Hex[d][2] \in Symbols
    BY <2>1, HexDigits
  <2>3. \A a, b : Hex[d] = <<a, b>> => <<"#">> \o Hex[d] = <<"#", a, b>>
    BY Joined
  <2>4. <<"#">> \o Hex[d] = <<"#", Hex[d][1], Hex[d][2]>>
    BY <2>3, HexDigits
  <2> QED BY <2>2, <2>4
<1>3. CASE c \in escaped
  <2> DEFINE a == Hex[c][1]
             b == Hex[c][2]
  <2>1. c \in DOMAIN Hex /\ Char(escaped)[c] = <<"#", a, b>> /\ a \in Symbols /\ b \in Symbols /\ "#" \in Symbols
    BY <1>2, <1>3, CharMaps
  <2>2. c \in named /\ \A d \in named : Hex[d][1] = a /\ Hex[d][2] = b
    <3>1. r = <<"#", a, b>> \o s
      BY <2>1
    <3>2. r \in Seq(Symbols)
      BY CharMaps, ConcatProperties DEF Text
    <3> HIDE DEF a, b, r
    <3>3. IsPrefix(<<"#", a, b>>, r)
      BY <2>1, <3>1, <3>2, PrefixOfThree DEF Text
    <3>4. c \in named
      BY <1>2, <2>1, <3>3 DEF a, b
    <3>5. r[2] = a /\ r[3] = b
      BY <2>1, <3>2, <3>3, PrefixOfThree
    <3>6. ASSUME NEW d \in named PROVE Hex[d][1] = a /\ Hex[d][2] = b
      <4> DEFINE x == Hex[d][1]
                 y == Hex[d][2]
      <4>1. d \in DOMAIN Hex /\ IsPrefix(<<"#", x, y>>, r) /\ x \in Symbols /\ y \in Symbols
        BY <1>2
      <4> HIDE DEF x, y
      <4>2. r[2] = x /\ r[3] = y
        BY <2>1, <3>2, <4>1, PrefixOfThree
      <4> QED BY <3>5, <4>2 DEF x, y
    <3> QED BY <3>4, <3>6
  <2>3. \A d \in named : d = c
    BY <2>1, <2>2, HexDigits
  <2>4. named # {} /\ (CHOOSE d \in named : TRUE) = c
    <3> HIDE DEF named
    <3> QED BY <2>2, <2>3
  <2>5. r \in Text /\ Len(r) = Len(s) + 3 /\ SubSeq(r, 4, Len(r)) = s
    <3> DEFINE p == <<"#", a, b>>
    <3>1. p \in Seq(Symbols) /\ Len(p) = 3
      <4> HIDE DEF a, b
      <4> QED BY <2>1
    <3>2. r = p \o s
      BY <2>1
    <3> HIDE DEF p, r
    <3>3. r \in Seq(Symbols) /\ Len(r) = Len(p) + Len(s)
      BY <3>1, <3>2, ConcatProperties DEF Text
    <3>4. SubSeq(r, Len(p) + 1, Len(r)) = s
      BY <3>1, <3>2, Suffix DEF Text
    <3>5. Len(s) \in Nat
      BY DEF Text
    <3> QED BY <3>1, <3>3, <3>4, <3>5 DEF Text
  <2>6. Len(s) \in Nat
    BY DEF Text
  <2>7. r # <<>>
    BY <2>5, <2>6
  <2> HIDE DEF r, named
  <2>8. Decode[[rest |-> r, text |-> acc]] = [rest |-> s, text |-> Append(acc, c)]
    BY <1>1, <2>4, <2>5, <2>7
  <2>9. r \in Text /\ Len(r) > Len(s)
    BY <2>5, <2>6
  <2> QED BY <2>8, <2>9 DEF r
<1>4. CASE c \notin escaped
  <2>1. r = <<c>> \o s /\ c # "#"
    BY <1>4, CharMaps DEF Escapes
  <2>2. r \in Text /\ r # <<>> /\ Len(r) = Len(s) + 1 /\ Head(r) = c /\ Tail(r) = s
    BY <2>1, ConsIs DEF Text
  <2> HIDE DEF r
  <2>3. named = {}
    <3> SUFFICES ASSUME NEW d \in named PROVE FALSE
      OBVIOUS
    <3> DEFINE x == Hex[d][1]
               y == Hex[d][2]
    <3>1. d \in DOMAIN Hex /\ IsPrefix(<<"#", x, y>>, r) /\ x \in Symbols /\ y \in Symbols /\ "#" \in Symbols
      BY <1>2
    <3> HIDE DEF x, y
    <3>2. Head(r) = "#"
      BY <2>2, <3>1, PrefixOfThree DEF Text
    <3> QED BY <2>1, <2>2, <3>2
  <2>4. Len(s) \in Nat
    BY DEF Text
  <2> HIDE DEF named
  <2>5. Decode[[rest |-> r, text |-> acc]] = [rest |-> s, text |-> Append(acc, c)]
    BY <1>1, <2>2, <2>3
  <2>6. r \in Text /\ Len(r) > Len(s)
    BY <2>2, <2>4
  <2> QED BY <2>5, <2>6 DEF r
<1> QED BY <1>3, <1>4

\* What is encoded is decoded, whatever follows it.
LEMMA DecodeLeads ==
    ASSUME NEW escaped, Escapes(escaped)
    PROVE  \A s \in Text : \A after \in Text :
             Leads(Decode, [rest |-> Encoded(s, escaped) \o after, text |-> <<>>], [rest |-> after, text |-> s])
<1> DEFINE At(r, t) == [rest |-> r, text |-> t]
           P == {s \in Text : \A after \in Text : Leads(Decode, At(Encoded(s, escaped) \o after, <<>>), At(after, s))}
<1>1. <<>> \in P
  <2>1. <<>> \in Text /\ Encoded(<<>>, escaped) = <<>>
    BY FlatMapEmpty DEF Encoded, Text
  <2>2. ASSUME NEW after \in Text PROVE Leads(Decode, At(Encoded(<<>>, escaped) \o after, <<>>), At(after, <<>>))
    <3>1. Encoded(<<>>, escaped) \o after = after /\ Len(after) \in Nat
      BY <2>1, ConcatEmptySeq DEF Text
    <3> DEFINE a == At(after, <<>>)
    <3>2. Len(a.rest) \in Nat
      BY <3>1
    <3> HIDE DEF a
    <3>3. Leads(Decode, a, a)
      BY <3>2, LeadsNowhere
    <3> QED BY <3>1, <3>3 DEF a
  <2> QED BY <2>1, <2>2
<1>2. ASSUME NEW s \in Text, NEW c \in Symbols, s \in P PROVE Append(s, c) \in P
  <2>1. Append(s, c) \in Text
    BY AppendProperties DEF Text
  <2>2. ASSUME NEW after \in Text
        PROVE  Leads(Decode, At(Encoded(Append(s, c), escaped) \o after, <<>>), At(after, Append(s, c)))
    <3> DEFINE x == Char(escaped)[c]
               e == Encoded(s, escaped)
               r == x \o after
               start == At(e \o r, <<>>)
               middle == At(r, s)
               end == At(after, Append(s, c))
    <3>1. e \in Text /\ x \in Text /\ Encoded(Append(s, c), escaped) = e \o x
      BY CharMaps, EncodedAppend
    <3>2. r \in Text /\ Len(r) > Len(after) /\ Decode[middle] = end
      BY DecodeOne
    <3>3. (e \o x) \o after = e \o r
      <4> HIDE DEF e, x
      <4> QED BY <3>1, ConcatAssociative DEF Text
    <3>4. Leads(Decode, start, middle)
      BY <1>2, <3>2
    <3>5. Len(start.rest) \in Nat /\ Len(middle.rest) \in Nat /\ Len(end.rest) \in Nat
          /\ Len(end.rest) < Len(middle.rest)
      <4>1. e \o r \in Text
        <5> HIDE DEF e, r
        <5> QED BY <3>1, <3>2, ConcatProperties DEF Text
      <4>2. Len(e \o r) \in Nat /\ Len(r) \in Nat /\ Len(after) \in Nat
        <5> HIDE DEF e, r
        <5> QED BY <3>2, <4>1, LenProperties DEF Text
      <4> QED BY <3>2, <4>2
    <3>6. Leads(Decode, middle, end)
      <4> HIDE DEF middle, end
      <4> QED BY <3>2, <3>5, LeadsOnce
    <3>7. Leads(Decode, start, end)
      <4> HIDE DEF start, middle, end
      <4> QED BY <3>4, <3>5, <3>6, LeadsOn
    <3> QED BY <3>1, <3>3, <3>7
  <2> QED BY <2>1, <2>2
<1>3. \A s \in Seq(Symbols) : s \in P
  <2> HIDE DEF P
  <2> QED BY <1>1, <1>2, SeqInduction DEF Text
<1> QED BY <1>3 DEF Text

\* decode_quoted undoes the encoding.
LEMMA Decoded ==
    ASSUME NEW escaped, Escapes(escaped), NEW s \in Text
    PROVE  decode_quoted(Encoded(s, escaped)) = s
<1> DEFINE start == [rest |-> Encoded(s, escaped), text |-> <<>>]
           end == [rest |-> <<>>, text |-> s]
<1>1. Encoded(s, escaped) \in Text /\ Encoded(s, escaped) \o <<>> = Encoded(s, escaped) /\ <<>> \in Text
  BY EncodedAppend, ConcatEmptySeq DEF Text
<1>2. Leads(Decode, start, end)
  <2>1. Leads(Decode, [rest |-> Encoded(s, escaped) \o <<>>, text |-> <<>>], end)
    BY <1>1, DecodeLeads
  <2> QED BY <1>1, <2>1
<1>3. Decode[end] = end
  BY <1>1 DEF Decode
<1>4. Len(start.rest) \in Nat /\ Len(end.rest) \in Nat
  BY <1>1, LenProperties DEF Text
<1>5. Loop(Decode, start) = end
  <2> HIDE DEF start, end
  <2> QED BY <1>2, <1>3, <1>4, LoopEnds
<1> QED BY <1>5 DEF decode_quoted

-----------------------------------------------------------------------------
(* One turn of the tokenizer.                                              *)

Free(s, x) == \A i \in 1..Len(s) : s[i] # x

\* Two texts are free of a symbol when each is.
LEMMA FreeConcat ==
    ASSUME NEW s \in Text, NEW t \in Text, NEW x
    PROVE  Free(s \o t, x) <=> Free(s, x) /\ Free(t, x)
<1>1. /\ Len(s) \in Nat /\ Len(t) \in Nat /\ Len(s \o t) = Len(s) + Len(t)
      /\ \A i \in 1..Len(s) : (s \o t)[i] = s[i]
      /\ \A i \in 1..Len(t) : (s \o t)[Len(s) + i] = t[i]
  BY LenProperties, ConcatProperties DEF Text
<1> DEFINE u == s \o t
<1> HIDE DEF u
<1>2. ASSUME Free(s, x), Free(t, x), NEW i \in 1..(Len(s) + Len(t)) PROVE (s \o t)[i] # x
  <2>1. CASE i <= Len(s)
    <3>1. i \in 1..Len(s)
      BY <1>1, <2>1
    <3> QED BY <1>1, <1>2, <3>1 DEF Free
  <2>2. CASE ~(i <= Len(s))
    <3>1. i - Len(s) \in 1..Len(t) /\ Len(s) + (i - Len(s)) = i
      BY <1>1, <2>2
    <3> QED BY <1>1, <1>2, <3>1 DEF Free
  <2> QED BY <2>1, <2>2
<1>3. ASSUME Free(s \o t, x) PROVE Free(s, x) /\ Free(t, x)
  <2>1. \A i \in 1..Len(s) : i \in 1..Len(s \o t)
    BY <1>1
  <2>2. \A i \in 1..Len(t) : Len(s) + i \in 1..Len(s \o t)
    BY <1>1
  <2> QED BY <1>1, <1>3, <2>1, <2>2 DEF Free
<1> QED BY <1>1, <1>2, <1>3 DEF Free

\* A symbol that is escaped is not in the escaped text.
LEMMA EncodedFree ==
    ASSUME NEW escaped, Escapes(escaped), NEW x \in escaped, x \notin {"#", "0", "2", "3", "7", "A", "C"}
    PROVE  \A s \in Text : Free(Encoded(s, escaped), x)
<1> DEFINE P == {s \in Text : Free(Encoded(s, escaped), x)}
<1>1. <<>> \in P
  <2>1. <<>> \in Text /\ Encoded(<<>>, escaped) = <<>>
    BY FlatMapEmpty DEF Encoded, Text
  <2>2. Free(<<>>, x)
    BY DEF Free
  <2> QED BY <2>1, <2>2
<1>2. ASSUME NEW s \in Text, NEW c \in Symbols, s \in P PROVE Append(s, c) \in P
  <2> DEFINE e == Encoded(s, escaped)
             y == Char(escaped)[c]
  <2>1. Append(s, c) \in Text
    BY AppendProperties DEF Text
  <2>2. e \in Text /\ y \in Text /\ Encoded(Append(s, c), escaped) = e \o y
    BY CharMaps, EncodedAppend
  <2>3. Free(y, x)
    <3>1. CASE c \in escaped
      <4> DEFINE a == Hex[c][1]
                 b == Hex[c][2]
      <4>1. y = <<"#", a, b>> /\ a # x /\ b # x /\ "#" # x
        BY <1>2, <3>1, CharMaps, HexDigits
      <4> HIDE DEF a, b, y
      <4>2. Len(y) = 3 /\ y[1] = "#" /\ y[2] = a /\ y[3] = b
        BY <4>1
      <4> QED BY <4>1, <4>2 DEF Free
    <3>2. CASE c \notin escaped
      <4>1. y = <<c>> /\ c # x
        BY <3>2, CharMaps
      <4> HIDE DEF y
      <4>2. Len(y) = 1 /\ y[1] = c
        BY <4>1
      <4> QED BY <4>1, <4>2 DEF Free
    <3> QED BY <3>1, <3>2
  <2>4. Free(e, x)
    BY <1>2
  <2>5. Free(e \o y, x)
    <3> HIDE DEF e, y
    <3> QED BY <2>2, <2>3, <2>4, FreeConcat
  <2> QED BY <2>1, <2>2, <2>5
<1>3. \A s \in Seq(Symbols) : s \in P
  <2> HIDE DEF P
  <2> QED BY <1>1, <1>2, SeqInduction DEF Text
<1> QED BY <1>3 DEF Text

\* The special symbols, at which a word ends.
LEMMA SpecialSymbols ==
    /\ Special = {" ", "\n", ",", Mark}
    /\ \A c : (c = Mark \/ c = "#" \/ c = " " \/ c = "," \/ c = "\n") => c \in Symbols
  BY HexDigits DEF Special, Whitespace

\* Both ways to escape cover the mark, # and the end of the line.
LEMMA Escaping ==
    /\ Escapes({Mark, "#", "\n"}) /\ Escapes(DOMAIN Hex) /\ "\n" \in {Mark, "#", "\n"} /\ "\n" \in DOMAIN Hex
    /\ Mark \notin {"#", "0", "2", "3", "7", "A", "C"} /\ "\n" \notin {"#", "0", "2", "3", "7", "A", "C"}
  BY HexDigits DEF Escapes, Mark

Put(c, s) == <<c>> \o s

\* A symbol before a text.
LEMMA PutIs ==
    ASSUME NEW c \in Symbols, NEW s \in Text
    PROVE  /\ Put(c, s) \in Text /\ Put(c, s) # <<>> /\ Len(Put(c, s)) = Len(s) + 1
           /\ Len(s) \in Nat /\ Len(Put(c, s)) \in Nat /\ Len(s) < Len(Put(c, s))
           /\ Head(Put(c, s)) = c /\ Put(c, s)[1] = c /\ Tail(Put(c, s)) = s
           /\ \A i \in 1..Len(s) : Put(c, s)[i + 1] = s[i]
           /\ SubSeq(Put(c, s), 2, Len(Put(c, s))) = s /\ SubSeq(Put(c, s), 1, 1) = <<c>>
<1> DEFINE p == <<c>>
<1>1. p \in Seq(Symbols) /\ Len(p) = 1
  OBVIOUS
<1> HIDE DEF p
<1>2. SubSeq(p \o s, Len(p) + 1, Len(p \o s)) = s /\ SubSeq(p \o s, 1, Len(p)) = p
  BY <1>1, Suffix, Prefix DEF Text
<1>3. SubSeq(p \o s, 2, Len(p \o s)) = s /\ SubSeq(p \o s, 1, 1) = p
  <2>1. Len(p) + 1 = 2
    BY <1>1
  <2> QED BY <1>1, <1>2, <2>1, Zenon
<1>4. Len(s) \in Nat
  BY LenProperties DEF Text
<1>5. <<c>> \o s \in Text /\ <<c>> \o s # <<>> /\ Len(<<c>> \o s) = Len(s) + 1
      /\ Head(<<c>> \o s) = c /\ (<<c>> \o s)[1] = c /\ Tail(<<c>> \o s) = s
      /\ \A i \in 1..Len(s) : (<<c>> \o s)[i + 1] = s[i]
  BY ConsIs DEF Text
<1>6. Len(s) < Len(s) + 1 /\ Len(s) + 1 \in Nat
  BY <1>4
<1> QED BY <1>3, <1>4, <1>5, <1>6 DEF p, Put

Scanned(r, t) == [rest |-> r, tokens |-> t]

\* A turn of the tokenizer, by the symbol it stands at.
LEMMA ScanIs ==
    ASSUME NEW r \in Text, r # <<>>, NEW t \in Seq(Token)
    PROVE  LET end == Find(r, 2, {Mark})
               stop == Find(r, 1, Special)
           IN
           /\ Head(r) = " " => Scan[Scanned(r, t)] = Scanned(Tail(r), t)
           /\ Head(r) = "," => Scan[Scanned(r, t)] = Scanned(Tail(r), Append(t, Comma))
           /\ Head(r) = Mark /\ end \in 1..Len(r) =>
                Scan[Scanned(r, t)] = Scanned(SubSeq(r, end + 1, Len(r)),
                                              Append(t, String(decode_quoted(SubSeq(r, 2, end - 1)))))
           /\ Head(r) \notin Special =>
                Scan[Scanned(r, t)] = Scanned(SubSeq(r, stop, Len(r)), Append(t, Word(SubSeq(r, 1, stop - 1))))
<1> DEFINE end == Find(r, 2, {Mark})
           stop == Find(r, 1, Special)
           s == Scanned(r, t)
<1>1. s \in [rest : Text, tokens : Seq(Token)] /\ s.rest = r /\ s.tokens = t
  BY DEF Scanned
<1> HIDE DEF s
<1>2. Scan[s] =
        IF Head(r) \in Whitespace THEN Scanned(Tail(r), t)
        ELSE IF Head(r) = "," THEN Scanned(Tail(r), Append(t, Comma))
        ELSE IF Head(r) = Mark THEN
            IF end > Len(r) THEN Scanned(<<>>, Raised)
            ELSE Scanned(SubSeq(r, end + 1, Len(r)), Append(t, String(decode_quoted(SubSeq(r, 2, end - 1)))))
        ELSE Scanned(SubSeq(r, stop, Len(r)), Append(t, Word(SubSeq(r, 1, stop - 1))))
  BY <1>1 DEF Scan, Scanned
<1>3. end \in 1..Len(r) => ~ (end > Len(r))
  <2> HIDE DEF end
  <2> QED BY LenProperties DEF Text
<1>4. Whitespace = {" ", "\n"} /\ "," \notin {" ", "\n"} /\ Mark \notin {" ", "\n"} /\ Mark # ","
  BY DEF Whitespace, Mark
<1> HIDE DEF end, stop
<1>5. Head(r) = " " => Scan[s] = Scanned(Tail(r), t)
  BY <1>2, <1>4
<1>6. Head(r) = "," => Scan[s] = Scanned(Tail(r), Append(t, Comma))
  BY <1>2, <1>4
<1>7. Head(r) = Mark /\ end \in 1..Len(r) =>
        Scan[s] = Scanned(SubSeq(r, end + 1, Len(r)), Append(t, String(decode_quoted(SubSeq(r, 2, end - 1)))))
  BY <1>2, <1>3, <1>4
<1>8. Head(r) \notin Special =>
        Scan[s] = Scanned(SubSeq(r, stop, Len(r)), Append(t, Word(SubSeq(r, 1, stop - 1))))
  BY <1>2 DEF Special
<1> QED BY <1>5, <1>6, <1>7, <1>8 DEF end, stop, s

\* White space is skipped.
LEMMA ScanAtSpace ==
    ASSUME NEW r \in Text, r # <<>>, NEW t \in Seq(Token), Head(r) = " "
    PROVE  Scan[Scanned(r, t)] = Scanned(Tail(r), t)
  BY ScanIs

\* A comma is a token.
LEMMA ScanAtComma ==
    ASSUME NEW r \in Text, r # <<>>, NEW t \in Seq(Token), Head(r) = ","
    PROVE  Scan[Scanned(r, t)] = Scanned(Tail(r), Append(t, Comma))
  BY ScanIs

\* A mark starts a string that the next mark ends.
LEMMA ScanAtMark ==
    ASSUME NEW r \in Text, r # <<>>, NEW t \in Seq(Token), Head(r) = Mark, NEW n \in 1..Len(r), n = Find(r, 2, {Mark})
    PROVE  Scan[Scanned(r, t)] = Scanned(SubSeq(r, n + 1, Len(r)),
                                         Append(t, String(decode_quoted(SubSeq(r, 2, n - 1)))))
  BY ScanIs

\* Anything else starts a word, which a special symbol ends.
LEMMA ScanAtWord ==
    ASSUME NEW r \in Text, r # <<>>, NEW t \in Seq(Token), Head(r) \notin Special, NEW n, n = Find(r, 1, Special)
    PROVE  Scan[Scanned(r, t)] = Scanned(SubSeq(r, n, Len(r)), Append(t, Word(SubSeq(r, 1, n - 1))))
  BY ScanIs

\* Tokens are tokens.
LEMMA Typed ==
    ASSUME NEW s \in Text
    PROVE  /\ <<s>> \in Seq(Text)
           /\ Word(s) \in Token /\ String(s) \in Token /\ Comma \in Token
           /\ <<Word(s)>> \in Seq(Token) /\ <<String(s)>> \in Seq(Token) /\ <<Comma>> \in Seq(Token)
<1>1. <<",">> \in Text
  <2> DEFINE c == ","
  <2>1. c \in Symbols
    BY SpecialSymbols
  <2> HIDE DEF c
  <2>2. <<c>> \in Seq(Symbols)
    BY <2>1
  <2> QED BY <2>2 DEF c, Text
<1>2. Word(s) \in Token /\ String(s) \in Token /\ Comma \in Token
  BY <1>1 DEF Word, String, Comma, Token
<1> QED BY <1>2

\* A turn that reads something leads on.
LEMMA ScanOnce ==
    ASSUME NEW r, NEW s, NEW t, NEW u, Len(r) \in Nat, Len(s) \in Nat, Len(s) < Len(r),
           Scan[Scanned(r, t)] = Scanned(s, u)
    PROVE  Leads(Scan, Scanned(r, t), Scanned(s, u))
<1> DEFINE a == Scanned(r, t)
           b == Scanned(s, u)
<1>1. a.rest = r /\ b.rest = s
  BY DEF Scanned
<1>2. Scan[a] = b
  OBVIOUS
<1> HIDE DEF a, b
<1>3. Leads(Scan, a, Scan[a])
  BY <1>1, <1>2, LeadsOnce
<1> QED BY <1>2, <1>3 DEF a, b

\* A space and a comma.
LEMMA ScanSpace ==
    ASSUME NEW s \in Text, NEW t \in Seq(Token)
    PROVE  Leads(Scan, Scanned(<<" ">> \o s, t), Scanned(s, t))
<1> DEFINE c == " "
           r == Put(c, s)
<1>1. c = " " /\ c \in Symbols
  BY SpecialSymbols
<1> HIDE DEF c
<1>2. r \in Text /\ r # <<>> /\ Len(s) \in Nat /\ Len(r) \in Nat /\ Len(s) < Len(r)
      /\ Head(r) = " " /\ Tail(r) = s
  BY <1>1, PutIs
<1> HIDE DEF r
<1>3. Scan[Scanned(r, t)] = Scanned(s, t)
  BY <1>2, ScanAtSpace
<1>4. Leads(Scan, Scanned(r, t), Scanned(s, t))
  <2>1. Len(r) \in Nat /\ Len(s) \in Nat /\ Len(s) < Len(r)
    BY <1>2
  <2> QED BY <1>3, <2>1, ScanOnce
<1> QED BY <1>4 DEF r, c, Put

\* A comma is read, whatever follows.
LEMMA ScanComma ==
    ASSUME NEW s \in Text, NEW t \in Seq(Token)
    PROVE  Leads(Scan, Scanned(<<",">> \o s, t), Scanned(s, Append(t, Comma)))
<1> DEFINE c == ","
           r == Put(c, s)
<1>1. c = "," /\ c \in Symbols
  BY SpecialSymbols
<1> HIDE DEF c
<1>2. r \in Text /\ r # <<>> /\ Len(s) \in Nat /\ Len(r) \in Nat /\ Len(s) < Len(r)
      /\ Head(r) = "," /\ Tail(r) = s
  BY <1>1, PutIs
<1> HIDE DEF r
<1>3. Scan[Scanned(r, t)] = Scanned(s, Append(t, Comma))
  BY <1>2, ScanAtComma
<1>4. Leads(Scan, Scanned(r, t), Scanned(s, Append(t, Comma)))
  <2>1. Len(r) \in Nat /\ Len(s) \in Nat /\ Len(s) < Len(r)
    BY <1>2
  <2> QED BY <1>3, <2>1, ScanOnce
<1> QED BY <1>4 DEF r, c, Put

\* A word, which ends at the space after it.
LEMMA ScanWord ==
    ASSUME NEW w \in Plain, NEW s \in Text, NEW t \in Seq(Token)
    PROVE  Leads(Scan, Scanned(<<w>> \o (<<" ">> \o s), t), Scanned(<<" ">> \o s, Append(t, Word(<<w>>))))
<1> DEFINE c == " "
           q == Put(c, s)
           r == Put(w, q)
<1>1. c \in Special /\ c \in Symbols /\ w \in Symbols /\ w \notin Special
  BY SpecialSymbols DEF Plain
<1> HIDE DEF c
<1>2. q \in Text /\ q # <<>> /\ Len(q) = Len(s) + 1 /\ q[1] = c /\ Len(s) \in Nat /\ Len(q) \in Nat
  BY <1>1, PutIs
<1> HIDE DEF q
<1>3. r \in Text /\ r # <<>> /\ Len(r) = Len(q) + 1 /\ Len(r) \in Nat /\ Head(r) = w /\ r[1] = w
      /\ (\A i \in 1..Len(q) : r[i + 1] = q[i])
      /\ SubSeq(r, 2, Len(r)) = q /\ SubSeq(r, 1, 1) = <<w>>
  BY <1>1, <1>2, PutIs
<1> HIDE DEF r
<1>4. r[2] = c
  <2>1. 1 \in 1..Len(q) /\ 1 + 1 = 2
    BY <1>2
  <2> QED BY <1>2, <1>3, <2>1
<1>5. Find(r, 1, Special) = 2
  <2>1. 2 \in 1..Len(r)
    BY <1>2, <1>3
  <2>2. r[2] \in Special /\ \A k \in 1..(2 - 1) : r[k] \notin Special
    BY <1>1, <1>3, <1>4
  <2> QED BY <1>3, <2>1, <2>2, FindFirst
<1>6. Scan[Scanned(r, t)] = Scanned(q, Append(t, Word(<<w>>)))
  <2>1. Head(r) \notin Special
    BY <1>1, <1>3
  <2>2. Scan[Scanned(r, t)] = Scanned(SubSeq(r, 2, Len(r)), Append(t, Word(SubSeq(r, 1, 2 - 1))))
    BY <1>3, <1>5, <2>1, ScanAtWord
  <2>3. 2 - 1 = 1
    OBVIOUS
  <2> QED BY <1>3, <2>2, <2>3
<1>7. Leads(Scan, Scanned(r, t), Scanned(q, Append(t, Word(<<w>>))))
  BY <1>2, <1>3, <1>6, ScanOnce
<1> QED BY <1>7 DEF r, q, c, Put

\* A quoted text, whatever follows it.
LEMMA ScanQuoted ==
    ASSUME NEW escaped, Escapes(escaped), NEW x \in Text, NEW s \in Text, NEW t \in Seq(Token)
    PROVE  /\ Quoted(x, escaped) \in Text
           /\ Leads(Scan, Scanned(Quoted(x, escaped) \o s, t), Scanned(s, Append(t, String(x))))
<1> DEFINE e == Encoded(x, escaped)
           m == <<Mark>>
           p == m \o e
           q == p \o m
           r == q \o s
<1>1. e \in Text /\ Free(e, Mark) /\ m \in Text /\ Len(m) = 1 /\ m[1] = Mark /\ Mark \in Symbols
  <2>1. e \in Text
    BY EncodedAppend
  <2>2. Mark \in Symbols /\ Mark \in escaped
    BY SpecialSymbols DEF Escapes
  <2>3. Free(e, Mark)
    BY <2>2, Escaping, EncodedFree
  <2>4. m \in Seq(Symbols) /\ Len(m) = 1 /\ m[1] = Mark
    BY <2>2
  <2> QED BY <2>1, <2>2, <2>3, <2>4 DEF Text
<1>2. q = Quoted(x, escaped)
  BY QuotedIs
<1>3. decode_quoted(e) = x
  BY Decoded
<1> HIDE DEF e, m
<1>4. p \in Text /\ Len(p) = Len(e) + 1 /\ p[1] = Mark /\ Len(e) \in Nat /\ \A i \in 1..Len(e) : p[i + 1] = e[i]
  <2>1. p \in Text /\ Len(p) = Len(m) + Len(e) /\ Len(e) \in Nat
        /\ \A i \in 1..(Len(m) + Len(e)) : p[i] = IF i <= Len(m) THEN m[i] ELSE e[i - Len(m)]
    BY <1>1, ConcatProperties, LenProperties DEF Text
  <2> HIDE DEF p
  <2> QED BY <1>1, <2>1
<1>5. SubSeq(p, 2, Len(p)) = e
  <2>1. SubSeq(m \o e, Len(m) + 1, Len(m \o e)) = e
    BY <1>1, Suffix DEF Text
  <2> QED BY <1>1, <2>1
<1> HIDE DEF p
<1>6. q \in Text /\ Len(q) = Len(e) + 2 /\ q[Len(e) + 2] = Mark /\ \A i \in 1..(Len(e) + 1) : q[i] = p[i]
  <2>1. q \in Text /\ Len(q) = Len(p) + Len(m)
        /\ \A i \in 1..(Len(p) + Len(m)) : q[i] = IF i <= Len(p) THEN p[i] ELSE m[i - Len(p)]
    BY <1>1, <1>4, ConcatProperties DEF Text
  <2> HIDE DEF q
  <2> QED BY <1>1, <1>4, <2>1
<1> HIDE DEF q
<1>7. r \in Text /\ Len(r) = Len(e) + 2 + Len(s) /\ Len(s) \in Nat /\ \A i \in 1..(Len(e) + 2) : r[i] = q[i]
  <2>1. r \in Text /\ Len(r) = Len(q) + Len(s) /\ Len(s) \in Nat
        /\ \A i \in 1..(Len(q) + Len(s)) : r[i] = IF i <= Len(q) THEN q[i] ELSE s[i - Len(q)]
    BY <1>6, ConcatProperties, LenProperties DEF Text
  <2> HIDE DEF r
  <2> QED BY <1>4, <1>6, <2>1
<1>8. SubSeq(r, Len(e) + 3, Len(r)) = s
  <2>1. SubSeq(q \o s, Len(q) + 1, Len(q \o s)) = s
    BY <1>6, Suffix DEF Text
  <2>2. Len(q) + 1 = Len(e) + 3
    BY <1>4, <1>6
  <2> QED BY <2>1, <2>2
<1> HIDE DEF r
<1>9. r[1] = Mark /\ r[Len(e) + 2] = Mark /\ \A i \in 1..Len(e) : r[i + 1] = e[i]
  <2>1. 1 \in 1..(Len(e) + 1) /\ 1 \in 1..(Len(e) + 2) /\ Len(e) + 2 \in 1..(Len(e) + 2)
        /\ \A i \in 1..Len(e) : i + 1 \in 1..(Len(e) + 1) /\ i + 1 \in 1..(Len(e) + 2)
    BY <1>4
  <2> QED BY <1>4, <1>6, <1>7, <2>1
<1>10. SubSeq(r, 2, Len(e) + 1) = e
  <2>1. \A i \in 2..(Len(e) + 1) : r[i] \in Symbols
    BY <1>4, <1>7 DEF Text
  <2>2. /\ SubSeq(r, 2, Len(e) + 1) \in Seq(Symbols)
        /\ Len(SubSeq(r, 2, Len(e) + 1)) = Len(e)
        /\ \A i \in 1..Len(e) : SubSeq(r, 2, Len(e) + 1)[i] = r[i + 1]
    BY <1>4, <2>1, SubSeqProperties
  <2> QED BY <1>1, <1>9, <2>2, SeqEqual DEF Text
<1>11. Find(r, 2, {Mark}) = Len(e) + 2
  <2>1. \A k \in 2..((Len(e) + 2) - 1) : r[k] \notin {Mark}
    <3> TAKE k \in 2..((Len(e) + 2) - 1)
    <3>1. k - 1 \in 1..Len(e) /\ (k - 1) + 1 = k
      BY <1>4
    <3> QED BY <1>1, <1>9, <3>1 DEF Free
  <2>2. Len(e) + 2 \in 2..Len(r)
    BY <1>4, <1>7
  <2>3. r[Len(e) + 2] \in {Mark}
    BY <1>9
  <2> QED BY <1>7, <2>1, <2>2, <2>3, FindFirst
<1>12. Scan[Scanned(r, t)] = Scanned(s, Append(t, String(x)))
  <2>1. r # <<>> /\ Head(r) = Mark /\ Len(e) + 2 \in 1..Len(r)
    BY <1>4, <1>7, <1>9
  <2>2. (Len(e) + 2) + 1 = Len(e) + 3 /\ (Len(e) + 2) - 1 = Len(e) + 1
    BY <1>4
  <2> DEFINE n == Len(e) + 2
  <2>3. n = Find(r, 2, {Mark}) /\ n \in 1..Len(r) /\ n + 1 = Len(e) + 3 /\ n - 1 = Len(e) + 1
    BY <1>11, <2>1, <2>2
  <2> HIDE DEF n
  <2>4. Scan[Scanned(r, t)] = Scanned(SubSeq(r, n + 1, Len(r)), Append(t, String(decode_quoted(SubSeq(r, 2, n - 1)))))
    BY <1>7, <2>1, <2>3, ScanAtMark
  <2> QED BY <1>3, <1>8, <1>10, <2>3, <2>4
<1>13. Leads(Scan, Scanned(r, t), Scanned(s, Append(t, String(x))))
  <2>1. Len(r) \in Nat /\ Len(s) \in Nat /\ Len(s) < Len(r)
    BY <1>4, <1>7
  <2> QED BY <1>12, <2>1, ScanOnce
<1> QED BY <1>2, <1>6, <1>13 DEF r

-----------------------------------------------------------------------------
(* What the tokenizer reads from a text, whatever stands around it.        *)

\* The tokenizer reads tokens k from text p, whatever follows p.
Reads(p, k) ==
    /\ p \in Text /\ k \in Seq(Token)
    /\ \A s \in Text, t \in Seq(Token) : Leads(Scan, Scanned(p \o s, t), Scanned(s, t \o k))

\* What is read of two texts is what is read of each.
LEMMA ReadsOn ==
    ASSUME NEW p, NEW q, NEW k, NEW l, Reads(p, k), Reads(q, l)
    PROVE  Reads(p \o q, k \o l)
<1>1. p \in Text /\ q \in Text /\ k \in Seq(Token) /\ l \in Seq(Token)
  BY DEF Reads
<1>2. p \o q \in Text /\ k \o l \in Seq(Token)
  BY <1>1, ConcatProperties DEF Text
<1>3. ASSUME NEW s \in Text, NEW t \in Seq(Token)
      PROVE  Leads(Scan, Scanned((p \o q) \o s, t), Scanned(s, t \o (k \o l)))
  <2> DEFINE r == q \o s
             u == t \o k
             a == Scanned(p \o r, t)
             b == Scanned(r, u)
             c == Scanned(s, u \o l)
  <2>1. r \in Text /\ u \in Seq(Token)
    BY <1>1, ConcatProperties DEF Text
  <2>2. Leads(Scan, b, c)
    <3> HIDE DEF u
    <3> QED BY <2>1 DEF Reads
  <2>3. Leads(Scan, a, b)
    <3> HIDE DEF r
    <3> QED BY <2>1 DEF Reads
  <2>4. a.rest = p \o r /\ b.rest = r /\ c.rest = s
    BY DEF Scanned
  <2>5. Len(p \o r) \in Nat /\ Len(r) \in Nat /\ Len(s) \in Nat
    <3>1. p \o r \in Text
      <4> HIDE DEF r
      <4> QED BY <1>1, <2>1, ConcatProperties DEF Text
    <3> HIDE DEF r
    <3> QED BY <2>1, <3>1, LenProperties DEF Text
  <2>6. Leads(Scan, a, c)
    <3>1. Len(a.rest) \in Nat /\ Len(b.rest) \in Nat /\ Len(c.rest) \in Nat
      BY <2>4, <2>5
    <3> HIDE DEF a, b, c
    <3> QED BY <2>2, <2>3, <3>1, LeadsOn
  <2>7. (p \o q) \o s = p \o r /\ t \o (k \o l) = u \o l
    <3>1. (p \o q) \o s = p \o (q \o s)
      BY <1>1, ConcatAssociative DEF Text
    <3>2. (t \o k) \o l = t \o (k \o l)
      BY <1>1, ConcatAssociative
    <3> QED BY <3>1, <3>2
  <2> QED BY <2>6, <2>7
<1> QED BY <1>2, <1>3 DEF Reads

\* Nothing is read of nothing.
LEMMA ReadsNothing == Reads(<<>>, <<>>)
<1>1. <<>> \in Text /\ <<>> \in Seq(Token)
  BY DEF Text
<1>2. ASSUME NEW s \in Text, NEW t \in Seq(Token) PROVE Leads(Scan, Scanned(<<>> \o s, t), Scanned(s, t \o <<>>))
  <2> DEFINE a == Scanned(s, t)
  <2>1. <<>> \o s = s /\ t \o <<>> = t
    BY ConcatEmptySeq DEF Text
  <2>2. Len(a.rest) \in Nat
    BY LenProperties DEF Scanned, Text
  <2> HIDE DEF a
  <2>3. Leads(Scan, a, a)
    BY <2>2, LeadsNowhere
  <2> QED BY <2>1, <2>3 DEF a
<1> QED BY <1>1, <1>2 DEF Reads

\* Nothing is read of a space.
LEMMA ReadsSpace == Reads(<<" ">>, <<>>)
<1>1. <<" ">> \in Text /\ <<>> \in Seq(Token)
  <2> DEFINE c == " "
  <2>1. c \in Symbols
    BY SpecialSymbols
  <2> HIDE DEF c
  <2>2. <<c>> \in Text
    BY <2>1 DEF Text
  <2>3. <<>> \in Seq(Token)
    OBVIOUS
  <2> QED BY <2>2, <2>3 DEF c
<1>2. ASSUME NEW s \in Text, NEW t \in Seq(Token) PROVE Leads(Scan, Scanned(<<" ">> \o s, t), Scanned(s, t \o <<>>))
  <2>1. t \o <<>> = t
    BY ConcatEmptySeq
  <2> QED BY <2>1, ScanSpace
<1> QED BY <1>1, <1>2 DEF Reads

\* A comma is read of a comma.
LEMMA ReadsComma == Reads(<<",">>, <<Comma>>)
<1>1. <<",">> \in Text /\ Comma \in Token /\ <<Comma>> \in Seq(Token)
  <2>1. <<>> \in Text
    BY DEF Text
  <2>2. Comma \in Token /\ <<Comma>> \in Seq(Token)
    BY <2>1, Typed
  <2>3. Comma.value = <<",">>
    BY DEF Comma
  <2> QED BY <2>2, <2>3 DEF Token
<1>2. ASSUME NEW s \in Text, NEW t \in Seq(Token)
      PROVE Leads(Scan, Scanned(<<",">> \o s, t), Scanned(s, t \o <<Comma>>))
  <2>1. t \o <<Comma>> = Append(t, Comma)
    BY <1>1, AppendIsConcat
  <2> QED BY <2>1, ScanComma
<1> QED BY <1>1, <1>2 DEF Reads

\* A text is read of its quoted form, whatever it has in it.
LEMMA ReadsQuoted ==
    ASSUME NEW escaped, Escapes(escaped), NEW x \in Text
    PROVE  Reads(Quoted(x, escaped), <<String(x)>>)
<1>1. Quoted(x, escaped) \in Text /\ String(x) \in Token /\ <<String(x)>> \in Seq(Token)
  <2>1. <<>> \in Text /\ <<>> \in Seq(Token)
    BY DEF Text
  <2> QED BY <2>1, ScanQuoted, Typed
<1>2. ASSUME NEW s \in Text, NEW t \in Seq(Token)
      PROVE  Leads(Scan, Scanned(Quoted(x, escaped) \o s, t), Scanned(s, t \o <<String(x)>>))
  <2>1. t \o <<String(x)>> = Append(t, String(x))
    BY <1>1, AppendIsConcat
  <2> QED BY <2>1, ScanQuoted
<1> QED BY <1>1, <1>2 DEF Reads

\* A word is read of a symbol that is not special, and a space.
LEMMA ReadsWord ==
    ASSUME NEW w \in Plain
    PROVE  Reads(<<w>> \o <<" ">>, <<Word(<<w>>)>>)
<1> DEFINE x == <<w>>
           y == <<" ">>
           k == Word(x)
<1>1. x \in Text /\ y \in Text /\ k \in Token /\ <<k>> \in Seq(Token) /\ x \o y \in Text
  <2>1. x \in Text
    BY DEF Plain, Text
  <2>2. y \in Text
    BY ReadsSpace DEF Reads
  <2> HIDE DEF x, y
  <2>3. k \in Token /\ <<k>> \in Seq(Token) /\ x \o y \in Text
    BY <2>1, <2>2, Typed, ConcatProperties DEF Text
  <2> QED BY <2>1, <2>2, <2>3
<1>2. ASSUME NEW s \in Text, NEW t \in Seq(Token) PROVE Leads(Scan, Scanned((x \o y) \o s, t), Scanned(s, t \o <<k>>))
  <2>1. (x \o y) \o s = x \o (y \o s)
    <3> HIDE DEF x, y
    <3> QED BY <1>1, ConcatAssociative DEF Text
  <2> DEFINE u == Append(t, k)
             a == Scanned(x \o (y \o s), t)
             b == Scanned(y \o s, u)
             c == Scanned(s, u)
  <2>2. Leads(Scan, a, b)
    BY ScanWord
  <2>3. u \in Seq(Token) /\ u = t \o <<k>>
    <3> HIDE DEF k
    <3> QED BY <1>1, AppendProperties, AppendIsConcat
  <2>4. Leads(Scan, b, c)
    <3> HIDE DEF u
    <3> QED BY <2>3, ScanSpace
  <2>5. Len(a.rest) \in Nat /\ Len(b.rest) \in Nat /\ Len(c.rest) \in Nat
    <3>1. a.rest = x \o (y \o s) /\ b.rest = y \o s /\ c.rest = s
      BY DEF Scanned
    <3> HIDE DEF a, b, c, x, y
    <3>2. y \o s \in Text
      BY <1>1, ConcatProperties DEF Text
    <3>3. x \o (y \o s) \in Text
      BY <1>1, <3>2, ConcatProperties DEF Text
    <3> QED BY <3>1, <3>2, <3>3, LenProperties DEF Text
  <2>6. Leads(Scan, a, c)
    <3> HIDE DEF a, b, c
    <3> QED BY <2>2, <2>4, <2>5, LeadsOn
  <2> QED BY <2>1, <2>3, <2>6
<1> QED BY <1>1, <1>2 DEF Reads

\* What the tokenizer reads from a text is its result.
LEMMA Tokenized == ASSUME NEW p, NEW k, Reads(p, k) PROVE tokenize(p) = k
<1> DEFINE a == Scanned(p, <<>>)
           b == Scanned(<<>>, k)
<1>1. p \in Text /\ k \in Seq(Token) /\ <<>> \in Text /\ <<>> \in Seq(Token)
  BY DEF Reads, Text
<1>2. p \o <<>> = p /\ <<>> \o k = k
  BY <1>1, ConcatEmptySeq DEF Text
<1>3. Leads(Scan, a, b)
  <2>1. Leads(Scan, Scanned(p \o <<>>, <<>>), Scanned(<<>>, <<>> \o k))
    BY <1>1 DEF Reads
  <2> QED BY <1>2, <2>1
<1>4. Scan[b] = b
  BY <1>1 DEF Scan, Scanned
<1>5. Len(a.rest) \in Nat /\ Len(b.rest) \in Nat
  BY <1>1, LenProperties DEF Scanned, Text
<1>6. Loop(Scan, a) = b
  <2> HIDE DEF a, b
  <2> QED BY <1>3, <1>4, <1>5, LoopEnds
<1> QED BY <1>6 DEF tokenize, Scanned

Spaced == [p \in Text |-> p \o <<" ">>]

\* A line is a flat map of its pieces.
LEMMA LineIs ==
    /\ Maps(Spaced, Text, Text)
    /\ \A p \in Text : Spaced[p] = p \o <<" ">>
    /\ \A ps \in Seq(Text) : Line(ps) = FlatMap(Spaced, ps)
<1>1. \A p \in Text : Spaced[p] = p \o <<" ">>
  BY DEF Spaced
<1>2. Spaced \in [Text -> Text]
  <2>1. \A p \in Text : p \o <<" ">> \in Text
    BY ReadsSpace, ConcatProperties DEF Reads, Text
  <2> QED BY <2>1 DEF Spaced
<1>3. ASSUME NEW ps \in Seq(Text) PROVE Line(ps) = FlatMap(Spaced, ps)
  <2>1. \A i \in DOMAIN ps : ps[i] \in Text
    OBVIOUS
  <2>2. [i \in DOMAIN ps |-> ps[i] \o <<" ">>] = [i \in DOMAIN ps |-> Spaced[ps[i]]]
    BY <1>1, <2>1
  <2> QED BY <2>2 DEF Line, FlatMap
<1> QED BY <1>1, <1>2, <1>3 DEF Maps

\* A piece of a line, with the space after it, has the one token t.
Piece(p, t) == p \in Text /\ Reads(p \o <<" ">>, <<t>>)

\* A line of no pieces.
LEMMA LineEmpty == Line(<<>>) = <<>>
<1>1. <<>> \in Seq(Text)
  OBVIOUS
<1> QED BY <1>1, LineIs, FlatMapEmpty

\* A line of pieces and then others.
LEMMA LineConcat ==
    ASSUME NEW ps \in Seq(Text), NEW qs \in Seq(Text)
    PROVE  Line(ps \o qs) = Line(ps) \o Line(qs)
<1>1. ps \o qs \in Seq(Text)
  BY ConcatProperties
<1>2. FlatMap(Spaced, ps \o qs) = FlatMap(Spaced, ps) \o FlatMap(Spaced, qs)
  <2>1. Maps(Spaced, Text, Seq(Symbols))
    <3>1. Text = Seq(Symbols)
      BY DEF Text
    <3> QED BY <3>1, LineIs
  <2> QED BY <2>1, FlatMapConcat
<1> QED BY <1>1, <1>2, LineIs

\* A line of one piece.
LEMMA LineOne ==
    ASSUME NEW p \in Text
    PROVE  Line(<<p>>) = p \o <<" ">>
<1>1. <<p>> \in Seq(Text)
  OBVIOUS
<1>2. FlatMap(Spaced, <<p>>) = Spaced[p]
  BY LineIs, FlatMapOne DEF Text
<1> QED BY <1>1, <1>2, LineIs

\* A line of one piece more.
LEMMA LineAppend ==
    ASSUME NEW ps \in Seq(Text), NEW p \in Text
    PROVE  Line(Append(ps, p)) = Line(ps) \o (p \o <<" ">>)
<1>1. <<p>> \in Seq(Text) /\ Append(ps, p) = ps \o <<p>>
  BY AppendIsConcat
<1> QED BY <1>1, LineConcat, LineOne

\* The pieces of a line have one token each.
Matches(ps, ts) ==
    /\ ps \in Seq(Text) /\ ts \in Seq(Token) /\ Len(ps) = Len(ts)
    /\ \A i \in 1..Len(ps) : Piece(ps[i], ts[i])

\* A line is read as the tokens of its pieces.
LEMMA LineReads ==
    \A ps \in Seq(Text) : \A ts : Matches(ps, ts) => Reads(Line(ps), ts)
<1> DEFINE P == {ps \in Seq(Text) : \A ts : Matches(ps, ts) => Reads(Line(ps), ts)}
<1>1. <<>> \in P
  <2>1. <<>> \in Seq(Text)
    OBVIOUS
  <2>2. ASSUME NEW ts, Matches(<<>>, ts) PROVE ts = <<>>
    BY <2>2 DEF Matches
  <2>3. Reads(Line(<<>>), <<>>)
    BY LineEmpty, ReadsNothing
  <2> QED BY <2>1, <2>2, <2>3
<1>2. ASSUME NEW ps \in Seq(Text), NEW p \in Text, ps \in P PROVE Append(ps, p) \in P
  <2> DEFINE qs == Append(ps, p)
             n == Len(ps)
  <2>1. qs \in Seq(Text) /\ Len(qs) = n + 1 /\ qs[n + 1] = p /\ n \in Nat /\ \A i \in 1..n : qs[i] = ps[i]
    BY AppendProperties, LenProperties
  <2> HIDE DEF qs, n
  <2>2. ASSUME NEW ts, Matches(qs, ts) PROVE Reads(Line(qs), ts)
    <3>1. ts \in Seq(Token) /\ Len(ts) = n + 1 /\ \A i \in 1..(n + 1) : Piece(qs[i], ts[i])
      BY <2>1, <2>2 DEF Matches
    <3>2. ts # <<>>
      BY <2>1, <3>1
    <3>3. PICK us \in Seq(Token), u \in Token : ts = Append(us, u) /\ Len(ts) = Len(us) + 1
      BY <3>1, <3>2, LastOne
    <3>4. Len(us) = n /\ ts[n + 1] = u /\ \A i \in 1..n : ts[i] = us[i]
      <4>1. Len(us) \in Nat /\ ts[Len(us) + 1] = u /\ \A i \in 1..Len(us) : ts[i] = us[i]
        BY <3>3, AppendProperties, LenProperties
      <4>2. Len(us) = n
        BY <2>1, <3>1, <3>3, <4>1
      <4> QED BY <4>1, <4>2
    <3>5. \A i \in 1..n : i \in 1..(n + 1)
      BY <2>1
    <3>6. n + 1 \in 1..(n + 1)
      BY <2>1
    <3>7. \A i \in 1..n : Piece(ps[i], us[i])
      BY <2>1, <3>1, <3>4, <3>5
    <3>8. Piece(p, u)
      BY <2>1, <3>1, <3>4, <3>6
    <3>9. Matches(ps, us)
      <4>1. Len(ps) = n
        BY DEF n
      <4> QED BY <3>4, <3>7, <4>1 DEF Matches
    <3>10. Reads(Line(ps), us)
      BY <1>2, <3>9
    <3>11. Reads(Line(ps) \o (p \o <<" ">>), us \o <<u>>)
      BY <3>8, <3>10, ReadsOn DEF Piece
    <3>12. Line(qs) = Line(ps) \o (p \o <<" ">>)
      BY LineAppend DEF qs
    <3>13. ts = us \o <<u>>
      BY <3>3, AppendIsConcat
    <3> QED BY <3>11, <3>12, <3>13
  <2> QED BY <2>1, <2>2 DEF qs
<1>3. \A s \in Seq(Text) : s \in P
  <2> HIDE DEF P
  <2> QED BY <1>1, <1>2, SeqInduction
<1> QED BY <1>3

\* One piece and its token.
LEMMA MatchesOne ==
    ASSUME NEW p1, NEW t1 \in Token, Piece(p1, t1)
    PROVE  Matches(<<p1>>, <<t1>>)
<1> DEFINE ps == <<p1>>
           ts == <<t1>>
<1>1. p1 \in Text
  BY DEF Piece
<1>2. ps \in Seq(Text) /\ ts \in Seq(Token) /\ Len(ps) = 1 /\ Len(ts) = 1
  BY <1>1
<1>3. /\ ps[1] = p1
      /\ ts[1] = t1
  OBVIOUS
<1> HIDE DEF ps, ts
<1>4. \A i \in 1..1 : Piece(ps[i], ts[i])
  BY <1>3
<1>5. Matches(ps, ts)
  BY <1>2, <1>4 DEF Matches
<1> QED BY <1>5 DEF ps, ts

\* Two pieces and their tokens.
LEMMA MatchesTwo ==
    ASSUME NEW p1, NEW t1 \in Token, Piece(p1, t1), NEW p2, NEW t2 \in Token, Piece(p2, t2)
    PROVE  Matches(<<p1, p2>>, <<t1, t2>>)
<1> DEFINE ps == <<p1, p2>>
           ts == <<t1, t2>>
<1>1. p1 \in Text /\ p2 \in Text
  BY DEF Piece
<1>2. ps \in Seq(Text) /\ ts \in Seq(Token) /\ Len(ps) = 2 /\ Len(ts) = 2
  BY <1>1
<1>3. /\ ps[1] = p1 /\ ps[2] = p2
      /\ ts[1] = t1 /\ ts[2] = t2
  OBVIOUS
<1> HIDE DEF ps, ts
<1>4. \A i \in 1..2 : Piece(ps[i], ts[i])
  BY <1>3
<1>5. Matches(ps, ts)
  BY <1>2, <1>4 DEF Matches
<1> QED BY <1>5 DEF ps, ts

\* Three pieces and their tokens.
LEMMA MatchesThree ==
    ASSUME NEW p1, NEW t1 \in Token, Piece(p1, t1), NEW p2, NEW t2 \in Token, Piece(p2, t2),
           NEW p3, NEW t3 \in Token, Piece(p3, t3)
    PROVE  Matches(<<p1, p2, p3>>, <<t1, t2, t3>>)
<1> DEFINE ps == <<p1, p2, p3>>
           ts == <<t1, t2, t3>>
<1>1. p1 \in Text /\ p2 \in Text /\ p3 \in Text
  BY DEF Piece
<1>2. ps \in Seq(Text) /\ ts \in Seq(Token) /\ Len(ps) = 3 /\ Len(ts) = 3
  BY <1>1
<1>3. /\ ps[1] = p1 /\ ps[2] = p2 /\ ps[3] = p3
      /\ ts[1] = t1 /\ ts[2] = t2 /\ ts[3] = t3
  OBVIOUS
<1> HIDE DEF ps, ts
<1>4. \A i \in 1..3 : Piece(ps[i], ts[i])
  BY <1>3
<1>5. Matches(ps, ts)
  BY <1>2, <1>4 DEF Matches
<1> QED BY <1>5 DEF ps, ts

\* Four pieces and their tokens.
LEMMA MatchesFour ==
    ASSUME NEW p1, NEW t1 \in Token, Piece(p1, t1), NEW p2, NEW t2 \in Token, Piece(p2, t2),
           NEW p3, NEW t3 \in Token, Piece(p3, t3), NEW p4, NEW t4 \in Token, Piece(p4, t4)
    PROVE  Matches(<<p1, p2, p3, p4>>, <<t1, t2, t3, t4>>)
<1> DEFINE ps == <<p1, p2, p3, p4>>
           ts == <<t1, t2, t3, t4>>
<1>1. p1 \in Text /\ p2 \in Text /\ p3 \in Text /\ p4 \in Text
  BY DEF Piece
<1>2. ps \in Seq(Text) /\ ts \in Seq(Token) /\ Len(ps) = 4 /\ Len(ts) = 4
  BY <1>1
<1>3. /\ ps[1] = p1 /\ ps[2] = p2 /\ ps[3] = p3 /\ ps[4] = p4
      /\ ts[1] = t1 /\ ts[2] = t2 /\ ts[3] = t3 /\ ts[4] = t4
  OBVIOUS
<1> HIDE DEF ps, ts
<1>4. \A i \in 1..4 : Piece(ps[i], ts[i])
  BY <1>3
<1>5. Matches(ps, ts)
  BY <1>2, <1>4 DEF Matches
<1> QED BY <1>5 DEF ps, ts

\* Five pieces and their tokens.
LEMMA MatchesFive ==
    ASSUME NEW p1, NEW t1 \in Token, Piece(p1, t1), NEW p2, NEW t2 \in Token, Piece(p2, t2),
           NEW p3, NEW t3 \in Token, Piece(p3, t3), NEW p4, NEW t4 \in Token, Piece(p4, t4),
           NEW p5, NEW t5 \in Token, Piece(p5, t5)
    PROVE  Matches(<<p1, p2, p3, p4, p5>>, <<t1, t2, t3, t4, t5>>)
<1> DEFINE ps == <<p1, p2, p3, p4, p5>>
           ts == <<t1, t2, t3, t4, t5>>
<1>1. p1 \in Text /\ p2 \in Text /\ p3 \in Text /\ p4 \in Text /\ p5 \in Text
  BY DEF Piece
<1>2. ps \in Seq(Text) /\ ts \in Seq(Token) /\ Len(ps) = 5 /\ Len(ts) = 5
  BY <1>1
<1>3. /\ ps[1] = p1 /\ ps[2] = p2 /\ ps[3] = p3 /\ ps[4] = p4 /\ ps[5] = p5
      /\ ts[1] = t1 /\ ts[2] = t2 /\ ts[3] = t3 /\ ts[4] = t4 /\ ts[5] = t5
  OBVIOUS
<1> HIDE DEF ps, ts
<1>4. \A i \in 1..5 : Piece(ps[i], ts[i])
  BY <1>3
<1>5. Matches(ps, ts)
  BY <1>2, <1>4 DEF Matches
<1> QED BY <1>5 DEF ps, ts

\* Six pieces and their tokens.
LEMMA MatchesSix ==
    ASSUME NEW p1, NEW t1 \in Token, Piece(p1, t1), NEW p2, NEW t2 \in Token, Piece(p2, t2),
           NEW p3, NEW t3 \in Token, Piece(p3, t3), NEW p4, NEW t4 \in Token, Piece(p4, t4),
           NEW p5, NEW t5 \in Token, Piece(p5, t5), NEW p6, NEW t6 \in Token, Piece(p6, t6)
    PROVE  Matches(<<p1, p2, p3, p4, p5, p6>>, <<t1, t2, t3, t4, t5, t6>>)
<1> DEFINE ps == <<p1, p2, p3, p4, p5, p6>>
           ts == <<t1, t2, t3, t4, t5, t6>>
<1>1. p1 \in Text /\ p2 \in Text /\ p3 \in Text /\ p4 \in Text /\ p5 \in Text /\ p6 \in Text
  BY DEF Piece
<1>2. ps \in Seq(Text) /\ ts \in Seq(Token) /\ Len(ps) = 6 /\ Len(ts) = 6
  BY <1>1
<1>3. /\ ps[1] = p1 /\ ps[2] = p2 /\ ps[3] = p3 /\ ps[4] = p4 /\ ps[5] = p5 /\ ps[6] = p6
      /\ ts[1] = t1 /\ ts[2] = t2 /\ ts[3] = t3 /\ ts[4] = t4 /\ ts[5] = t5 /\ ts[6] = t6
  OBVIOUS
<1> HIDE DEF ps, ts
<1>4. \A i \in 1..6 : Piece(ps[i], ts[i])
  BY <1>3
<1>5. Matches(ps, ts)
  BY <1>2, <1>4 DEF Matches
<1> QED BY <1>5 DEF ps, ts

\* Ten pieces and their tokens.
LEMMA MatchesTen ==
    ASSUME NEW p1, NEW t1 \in Token, Piece(p1, t1), NEW p2, NEW t2 \in Token, Piece(p2, t2),
           NEW p3, NEW t3 \in Token, Piece(p3, t3), NEW p4, NEW t4 \in Token, Piece(p4, t4),
           NEW p5, NEW t5 \in Token, Piece(p5, t5), NEW p6, NEW t6 \in Token, Piece(p6, t6),
           NEW p7, NEW t7 \in Token, Piece(p7, t7), NEW p8, NEW t8 \in Token, Piece(p8, t8),
           NEW p9, NEW t9 \in Token, Piece(p9, t9), NEW p10, NEW t10 \in Token, Piece(p10, t10)
    PROVE  Matches(<<p1, p2, p3, p4, p5, p6, p7, p8, p9, p10>>, <<t1, t2, t3, t4, t5, t6, t7, t8, t9, t10>>)
<1> DEFINE ps == <<p1, p2, p3, p4, p5, p6, p7, p8, p9, p10>>
           ts == <<t1, t2, t3, t4, t5, t6, t7, t8, t9, t10>>
<1>1. p1 \in Text /\ p2 \in Text /\ p3 \in Text /\ p4 \in Text /\ p5 \in Text
      /\ p6 \in Text /\ p7 \in Text /\ p8 \in Text /\ p9 \in Text /\ p10 \in Text
  BY DEF Piece
<1>2. ps \in Seq(Text) /\ ts \in Seq(Token) /\ Len(ps) = 10 /\ Len(ts) = 10
  BY <1>1
<1>3. /\ ps[1] = p1 /\ ps[2] = p2 /\ ps[3] = p3 /\ ps[4] = p4 /\ ps[5] = p5
         /\ ps[6] = p6 /\ ps[7] = p7 /\ ps[8] = p8 /\ ps[9] = p9 /\ ps[10] = p10
      /\ ts[1] = t1 /\ ts[2] = t2 /\ ts[3] = t3 /\ ts[4] = t4 /\ ts[5] = t5
         /\ ts[6] = t6 /\ ts[7] = t7 /\ ts[8] = t8 /\ ts[9] = t9 /\ ts[10] = t10
  OBVIOUS
<1> HIDE DEF ps, ts
<1>4. \A i \in 1..10 : Piece(ps[i], ts[i])
  BY <1>3
<1>5. Matches(ps, ts)
  BY <1>2, <1>4 DEF Matches
<1> QED BY <1>5 DEF ps, ts

-----------------------------------------------------------------------------
(* The tokens of a message.                                                *)

Kw(w) == Word(<<w>>)
Num(n) == Word(<<Digits[n]>>)

\* A symbol that is not special is a piece of a line.
LEMMA PieceWord == \A w \in Plain : Kw(w) \in Token /\ Piece(<<w>>, Kw(w))
<1> SUFFICES ASSUME NEW w \in Plain PROVE Kw(w) \in Token /\ Piece(<<w>>, Kw(w))
  OBVIOUS
<1>1. <<w>> \in Text
  BY DEF Plain, Text
<1>2. Kw(w) \in Token
  BY <1>1, Typed DEF Kw
<1> QED BY <1>1, <1>2, ReadsWord DEF Piece, Kw

\* So is a keyword.
LEMMA PieceKeyword == \A w \in Keywords : w \in Plain /\ Kw(w) \in Token /\ Piece(<<w>>, Kw(w))
  BY PieceWord, KeywordsAssumption

\* So is a number.
LEMMA PieceNumber == \A n \in Numbers : Digits[n] \in Plain /\ Num(n) \in Token /\ Piece(<<Digits[n]>>, Num(n))
<1> SUFFICES ASSUME NEW n \in Numbers PROVE Digits[n] \in Plain /\ Num(n) \in Token /\ Piece(<<Digits[n]>>, Num(n))
  OBVIOUS
<1> DEFINE d == Digits[n]
<1>1. d \in Plain
  BY NumbersAssumption DEF Plain
<1> HIDE DEF d
<1>2. Kw(d) \in Token /\ Piece(<<d>>, Kw(d))
  BY <1>1, PieceWord
<1> QED BY <1>1, <1>2 DEF d, Kw, Num

\* So is a quoted text.
LEMMA PieceQuoted ==
    ASSUME NEW escaped, Escapes(escaped), NEW x \in Text
    PROVE  String(x) \in Token /\ Quoted(x, escaped) \in Text /\ Piece(Quoted(x, escaped), String(x))
<1>1. Reads(Quoted(x, escaped), <<String(x)>>)
  BY ReadsQuoted
<1>2. String(x) \in Token /\ <<String(x)>> \in Seq(Token)
  BY Typed
<1>3. <<String(x)>> \o <<>> = <<String(x)>>
  BY <1>2, ConcatEmptySeq
<1>4. Reads(Quoted(x, escaped) \o <<" ">>, <<String(x)>> \o <<>>)
  BY <1>1, ReadsSpace, ReadsOn
<1> QED BY <1>1, <1>2, <1>3, <1>4 DEF Piece, Reads

\* A comma after the last piece of a line.
LEMMA LineComma ==
    ASSUME NEW ps \in Seq(Text), NEW ts, Matches(ps, ts), NEW p, NEW t \in Token,
           Reads(p, <<t>>)
    PROVE  /\ p \o <<",">> \in Text
           /\ Reads(Line(Append(ps, p \o <<",">>)), Append(ts, t) \o <<Comma>>)
<1> DEFINE q == p \o <<",">>
           c == <<Comma>>
<1>1. Reads(q, <<t>> \o c)
  BY ReadsComma, ReadsOn
<1>2. q \in Text /\ <<t>> \in Seq(Token) /\ c \in Seq(Token) /\ <<t>> \o c \in Seq(Token) /\ ts \in Seq(Token)
  BY <1>1, ReadsComma DEF Reads, Matches
<1> HIDE DEF q, c
<1>3. Reads(q \o <<" ">>, (<<t>> \o c) \o <<>>)
  BY <1>1, ReadsSpace, ReadsOn
<1>4. (<<t>> \o c) \o <<>> = <<t>> \o c
  BY <1>2, ConcatEmptySeq
<1>5. Reads(Line(ps), ts)
  BY LineReads
<1>6. Reads(Line(ps) \o (q \o <<" ">>), ts \o (<<t>> \o c))
  BY <1>3, <1>4, <1>5, ReadsOn
<1>7. ts \o (<<t>> \o c) = Append(ts, t) \o c
  <2>1. (ts \o <<t>>) \o c = ts \o (<<t>> \o c)
    BY <1>2, ConcatAssociative
  <2>2. Append(ts, t) = ts \o <<t>>
    BY <1>2, AppendIsConcat
  <2> QED BY <2>1, <2>2
<1>8. Line(Append(ps, q)) = Line(ps) \o (q \o <<" ">>)
  BY <1>2, LineAppend
<1> QED BY <1>2, <1>6, <1>7, <1>8 DEF q, c

\* Tuples with one element more.
LEMMA TupleAppend ==
    /\ \A a, b : Append(<<a>>, b) = <<a, b>>
    /\ \A a, b, c, d : Append(<<a, b, c>>, d) = <<a, b, c, d>>
<1>1. ASSUME NEW a, NEW b PROVE Append(<<a>>, b) = <<a, b>>
  <2> DEFINE S == {a, b}
             u == <<a>>
             v == <<a, b>>
  <2>1. u \in Seq(S) /\ v \in Seq(S) /\ Len(u) = 1 /\ Len(v) = 2 /\ b \in S
        /\ u[1] = a /\ v[1] = a /\ v[2] = b
    OBVIOUS
  <2> HIDE DEF u, v, S
  <2>2. Append(u, b) \in Seq(S) /\ Len(Append(u, b)) = 2 /\ Append(u, b)[1] = u[1] /\ Append(u, b)[2] = b
    <3>1. /\ Append(u, b) \in Seq(S) /\ Len(Append(u, b)) = Len(u) + 1 /\ Append(u, b)[Len(u) + 1] = b
          /\ \A i \in 1..Len(u) : Append(u, b)[i] = u[i]
      <4>1. u \in Seq(S) /\ b \in S
        BY <2>1
      <4> QED BY <4>1, AppendProperties
    <3>2. Len(u) + 1 = 2 /\ 1 \in 1..Len(u)
      BY <2>1
    <3> QED BY <3>1, <3>2
  <2>3. \A i \in 1..2 : Append(u, b)[i] = v[i]
    BY <2>1, <2>2
  <2>4. Append(u, b) = v
    BY <2>1, <2>2, <2>3, SeqEqual
  <2> QED BY <2>4 DEF u, v
<1>2. ASSUME NEW a, NEW b, NEW c, NEW d PROVE Append(<<a, b, c>>, d) = <<a, b, c, d>>
  <2> DEFINE S == {a, b, c, d}
             u == <<a, b, c>>
             v == <<a, b, c, d>>
  <2>1. u \in Seq(S) /\ v \in Seq(S) /\ Len(u) = 3 /\ Len(v) = 4 /\ d \in S
        /\ u[1] = a /\ v[1] = a /\ u[2] = b /\ v[2] = b /\ u[3] = c /\ v[3] = c /\ v[4] = d
    OBVIOUS
  <2> HIDE DEF u, v, S
  <2>2. Append(u, d) \in Seq(S) /\ Len(Append(u, d)) = 4 /\ Append(u, d)[4] = d
        /\ \A i \in 1..3 : Append(u, d)[i] = u[i]
    <3>1. /\ Append(u, d) \in Seq(S) /\ Len(Append(u, d)) = Len(u) + 1 /\ Append(u, d)[Len(u) + 1] = d
          /\ \A i \in 1..Len(u) : Append(u, d)[i] = u[i]
      <4>1. u \in Seq(S) /\ d \in S
        BY <2>1
      <4> QED BY <4>1, AppendProperties
    <3>2. Len(u) + 1 = 4
      BY <2>1
    <3> QED BY <2>1, <3>1, <3>2
  <2>3. \A i \in 1..4 : Append(u, d)[i] = v[i]
    BY <2>1, <2>2
  <2>4. Append(u, d) = v
    BY <2>1, <2>2, <2>3, SeqEqual
  <2> QED BY <2>4 DEF u, v
<1> QED BY <1>1, <1>2

\* A LOGIN command is read as its four tokens.
LEMMA LoginReads ==
    ASSUME NEW x \in Text, NEW y \in Text
    PROVE  Reads(Login(x, y), <<Kw("LOGIN"), Kw("1.8"), String(x), String(y)>>)
<1>1. "LOGIN" \in Keywords /\ "1.8" \in Keywords
  BY DEF Keywords
<1>2. /\ Kw("LOGIN") \in Token /\ Piece(<<"LOGIN">>, Kw("LOGIN"))
      /\ Kw("1.8") \in Token /\ Piece(<<"1.8">>, Kw("1.8"))
  BY <1>1, PieceKeyword
<1>3. String(x) \in Token /\ Piece(quote(x), String(x)) /\ String(y) \in Token /\ Piece(quote(y), String(y))
  BY Escaping, PieceQuoted DEF quote
<1> DEFINE ps == <<<<"LOGIN">>, <<"1.8">>, quote(x), quote(y)>>
           ts == <<Kw("LOGIN"), Kw("1.8"), String(x), String(y)>>
<1>4. Matches(ps, ts)
  BY <1>2, <1>3, MatchesFour
<1> HIDE DEF ps, ts
<1>5. Reads(Line(ps), ts)
  BY <1>4, LineReads DEF Matches
<1> QED BY <1>5 DEF ps, ts, Login

\* The tokenizer reads tokens ts from the line of pieces ps.
Lined(ps, ts) == ps \in Seq(Text) /\ ts \in Seq(Token) /\ Reads(Line(ps), ts)

\* Pieces that match tokens make a line that is read as them.
LEMMA LinedMatch == ASSUME NEW ps, NEW ts, Matches(ps, ts) PROVE Lined(ps, ts)
  BY LineReads DEF Matches, Lined

\* A line of nothing.
LEMMA LinedEmpty == Lined(<<>>, <<>>)
<1>1. <<>> \in Seq(Text) /\ <<>> \in Seq(Token)
  OBVIOUS
<1> QED BY <1>1, LineEmpty, ReadsNothing DEF Lined

\* Lines of pieces and then others.
LEMMA LinedOn ==
    ASSUME NEW ps, NEW qs, NEW ts, NEW us, Lined(ps, ts), Lined(qs, us)
    PROVE  Lined(ps \o qs, ts \o us)
<1>1. ps \in Seq(Text) /\ qs \in Seq(Text) /\ ts \in Seq(Token) /\ us \in Seq(Token)
  BY DEF Lined
<1>2. Reads(Line(ps) \o Line(qs), ts \o us)
  BY ReadsOn DEF Lined
<1>3. Line(ps \o qs) = Line(ps) \o Line(qs)
  BY <1>1, LineConcat
<1> QED BY <1>1, <1>2, <1>3, ConcatProperties DEF Lined

\* The keyword of a message leads it.
LEMMA ReadIs ==
    ASSUME NEW w \in Keywords, NEW ps, NEW ts, Lined(ps, ts)
    PROVE  Read(Line(<<<<w>>>> \o ps)) = ts
<1> DEFINE k == Kw(w)
           t == <<k>> \o ts
           h == <<<<w>>>>
<1>1. k \in Token /\ Piece(<<w>>, k)
  BY PieceKeyword
<1>2. Lined(h, <<k>>)
  <2> HIDE DEF k
  <2> QED BY <1>1, MatchesOne, LinedMatch
<1>3. Lined(h \o ps, t)
  <2> HIDE DEF h, k
  <2> QED BY <1>2, LinedOn
<1>4. tokenize(Line(h \o ps)) = t
  <2> HIDE DEF h, t
  <2> QED BY <1>3, Tokenized DEF Lined
<1>5. Len(t) = Len(ts) + 1 /\ t[1] = k /\ Tail(t) = ts /\ Len(ts) \in Nat
  <2>1. ts \in Seq(Token)
    BY DEF Lined
  <2> HIDE DEF k
  <2> QED BY <1>1, <2>1, ConsIs, LenProperties
<1>6. k.type = "word"
  BY DEF Kw, Word
<1>7. HasValue(t, 1)
  <2> HIDE DEF t, k
  <2> QED BY <1>5, <1>6 DEF HasValue
<1> HIDE DEF h, t
<1>8. split_reply(Line(h \o ps)).body = Tail(t)
  BY <1>4, <1>7 DEF split_reply
<1> QED BY <1>5, <1>8 DEF Read, h

\* A quoted form of the text x.
Carries(q, x) ==
    x \in Text /\ String(x) \in Token /\ q \in Text /\ Piece(q, String(x)) /\ Reads(q, <<String(x)>>)

\* Both forms in which a text is quoted carry it.
LEMMA Carried ==
    ASSUME NEW x \in Text
    PROVE  Carries(quote(x), x) /\ \A q \in ServerQuotes(x) : Carries(q, x)
<1>1. ASSUME NEW escaped, Escapes(escaped) PROVE Carries(Quoted(x, escaped), x)
  BY <1>1, PieceQuoted, ReadsQuoted DEF Carries
<1> QED BY <1>1, Escaping DEF quote, ServerQuotes

ZoneTokens(n, x) == <<Kw("ID"), Num(n), Kw("NAME"), String(x)>>
ApTokens(x) ==
    <<Kw("ID"), Num(1), Kw("NAME"), String(x), Kw("ZONEA"), Num(1), Kw("ZONEB"),
      Num(2), Kw("STATE"), Kw("ONLINE_LOCKED")>>

\* The keywords and numbers the messages use are pieces of a line.
LEMMA Tokens ==
    /\ \A w \in Keywords : w \in Plain /\ Kw(w) \in Token /\ Piece(<<w>>, Kw(w))
    /\ Keywords =
         {"LOGIN", "1.8", "ZONEINFO", "ID", "NAME", "APINFO", "ZONEA", "ZONEB", "STATE", "ONLINE_LOCKED", "CLOSED",
          "OBJECTINFO", "EMP", "POSITION", "CAR", "NUMBER", "EVENT_CE", "HISTORY", "W26", "W34", "UNKNOWN",
          "IN", "OUT", "RULEDENY"}
    /\ 0 \in Numbers /\ 1 \in Numbers /\ 2 \in Numbers
    /\ \A n \in Numbers : Num(n) \in Token /\ Piece(<<Digits[n]>>, Num(n))
  BY PieceKeyword, PieceNumber, CodesAssumption DEF Keywords

\* Concatenation is associative.
LEMMA Concat3 ==
    ASSUME NEW S, NEW a \in Seq(S), NEW b \in Seq(S), NEW c \in Seq(S)
    PROVE  (a \o b) \o c = a \o (b \o c) /\ b \o c \in Seq(S) /\ a \o b \in Seq(S)
  BY ConcatAssociative, ConcatProperties

\* The tokens of a ZONEINFO reply.
LEMMA ZonesRead ==
    ASSUME NEW x, NEW q, Carries(q, x)
    PROVE  Read(Zones(q)) = ZoneTokens(1, x) \o (<<Comma>> \o ZoneTokens(2, x))
<1> DEFINE a == <<<<"ID">>, <<Digits[1]>>, <<"NAME">>>>
           ta == <<Kw("ID"), Num(1), Kw("NAME")>>
           t == String(x)
           c == <<Comma>>
           z1 == Zone(1, q \o <<",">>)
           z2 == Zone(2, q)
           t1 == ZoneTokens(1, x)
           t2 == ZoneTokens(2, x)
<1>1. t \in Token /\ q \in Text /\ Piece(q, t) /\ Reads(q, <<t>>) /\ c \in Seq(Token)
  BY ReadsComma DEF Carries, Reads
<1>2. Matches(a, ta)
  BY Tokens, MatchesThree
<1>3. Lined(z2, t2)
  <2>1. Matches(<<<<"ID">>, <<Digits[2]>>, <<"NAME">>, q>>, <<Kw("ID"), Num(2), Kw("NAME"), t>>)
    <3> HIDE DEF t
    <3> QED BY <1>1, Tokens, MatchesFour
  <2> QED BY <2>1, LinedMatch DEF Zone, ZoneTokens
<1>4. Lined(z1, t1 \o c)
  <2> DEFINE p == q \o <<",">>
  <2>1. z1 = Append(a, p) /\ t1 = Append(ta, t)
    <3> HIDE DEF t, p
    <3>1. z1 = <<<<"ID">>, <<Digits[1]>>, <<"NAME">>, p>> /\ t1 = <<Kw("ID"), Num(1), Kw("NAME"), t>>
      BY DEF Zone, ZoneTokens, t, p
    <3>2. Append(<<<<"ID">>, <<Digits[1]>>, <<"NAME">>>>, p) = <<<<"ID">>, <<Digits[1]>>, <<"NAME">>, p>>
      BY TupleAppend
    <3>3. Append(<<Kw("ID"), Num(1), Kw("NAME")>>, t) = <<Kw("ID"), Num(1), Kw("NAME"), t>>
      BY TupleAppend
    <3> QED BY <3>1, <3>2, <3>3
  <2>2. a \in Seq(Text) /\ ta \in Seq(Token)
    BY <1>2 DEF Matches
  <2> HIDE DEF a, ta, t, z1, t1
  <2>3. p \in Text /\ Reads(Line(Append(a, p)), Append(ta, t) \o c)
    BY <1>1, <1>2, <2>2, LineComma
  <2> HIDE DEF p, c
  <2>4. Append(a, p) \in Seq(Text) /\ Append(ta, t) \o c \in Seq(Token)
    BY <1>1, <2>2, <2>3, AppendProperties, ConcatProperties
  <2> QED BY <2>1, <2>3, <2>4 DEF Lined
<1>5. Lined(z1 \o z2, (t1 \o c) \o t2)
  <2> HIDE DEF z1, z2, t1, t2, c
  <2> QED BY <1>3, <1>4, LinedOn
<1>6. t1 \in Seq(Token) /\ t2 \in Seq(Token) /\ z1 \in Seq(Text) /\ z2 \in Seq(Text)
  <2>1. t1 \in Seq(Token)
    <3> HIDE DEF t
    <3>1. <<Kw("ID"), Num(1), Kw("NAME"), t>> \in Seq(Token)
      <4>1. Kw("ID") \in Token /\ Num(1) \in Token /\ Kw("NAME") \in Token
        BY Tokens
      <4> QED BY <1>1, <4>1
    <3> QED BY <3>1 DEF ZoneTokens, t
  <2> QED BY <1>3, <1>4, <2>1 DEF Lined
<1>7. (t1 \o c) \o t2 = t1 \o (c \o t2)
  <2>1. t1 \in Seq(Token) /\ c \in Seq(Token) /\ t2 \in Seq(Token)
    BY <1>1, <1>6
  <2> HIDE DEF t1, t2, c
  <2> QED BY <2>1, Concat3
<1> DEFINE h == <<<<"ZONEINFO">>>>
<1>8. h \in Seq(Text) /\ "ZONEINFO" \in Keywords
  <2>1. "ZONEINFO" \in Keywords
    BY Tokens
  <2>2. <<"ZONEINFO">> \in Text
    BY <2>1, Tokens DEF Piece
  <2> QED BY <2>1, <2>2
<1>9. Line(h \o (z1 \o z2)) = Zones(q)
  <2>1. Zones(q) = Line((h \o z1) \o z2)
    BY DEF Zones
  <2>2. (h \o z1) \o z2 = h \o (z1 \o z2)
    <3>1. h \in Seq(Text) /\ z1 \in Seq(Text) /\ z2 \in Seq(Text)
      BY <1>6, <1>8
    <3> HIDE DEF h, z1, z2
    <3> QED BY <3>1, Concat3
  <2> QED BY <2>1, <2>2
<1>10. Read(Line(<<<<"ZONEINFO">>>> \o (z1 \o z2))) = (t1 \o c) \o t2
  <2> DEFINE w == "ZONEINFO"
  <2>1. w \in Keywords
    BY <1>8
  <2> HIDE DEF w, z1, z2, t1, t2, c
  <2>2. Read(Line(<<<<w>>>> \o (z1 \o z2))) = (t1 \o c) \o t2
    BY <1>5, <2>1, ReadIs
  <2> QED BY <2>2 DEF w
<1> QED BY <1>7, <1>9, <1>10

\* The tokens of an APINFO reply, with or without an open state.
LEMMA ApInfoRead ==
    ASSUME NEW x, NEW q, Carries(q, x)
    PROVE  /\ Read(ApInfo(q, <<>>)) = ApTokens(x)
           /\ Read(ApInfo(q, <<<<"CLOSED">>>>)) = ApTokens(x) \o <<Kw("CLOSED")>>
           /\ ApTokens(x) \in Seq(Token)
<1> DEFINE t == String(x)
           ps == <<<<"ID">>, <<Digits[1]>>, <<"NAME">>, q, <<"ZONEA">>, <<Digits[1]>>,
                   <<"ZONEB">>, <<Digits[2]>>, <<"STATE">>, <<"ONLINE_LOCKED">>>>
           h == <<<<"APINFO">>>>
           w == "APINFO"
<1>1. t \in Token /\ Piece(q, t)
  BY DEF Carries
<1>2. Matches(ps, ApTokens(x))
  <2> HIDE DEF t
  <2>1. Matches(ps, <<Kw("ID"), Num(1), Kw("NAME"), t, Kw("ZONEA"), Num(1), Kw("ZONEB"),
                Num(2), Kw("STATE"), Kw("ONLINE_LOCKED")>>)
    BY <1>1, Tokens, MatchesTen
  <2> QED BY <2>1 DEF ApTokens, t
<1>3. Lined(ps, ApTokens(x))
  <2> HIDE DEF ps
  <2> QED BY <1>2, LinedMatch
<1>4. h \in Seq(Text) /\ w \in Keywords
  <2>1. "APINFO" \in Keywords
    BY Tokens
  <2>2. <<"APINFO">> \in Text
    BY <2>1, Tokens DEF Piece
  <2> QED BY <2>1, <2>2
<1>5. ASSUME NEW open, NEW k, Lined(open, k) PROVE Read(ApInfo(q, open)) = ApTokens(x) \o k
  <2>1. ApInfo(q, open) = Line((h \o ps) \o open)
    BY DEF ApInfo
  <2>2. (h \o ps) \o open = h \o (ps \o open)
    <3> HIDE DEF ps, h
    <3> QED BY <1>3, <1>4, <1>5, Concat3 DEF Lined
  <2>3. Read(Line(<<<<w>>>> \o (ps \o open))) = ApTokens(x) \o k
    <3> HIDE DEF ps, w
    <3>1. Lined(ps \o open, ApTokens(x) \o k)
      BY <1>3, <1>5, LinedOn
    <3> QED BY <1>4, <3>1, ReadIs
  <2> QED BY <2>1, <2>2, <2>3
<1>6. ApTokens(x) \in Seq(Token)
  BY <1>2 DEF Matches
<1>7. ApTokens(x) \o <<>> = ApTokens(x)
  BY <1>6, ConcatEmptySeq
<1>8. Lined(<<<<"CLOSED">>>>, <<Kw("CLOSED")>>)
  BY Tokens, MatchesOne, LinedMatch
<1> QED BY <1>5, <1>6, <1>7, <1>8, LinedEmpty

\* Sequence a is over S; b after a.
Over(a, S) == a \in Seq(S)
Cat(a, b) == a \o b

\* Concatenation keeps the set a sequence is over.
LEMMA CatOver == \A S, a, b : Over(a, S) /\ Over(b, S) => Over(Cat(a, b), S)
  BY ConcatProperties DEF Over, Cat

\* Concatenation of three.
LEMMA Cat3 ==
    \A S, a, b, c : Over(a, S) /\ Over(b, S) /\ Over(c, S) => Cat(Cat(a, b), c) = Cat(a, Cat(b, c))
  BY ConcatAssociative DEF Over, Cat

\* Concatenation of four.
LEMMA Cat4 ==
    \A S, a, b, c, d :
      Over(a, S) /\ Over(b, S) /\ Over(c, S) /\ Over(d, S) =>
        Cat(Cat(Cat(a, b), c), d) = Cat(a, Cat(b, Cat(c, d)))
  BY Cat3, CatOver

\* Concatenation of six.
LEMMA Cat6 ==
    \A S, a, b, c, d, e, f :
      Over(a, S) /\ Over(b, S) /\ Over(c, S) /\ Over(d, S) /\ Over(e, S) /\ Over(f, S) =>
        Cat(Cat(Cat(Cat(Cat(a, b), c), d), e), f) = Cat(a, Cat(b, Cat(c, Cat(d, Cat(e, f)))))
<1> SUFFICES ASSUME NEW S, NEW a, NEW b, NEW c, NEW d, NEW e, NEW f, Over(a, S), Over(b, S), Over(c, S),
                    Over(d, S), Over(e, S), Over(f, S)
             PROVE  Cat(Cat(Cat(Cat(Cat(a, b), c), d), e), f) = Cat(a, Cat(b, Cat(c, Cat(d, Cat(e, f)))))
  OBVIOUS
<1>1. Over(Cat(Cat(a, b), c), S) /\ Over(Cat(d, Cat(e, f)), S)
  BY CatOver
<1>2. Cat(Cat(Cat(Cat(Cat(a, b), c), d), e), f) = Cat(Cat(Cat(a, b), c), Cat(d, Cat(e, f)))
  BY <1>1, Cat4
<1> QED BY <1>1, <1>2, Cat4

\* Lines of pieces and then others.
LEMMA LinedCat ==
    \A ps, qs, ts, us : Lined(ps, ts) /\ Lined(qs, us) => Lined(Cat(ps, qs), Cat(ts, us))
  BY LinedOn DEF Cat

\* What a line is made of, and what is read of it.
LEMMA LinedOver == \A ps, ts : Lined(ps, ts) => Over(ps, Text) /\ Over(ts, Token)
  BY DEF Lined, Over

ObjectTokens(kind, n) == <<Kw(kind), Kw("ID"), Num(n)>>
FieldTokens(name, x) == <<Kw(name), String(x)>>

\* The last field of an object that another one follows.
FieldComma(name, x) == FieldTokens(name, x) \o <<Comma>>

\* The tokens that start an object.
LEMMA ObjectLined ==
    ASSUME NEW kind \in Keywords, NEW n \in Numbers
    PROVE  Lined(<<<<kind>>, <<"ID">>, <<Digits[n]>>>>, ObjectTokens(kind, n))
<1>1. Matches(<<<<kind>>, <<"ID">>, <<Digits[n]>>>>, <<Kw(kind), Kw("ID"), Num(n)>>)
  <2>1. Kw(kind) \in Token /\ Piece(<<kind>>, Kw(kind)) /\ Kw("ID") \in Token /\ Piece(<<"ID">>, Kw("ID"))
        /\ Num(n) \in Token /\ Piece(<<Digits[n]>>, Num(n))
    BY Tokens
  <2> QED BY <2>1, MatchesThree
<1> QED BY <1>1, LinedMatch DEF ObjectTokens

\* The tokens of a field, with or without a comma after it.
LEMMA FieldLined ==
    ASSUME NEW name \in Keywords, NEW x, NEW q, Carries(q, x)
    PROVE  /\ Lined(<<<<name>>, q>>, FieldTokens(name, x))
           /\ Lined(<<<<name>>, q \o <<",">>>>, FieldComma(name, x))
           /\ FieldTokens(name, x) \in Seq(Token)
<1> DEFINE t == String(x)
           k == Kw(name)
           a == <<<<name>>>>
           p == q \o <<",">>
<1>1. k \in Token /\ Piece(<<name>>, k) /\ t \in Token /\ Piece(q, t) /\ q \in Text /\ Reads(q, <<t>>)
  BY Tokens DEF Carries
<1>2. Lined(<<<<name>>, q>>, <<k, t>>) /\ <<k, t>> \in Seq(Token)
  <2> HIDE DEF k, t
  <2> QED BY <1>1, MatchesTwo, LinedMatch
<1>3. Matches(a, <<k>>) /\ a \in Seq(Text) /\ <<k>> \in Seq(Token)
  <2>1. <<name>> \in Text
    BY <1>1 DEF Piece
  <2> HIDE DEF k, t
  <2> QED BY <1>1, <2>1, MatchesOne
<1>4. p \in Text /\ Reads(Line(Append(a, p)), Append(<<k>>, t) \o <<Comma>>)
  <2> HIDE DEF k, t, a
  <2> QED BY <1>1, <1>3, LineComma
<1>5. Append(a, p) = <<<<name>>, p>> /\ Append(<<k>>, t) = <<k, t>>
  BY TupleAppend
<1>6. <<<<name>>, p>> \in Seq(Text)
  <2>1. <<name>> \in Text
    BY <1>1 DEF Piece
  <2> HIDE DEF p
  <2> QED BY <1>4, <2>1
<1>7. <<k, t>> \o <<Comma>> \in Seq(Token)
  <2>1. <<Comma>> \in Seq(Token)
    BY ReadsComma DEF Reads
  <2> HIDE DEF k, t
  <2> QED BY <1>2, <2>1, ConcatProperties
<1> QED BY <1>2, <1>4, <1>5, <1>6, <1>7 DEF FieldTokens, FieldComma, Lined

\* The tokens of an OBJECTINFO reply.
LEMMA ObjectInfoRead ==
    ASSUME NEW x, NEW q, Carries(q, x)
    PROVE  Read(ObjectInfo(q)) =
             Cat(ObjectTokens("EMP", 1), Cat(FieldTokens("NAME", x), Cat(FieldComma("POSITION", x),
                 Cat(ObjectTokens("CAR", 2), FieldTokens("NUMBER", x)))))
<1> DEFINE w == "OBJECTINFO"
           h == <<<<w>>>>
           a == <<<<"EMP">>, <<"ID">>, <<Digits[1]>>>>
           b == <<<<"NAME">>, q>>
           c == <<<<"POSITION">>, q \o <<",">>>>
           d == <<<<"CAR">>, <<"ID">>, <<Digits[2]>>>>
           e == <<<<"NUMBER">>, q>>
           ta == ObjectTokens("EMP", 1)
           tb == FieldTokens("NAME", x)
           tc == FieldComma("POSITION", x)
           td == ObjectTokens("CAR", 2)
           te == FieldTokens("NUMBER", x)
<1>1. w \in Keywords /\ "EMP" \in Keywords /\ "NAME" \in Keywords /\ "POSITION" \in Keywords
      /\ "CAR" \in Keywords /\ "NUMBER" \in Keywords /\ 1 \in Numbers /\ 2 \in Numbers
  BY Tokens
<1>2. Lined(a, ta) /\ Lined(d, td)
  BY <1>1, ObjectLined
<1>3. Lined(b, tb) /\ Lined(c, tc) /\ Lined(e, te)
  BY <1>1, FieldLined
<1>4. Over(a, Text) /\ Over(b, Text) /\ Over(c, Text) /\ Over(d, Text) /\ Over(e, Text)
  <2> HIDE DEF a, b, c, d, e
  <2> QED BY <1>2, <1>3, LinedOver
<1>5. Over(h, Text)
  <2>1. <<w>> \in Text
    BY <1>1, Tokens DEF Piece
  <2> QED BY <2>1 DEF Over
<1>6. ObjectInfo(q) = Line(Cat(h, Cat(a, Cat(b, Cat(c, Cat(d, e))))))
  <2>1. ObjectInfo(q) = Line(Cat(Cat(Cat(Cat(Cat(h, a), b), c), d), e))
    BY DEF ObjectInfo, Cat
  <2>2. Cat(Cat(Cat(Cat(Cat(h, a), b), c), d), e) = Cat(h, Cat(a, Cat(b, Cat(c, Cat(d, e)))))
    <3> HIDE DEF h, a, b, c, d, e
    <3> QED BY <1>4, <1>5, Cat6
  <2> QED BY <2>1, <2>2
<1>7. Read(Line(Cat(<<<<w>>>>, Cat(a, Cat(b, Cat(c, Cat(d, e))))))) = Cat(ta, Cat(tb, Cat(tc, Cat(td, te))))
  <2> HIDE DEF w, a, b, c, d, e, ta, tb, tc, td, te
  <2>1. Lined(Cat(a, Cat(b, Cat(c, Cat(d, e)))), Cat(ta, Cat(tb, Cat(tc, Cat(td, te)))))
    BY <1>2, <1>3, LinedCat
  <2> QED BY <1>1, <2>1, ReadIs DEF Cat
<1> QED BY <1>6, <1>7

\* An event, and one that may stand in a reply.
Event(e) ==
    /\ e.kind \in Kinds /\ e.time \in Times /\ e.direction \in DirectionCodes /\ e.who \in Anybody \cup {Nobody}
    /\ e.kind.classic \in Anonymous => e.who = Nobody

KeyTokens(key) ==
    CASE key.format = "W26" -> <<Kw("W26"), Num(key.facility), Num(key.number)>>
      [] key.format = "W34" -> <<Kw("W34"), Kw(key.hex_value)>>
      [] OTHER -> <<Kw("UNKNOWN")>>

\* The three formats of a key.
LEMMA KeyIs ==
    ASSUME NEW key \in Keys \cup {UnknownKey}
    PROVE  \/ key.format = "W26" /\ key.facility \in Numbers /\ key.number \in Numbers
              /\ key = [format |-> "W26", facility |-> key.facility, number |-> key.number]
           \/ key.format = "W34" /\ key.hex_value \in Plain /\ key = [format |-> "W34", hex_value |-> key.hex_value]
           \/ key.format = "UNKNOWN" /\ key = UnknownKey
<1>1. CASE key = UnknownKey
  BY <1>1 DEF UnknownKey
<1>2. CASE key \in [format : {"W26"}, facility : Numbers, number : Numbers]
  BY <1>2
<1>3. CASE key \in [format : {"W34"}, hex_value : Plain]
  BY <1>3
<1> QED BY <1>1, <1>2, <1>3, WhoAssumption

\* What an event is made of.
LEMMA EventIs ==
    ASSUME NEW e, Event(e)
    PROVE  /\ e.kind.code \in Numbers /\ e.who.object \in Numbers /\ e.direction \in Numbers
           /\ e.who.key \in Keys \cup {UnknownKey} /\ e.kind.classic \in Plain
           /\ e.time \in Symbols /\ <<e.time>> \in Text /\ Point \in Numbers
<1>1. e.kind \in [classic : Plain, code : Numbers]
  BY KindsAssumption DEF Event
<1>2. e.kind.code \in Numbers /\ e.kind.classic \in Plain
  BY <1>1
<1>3. e.direction \in Numbers /\ Point \in Numbers /\ 0 \in Numbers
  BY CodesAssumption DEF Event, Point
<1>4. e.who.object \in Numbers /\ e.who.key \in Keys \cup {UnknownKey}
  <2>1. CASE e.who = Nobody
    BY <1>3, <2>1 DEF Nobody
  <2>2. CASE e.who \in Anybody
    BY <2>2, WhoAssumption DEF Anybody
  <2> QED BY <2>1, <2>2 DEF Event
<1>5. e.time \in Symbols
  BY TimesAssumption DEF Event
<1> QED BY <1>2, <1>3, <1>4, <1>5 DEF Text

\* The tokens of a key.
LEMMA KeyLined ==
    ASSUME NEW key \in Keys \cup {UnknownKey}
    PROVE  Lined(KeyPieces(key), KeyTokens(key))
<1>1. CASE key.format = "W26" /\ key.facility \in Numbers /\ key.number \in Numbers
  <2> DEFINE f == key.facility
             n == key.number
  <2>1. Kw("W26") \in Token /\ Piece(<<"W26">>, Kw("W26")) /\ Num(f) \in Token /\ Piece(<<Digits[f]>>, Num(f))
        /\ Num(n) \in Token /\ Piece(<<Digits[n]>>, Num(n))
    BY <1>1, Tokens
  <2>2. Lined(<<<<"W26">>, <<Digits[f]>>, <<Digits[n]>>>>, <<Kw("W26"), Num(f), Num(n)>>)
    <3> HIDE DEF f, n
    <3> QED BY <2>1, MatchesThree, LinedMatch
  <2> QED BY <1>1, <2>2 DEF KeyPieces, KeyTokens
<1>2. CASE key.format = "W34" /\ key.hex_value \in Plain
  <2> DEFINE v == key.hex_value
  <2>1. Kw("W34") \in Token /\ Piece(<<"W34">>, Kw("W34")) /\ Kw(v) \in Token /\ Piece(<<v>>, Kw(v))
    BY <1>2, Tokens, PieceWord
  <2>2. Lined(<<<<"W34">>, <<v>>>>, <<Kw("W34"), Kw(v)>>)
    <3> HIDE DEF v
    <3> QED BY <2>1, MatchesTwo, LinedMatch
  <2> QED BY <1>2, <2>2 DEF KeyPieces, KeyTokens
<1>3. CASE key.format = "UNKNOWN"
  <2>1. Lined(<<<<"UNKNOWN">>>>, <<Kw("UNKNOWN")>>)
    BY Tokens, MatchesOne, LinedMatch
  <2> QED BY <1>3, <2>1 DEF KeyPieces, KeyTokens
<1> QED BY <1>1, <1>2, <1>3, KeyIs

CeTokens(e) ==
    <<String(<<e.time>>), Num(e.kind.code), Num(Point), Num(e.who.object), Num(e.direction)>>

\* The tokens of an EVENT_CE, and of what may follow its key.
LEMMA CeRead ==
    ASSUME NEW e, Event(e), NEW name, NEW k, Lined(name, k)
    PROVE  Read(Ce(e, name)) = Cat(CeTokens(e), Cat(KeyTokens(e.who.key), k))
<1> DEFINE w == "EVENT_CE"
           h == <<<<w>>>>
           t == String(<<e.time>>)
           q == quote(<<e.time>>)
           c == e.kind.code
           o == e.who.object
           d == e.direction
           ps == <<q, <<Digits[c]>>, <<Digits[Point]>>, <<Digits[o]>>, <<Digits[d]>>>>
           ks == KeyPieces(e.who.key)
           tk == KeyTokens(e.who.key)
<1>1. t \in Token /\ Piece(q, t)
  <2> DEFINE x == <<e.time>>
  <2>1. x \in Text
    BY EventIs
  <2> HIDE DEF x
  <2>2. String(x) \in Token /\ Piece(quote(x), String(x))
    BY <2>1, Carried DEF Carries
  <2> QED BY <2>2 DEF x
<1>2. c \in Numbers /\ o \in Numbers /\ d \in Numbers /\ Point \in Numbers
  BY EventIs
<1>3. Matches(ps, <<t, Num(c), Num(Point), Num(o), Num(d)>>)
  <2>1. Num(c) \in Token /\ Piece(<<Digits[c]>>, Num(c)) /\ Num(o) \in Token /\ Piece(<<Digits[o]>>, Num(o))
        /\ Num(d) \in Token /\ Piece(<<Digits[d]>>, Num(d))
        /\ Num(Point) \in Token /\ Piece(<<Digits[Point]>>, Num(Point))
    BY <1>2, Tokens
  <2> HIDE DEF t, q, c, o, d
  <2> QED BY <1>1, <2>1, MatchesFive
<1>4. Lined(ps, CeTokens(e))
  <2>1. CeTokens(e) = <<t, Num(c), Num(Point), Num(o), Num(d)>>
    BY DEF CeTokens
  <2> HIDE DEF ps
  <2>2. Matches(ps, CeTokens(e))
    BY <1>3, <2>1
  <2> QED BY <2>2, LinedMatch
<1>5. Lined(ks, tk)
  BY EventIs, KeyLined
<1>6. Over(h, Text) /\ w \in Keywords
  <2>1. "EVENT_CE" \in Keywords
    BY Tokens
  <2>2. <<"EVENT_CE">> \in Text
    BY <2>1, Tokens DEF Piece
  <2> QED BY <2>1, <2>2 DEF Over
<1>7. Ce(e, name) = Line(Cat(Cat(Cat(h, ps), ks), name))
  BY DEF Ce, Cat
<1> HIDE DEF ps, ks, tk
<1>8. Cat(Cat(Cat(h, ps), ks), name) = Cat(h, Cat(ps, Cat(ks, name)))
  <2>1. Over(ps, Text) /\ Over(ks, Text) /\ Over(name, Text)
    BY <1>4, <1>5, LinedOver
  <2> HIDE DEF h
  <2> QED BY <1>6, <2>1, Cat4
<1>9. Read(Line(Cat(<<<<w>>>>, Cat(ps, Cat(ks, name))))) = Cat(CeTokens(e), Cat(tk, k))
  <2> HIDE DEF w
  <2>1. Lined(Cat(ps, Cat(ks, name)), Cat(CeTokens(e), Cat(tk, k)))
    BY <1>4, <1>5, LinedCat
  <2> QED BY <1>6, <2>1, ReadIs DEF Cat
<1> QED BY <1>7, <1>8, <1>9 DEF tk

Space == <<" ">>

\* A line is free of a symbol that its pieces are free of.
LEMMA LineFree ==
    ASSUME NEW x, Free(Space, x)
    PROVE  \A ps \in Seq(Text) : (\A i \in 1..Len(ps) : Free(ps[i], x)) => Free(Line(ps), x)
<1> DEFINE P == {ps \in Seq(Text) : (\A i \in 1..Len(ps) : Free(ps[i], x)) => Free(Line(ps), x)}
<1>1. <<>> \in P
  <2>1. <<>> \in Seq(Text) /\ Free(<<>>, x)
    BY DEF Free
  <2> QED BY <2>1, LineEmpty
<1>2. ASSUME NEW ps \in Seq(Text), NEW p \in Text, ps \in P PROVE Append(ps, p) \in P
  <2> DEFINE qs == Append(ps, p)
             n == Len(ps)
  <2>1. qs \in Seq(Text) /\ Len(qs) = n + 1 /\ qs[n + 1] = p /\ n \in Nat /\ \A i \in 1..n : qs[i] = ps[i]
    BY AppendProperties, LenProperties
  <2>2. Line(qs) = Line(ps) \o (p \o <<" ">>)
    BY LineAppend
  <2>3. Line(ps) \in Text
    <3>1. FlatMap(Spaced, ps) \in Text
      <4>1. Maps(Spaced, Text, Seq(Symbols))
        BY LineIs DEF Text
      <4> QED BY <4>1, FlatMapAppend DEF Text
    <3> QED BY <3>1, LineIs
  <2> HIDE DEF qs, n
  <2>4. ASSUME \A i \in 1..Len(qs) : Free(qs[i], x) PROVE Free(Line(qs), x)
    <3>1. \A i \in 1..n : i \in 1..(n + 1)
      BY <2>1
    <3>2. n + 1 \in 1..(n + 1)
      BY <2>1
    <3>3. \A i \in 1..n : Free(ps[i], x)
      BY <2>1, <2>4, <3>1
    <3>4. Free(p, x)
      BY <2>1, <2>4, <3>2
    <3>5. Free(Line(ps), x)
      BY <1>2, <3>3 DEF n
    <3> DEFINE s == <<" ">>
    <3>7. s \in Text
      BY ReadsSpace DEF Reads
    <3> HIDE DEF s
    <3>8. p \o s \in Text
      BY <3>7, ConcatProperties DEF Text
    <3>6. Free(s, x)
      BY DEF s, Space
    <3>9. Free(p \o s, x)
      BY <3>4, <3>6, <3>7, FreeConcat
    <3> DEFINE u == p \o s
    <3> HIDE DEF u
    <3>10. Free(Line(ps) \o u, x)
      BY <2>3, <3>5, <3>8, <3>9, FreeConcat DEF u
    <3> QED BY <2>2, <3>10 DEF u, s
  <2> QED BY <2>1, <2>4 DEF qs
<1> HIDE DEF P
<1>3. \A ps \in Seq(Text) : ps \in P
  BY <1>1, <1>2, SeqInduction
<1> QED BY <1>3 DEF P

\* A LOGIN command is one line: no user or password puts an end of line into it.
LEMMA LoginFree ==
    ASSUME NEW y \in Text, NEW z \in Text
    PROVE  Free(Login(y, z), "\n")
<1> DEFINE c == "\n"
           escaped == {Mark, "#", "\n"}
<1>1. Escapes(escaped) /\ c \in escaped /\ c \notin {"#", "0", "2", "3", "7", "A", "C"} /\ c # Mark
  BY Escaping DEF Mark
<1>5. Free(Space, c)
  <2> HIDE DEF escaped
  <2> DEFINE s == <<" ">>
             d == " "
  <2>1. Len(s) = 1 /\ s[1] = d /\ d # c
    OBVIOUS
  <2> HIDE DEF s, c, d
  <2>2. Free(s, c)
    BY <2>1 DEF Free
  <2> QED BY <2>2 DEF Space, s
<1>2. ASSUME NEW x \in Text PROVE quote(x) \in Text /\ Free(quote(x), c)
  <2>1. quote(x) \in Text
    BY Carried DEF Carries
  <2> DEFINE m == <<Mark>>
             b == Encoded(x, escaped)
  <2>2. Free(b, c) /\ b \in Text
    <3> HIDE DEF c, escaped
    <3> QED BY <1>1, EncodedFree, EncodedAppend
  <2>3. quote(x) = (m \o b) \o m
    BY QuotedIs DEF quote
  <2>4. m \in Text /\ Free(m, c)
    <3>1. Mark \in Symbols
      BY SpecialSymbols
    <3> DEFINE k == Mark
    <3> HIDE DEF k, c
    <3>2. <<k>> \in Text /\ Free(<<k>>, c)
      BY <1>1, <3>1 DEF Text, Free, k
    <3> QED BY <3>2 DEF k
  <2> HIDE DEF m, b, c
  <2>5. m \o b \in Text /\ Free(m \o b, c)
    BY <2>2, <2>4, FreeConcat, ConcatProperties DEF Text
  <2> DEFINE u == m \o b
  <2> HIDE DEF u
  <2>6. Free(u \o m, c)
    BY <2>4, <2>5, FreeConcat DEF u
  <2> QED BY <2>1, <2>3, <2>6 DEF u
<1>3. <<"LOGIN">> \in Text /\ <<"1.8">> \in Text /\ Free(<<"LOGIN">>, c) /\ Free(<<"1.8">>, c)
  <2>1. <<"LOGIN">> \in Text /\ <<"1.8">> \in Text
    BY Tokens DEF Piece
  <2> QED BY <2>1 DEF Free
<1> DEFINE ps == <<<<"LOGIN">>, <<"1.8">>, quote(y), quote(z)>>
<1>4. ps \in Seq(Text) /\ Len(ps) = 4 /\ \A i \in 1..4 : Free(ps[i], c)
  <2>1. Free(ps[1], c) /\ Free(ps[2], c)
    BY <1>3
  <2> DEFINE qy == quote(y)
             qz == quote(z)
  <2>2. qy \in Text /\ qz \in Text /\ Free(qy, c) /\ Free(qz, c)
    BY <1>2
  <2>3. Free(ps[3], c) /\ Free(ps[4], c)
    <3> HIDE DEF qy, qz, c
    <3>1. <<<<"LOGIN">>, <<"1.8">>, qy, qz>>[3] = qy /\ <<<<"LOGIN">>, <<"1.8">>, qy, qz>>[4] = qz
      OBVIOUS
    <3> QED BY <2>2, <3>1 DEF qy, qz
  <2>4. ps \in Seq(Text) /\ Len(ps) = 4
    <3> HIDE DEF qy, qz
    <3>1. <<<<"LOGIN">>, <<"1.8">>, qy, qz>> \in Seq(Text)
      BY <1>3, <2>2
    <3> QED BY <3>1 DEF qy, qz
  <2>5. \A i \in 1..4 : i = 1 \/ i = 2 \/ i = 3 \/ i = 4
    OBVIOUS
  <2> HIDE DEF ps, c
  <2> QED BY <2>1, <2>3, <2>4, <2>5
<1> HIDE DEF ps, c
<1>6. Free(Line(ps), c)
  BY <1>4, <1>5, LineFree
<1> QED BY <1>6 DEF ps, c, Login

-----------------------------------------------------------------------------
(* What the parsers ask of a token, and the loops that find items.         *)

(* What the parsers ask of a token. *)
LEMMA WordAt ==
    \A t, i, w : i <= Len(t) /\ t[i] = Kw(w) =>
      /\ HasValue(t, i) /\ t[i].value = <<w>> /\ Head(t[i].value) = w /\ t[i].type = "word"
      /\ \A v : Is(t, i, v) <=> v = w
<1> SUFFICES ASSUME NEW t, NEW i, NEW w, i <= Len(t), t[i] = Kw(w)
             PROVE  /\ HasValue(t, i) /\ t[i].value = <<w>> /\ Head(t[i].value) = w /\ t[i].type = "word"
                    /\ \A v : Is(t, i, v) <=> v = w
  OBVIOUS
<1>1. t[i].type = "word" /\ t[i].value = <<w>>
  BY DEF Kw, Word
<1>2. Head(<<w>>) = w /\ \A v : <<w>> = <<v>> <=> v = w
  OBVIOUS
<1>3. HasValue(t, i)
  BY <1>1 DEF HasValue
<1> QED BY <1>1, <1>2, <1>3 DEF Is

\* What the parsers find at a number.
LEMMA NumberAt ==
    \A t, i : \A n \in Numbers : i <= Len(t) /\ t[i] = Num(n) => HasValue(t, i) /\ HasNumber(t, i) /\ Number(t, i) = n
<1> SUFFICES ASSUME NEW t, NEW i, NEW n \in Numbers, i <= Len(t), t[i] = Num(n)
             PROVE  HasValue(t, i) /\ HasNumber(t, i) /\ Number(t, i) = n
  OBVIOUS
<1>1. t[i].type = "word" /\ t[i].value = <<Digits[n]>>
  BY DEF Num, Word
<1>2. HasValue(t, i)
  BY <1>1 DEF HasValue
<1>3. HasNumber(t, i)
  BY <1>1, <1>2 DEF HasNumber
<1>4. \A m \in Numbers : t[i].value = <<Digits[m]>> => m = n
  <2> SUFFICES ASSUME NEW m \in Numbers, <<Digits[n]>> = <<Digits[m]>> PROVE m = n
    BY <1>1
  <2>1. Digits[m] = Digits[n]
    OBVIOUS
  <2> QED BY <2>1, NumbersAssumption
<1>5. Number(t, i) = n
  BY <1>1, <1>4 DEF Number
<1> QED BY <1>2, <1>3, <1>5

\* What the parsers find at a string.
LEMMA StringAt ==
    \A t, i, x : i <= Len(t) /\ t[i] = String(x) => HasValue(t, i) /\ t[i].value = x /\ t[i].type = "string"
<1> SUFFICES ASSUME NEW t, NEW i, NEW x, i <= Len(t), t[i] = String(x)
             PROVE  HasValue(t, i) /\ t[i].value = x /\ t[i].type = "string"
  OBVIOUS
<1>1. t[i].type = "string" /\ t[i].value = x
  BY DEF String
<1> QED BY <1>1 DEF HasValue

(* A stream that starts with the tokens ts. *)
LEMMA CatIs ==
    ASSUME NEW ts, NEW r, Over(ts, Token), Over(r, Token)
    PROVE  /\ Len(ts) \in Nat /\ Len(r) \in Nat /\ Len(Cat(ts, r)) = Len(ts) + Len(r)
           /\ Cat(ts, r) \in Seq(Token) /\ r \in Seq(Token)
           /\ \A i \in 1..Len(ts) : Cat(ts, r)[i] = ts[i]
           /\ Rest(Cat(ts, r), Len(ts) + 1) = r
           /\ \A i \in 1..Len(r) : Cat(ts, r)[Len(ts) + i] = r[i]
<1>1. ts \in Seq(Token) /\ r \in Seq(Token)
  BY DEF Over
<1>2. /\ Len(ts) \in Nat /\ Len(r) \in Nat /\ Len(Cat(ts, r)) = Len(ts) + Len(r)
      /\ Cat(ts, r) \in Seq(Token)
      /\ \A i \in 1..Len(ts) : Cat(ts, r)[i] = ts[i]
      /\ \A i \in 1..Len(r) : Cat(ts, r)[Len(ts) + i] = r[i]
  BY <1>1, LenProperties, ConcatProperties DEF Cat
<1>3. Rest(Cat(ts, r), Len(ts) + 1) = r
  BY <1>1, Suffix DEF Cat, Rest
<1> QED BY <1>1, <1>2, <1>3

\* A stream that starts with a comma.
LEMMA CommaIs ==
    /\ Over(<<Comma>>, Token) /\ Comma \in Token /\ Len(<<Comma>>) = 1 /\ <<Comma>>[1] = Comma
    /\ \A r : Over(r, Token) => /\ AtComma(Cat(<<Comma>>, r)) /\ Tail(Cat(<<Comma>>, r)) = r
                                /\ Over(Cat(<<Comma>>, r), Token) /\ Len(Cat(<<Comma>>, r)) = Len(r) + 1
<1>1. Comma \in Token /\ <<Comma>> \in Seq(Token)
  <2>1. <<Comma>> \in Seq(Token)
    BY ReadsComma DEF Reads
  <2> DEFINE c == Comma
  <2>2. Len(<<c>>) = 1 /\ <<c>>[1] = c
    OBVIOUS
  <2> HIDE DEF c
  <2>3. <<c>>[1] \in Token
    BY <2>1, <2>2 DEF c
  <2> QED BY <2>1, <2>2, <2>3 DEF c
<1>2. ASSUME NEW r, Over(r, Token)
      PROVE  /\ AtComma(Cat(<<Comma>>, r)) /\ Tail(Cat(<<Comma>>, r)) = r
             /\ Over(Cat(<<Comma>>, r), Token) /\ Len(Cat(<<Comma>>, r)) = Len(r) + 1
  BY <1>1, <1>2, ConsIs DEF Over, Cat, AtComma
<1>3. Over(<<Comma>>, Token) /\ Len(<<Comma>>) = 1 /\ <<Comma>>[1] = Comma
  BY <1>1 DEF Over
<1> QED BY <1>1, <1>2, <1>3

At(rest, starts) == [rest |-> rest, starts |-> starts]

\* A turn of a parser's loop that reads something leads on.
LEMMA TurnOnce ==
    ASSUME NEW after, NEW t, NEW r, NEW at, Over(t, Token), Over(r, Token), Over(at, Seq(Token)),
           after[t] = r, Len(r) < Len(t)
    PROVE  Leads(Turn(after), At(t, at), At(r, Append(at, t)))
<1> DEFINE a == At(t, at)
           b == At(r, Append(at, t))
<1>1. t \in Seq(Token) /\ r \in Seq(Token) /\ at \in Seq(Seq(Token)) /\ Len(r) \in Nat /\ Len(t) \in Nat
  BY LenProperties DEF Over
<1>2. t # <<>>
  BY <1>1
<1>3. Turn(after)[a] = b
  BY <1>1, <1>2 DEF Turn, At
<1>4. Len(a.rest) = Len(t) /\ Len(b.rest) = Len(r)
  BY DEF At
<1>5. Len(a.rest) \in Nat /\ Len(Turn(after)[a].rest) \in Nat /\ Len(Turn(after)[a].rest) < Len(a.rest)
  BY <1>1, <1>3, <1>4
<1>6. Leads(Turn(after), a, Turn(after)[a])
  <2> HIDE DEF a, b
  <2> QED BY <1>5, LeadsOnce
<1> QED BY <1>3, <1>6

\* Where the turns lead to the end of the stream, that is where the items started.
LEMMA TurnsEnd ==
    ASSUME NEW after, NEW t, NEW at, Over(t, Token), Over(at, Seq(Token)),
           Leads(Turn(after), At(t, <<>>), At(<<>>, at))
    PROVE  Starts(after, t) = at
<1> DEFINE a == At(t, <<>>)
           b == At(<<>>, at)
<1>1. t \in Seq(Token) /\ <<>> \in Seq(Token) /\ at \in Seq(Seq(Token)) /\ Len(t) \in Nat /\ Len(<<>>) \in Nat
  BY LenProperties DEF Over
<1>2. Turn(after)[b] = b
  BY <1>1 DEF Turn, At
<1>3. Len(a.rest) \in Nat /\ Len(b.rest) \in Nat
  BY <1>1 DEF At
<1>4. Loop(Turn(after), a) = b
  <2>1. Leads(Turn(after), a, b)
    OBVIOUS
  <2> HIDE DEF a, b
  <2> QED BY <1>2, <1>3, <2>1, LoopEnds
<1> QED BY <1>4 DEF Starts, At

\* What leads to a place in the stream that leads on leads there.
LEMMA LeadsAt ==
    ASSUME NEW turn, NEW t, NEW u, NEW v, NEW a, NEW b, NEW c, Over(t, Token), Over(u, Token), Over(v, Token),
           Leads(turn, At(t, a), At(u, b)), Leads(turn, At(u, b), At(v, c))
    PROVE  Leads(turn, At(t, a), At(v, c))
<1> DEFINE x == At(t, a)
           y == At(u, b)
           z == At(v, c)
<1>1. Len(x.rest) \in Nat /\ Len(y.rest) \in Nat /\ Len(z.rest) \in Nat
  BY LenProperties DEF At, Over
<1> HIDE DEF x, y, z
<1>2. Leads(turn, x, y) /\ Leads(turn, y, z)
  BY DEF x, y, z
<1>3. Leads(turn, x, z)
  BY <1>1, <1>2, LeadsOn
<1> QED BY <1>3 DEF x, z

\* A loop that finds two items.
LEMMA TwoStarts ==
    ASSUME NEW after, NEW t, NEW u, Over(t, Token), Over(u, Token), Over(<<>>, Token),
           after[t] = u, after[u] = <<>>, Len(u) < Len(t), 0 < Len(u)
    PROVE  /\ Len(Starts(after, t)) = 2 /\ DOMAIN Starts(after, t) = 1..2
           /\ Starts(after, t)[1] = t /\ Starts(after, t)[2] = u
<1> DEFINE S == Seq(Token)
           e == <<>>
           one == Append(e, t)
           two == Append(one, u)
<1>1. t \in S /\ u \in S /\ e \in Seq(S) /\ Len(e) = 0
  BY DEF Over
<1> HIDE DEF S
<1>2. one \in Seq(S) /\ Len(one) = 1 /\ one[1] = t
  BY <1>1, AppendProperties
<1> HIDE DEF one, e
<1>3. two \in Seq(S) /\ Len(two) = 2 /\ two[2] = u /\ two[1] = one[1]
  <2>1. /\ two \in Seq(S) /\ Len(two) = Len(one) + 1 /\ two[Len(one) + 1] = u
        /\ \A i \in 1..Len(one) : two[i] = one[i]
    <3>1. one \in Seq(S) /\ u \in S
      BY <1>1, <1>2
    <3> QED BY <3>1, AppendProperties
  <2>2. 1 \in 1..Len(one)
    BY <1>2
  <2> QED BY <1>2, <2>1, <2>2
<1> HIDE DEF two
<1>4. Over(e, Seq(Token)) /\ Over(one, Seq(Token)) /\ Over(two, Seq(Token)) /\ Over(e, Token)
  <2>1. Over(e, Token)
    BY DEF e
  <2> QED BY <1>1, <1>2, <1>3, <2>1 DEF S, Over
<1>5. Leads(Turn(after), At(t, e), At(u, one))
  <2>1. Leads(Turn(after), At(t, e), At(u, Append(e, t)))
    BY <1>4, TurnOnce
  <2> QED BY <2>1 DEF one
<1>6. Leads(Turn(after), At(u, one), At(e, two))
  <2>1. Len(e) < Len(u) /\ after[u] = e
    BY <1>1 DEF e
  <2>2. Leads(Turn(after), At(u, one), At(e, Append(one, u)))
    BY <1>4, <2>1, TurnOnce
  <2> QED BY <2>2 DEF two
<1>7. Leads(Turn(after), At(t, e), At(e, two))
  BY <1>4, <1>5, <1>6, LeadsAt
<1>8. Starts(after, t) = two
  <2>1. Leads(Turn(after), At(t, <<>>), At(<<>>, two))
    BY <1>7 DEF e
  <2> QED BY <1>4, <2>1, TurnsEnd
<1>9. DOMAIN two = 1..2
  BY <1>3
<1> QED BY <1>1, <1>2, <1>3, <1>8, <1>9

\* A function on 1..2 is a pair.
LEMMA TwoIs == ASSUME NEW f, NEW a, NEW b, f = [i \in 1..2 |-> f[i]], f[1] = a, f[2] = b PROVE f = <<a, b>>
<1> DEFINE S == {a, b}
           g == <<a, b>>
<1>1. g \in Seq(S) /\ Len(g) = 2 /\ g[1] = a /\ g[2] = b
  OBVIOUS
<1>2. \A i \in 1..2 : i = 1 \/ i = 2
  OBVIOUS
<1>3. f \in Seq(S) /\ Len(f) = 2
  <2>1. \A i \in 1..2 : f[i] \in S
    BY <1>2
  <2> HIDE DEF S
  <2>2. [i \in 1..2 |-> f[i]] \in Seq(S) /\ Len([i \in 1..2 |-> f[i]]) = 2
    BY <2>1
  <2> QED BY <2>2
<1>4. \A i \in 1..2 : f[i] = g[i]
  BY <1>1, <1>2
<1> HIDE DEF g, S
<1>5. f = g
  BY <1>1, <1>3, <1>4, SeqEqual
<1> QED BY <1>5 DEF g

-----------------------------------------------------------------------------
(* Zones, access points and objects.                                       *)

\* The rest of a stream, one token on.
LEMMA RestTail ==
    ASSUME NEW t \in Seq(Token), NEW n \in 1..Len(t)
    PROVE  Rest(t, n + 1) = Tail(Rest(t, n))
<1>1. Len(t) \in Nat /\ n \in Nat
  BY LenProperties
<1>2. Rest(t, n) = [i \in 1..(Len(t) - n + 1) |-> t[i + n - 1]]
      /\ Rest(t, n) \in Seq(Token) /\ Len(Rest(t, n)) = Len(t) - n + 1
  BY <1>1 DEF Rest
<1>3. Rest(t, n + 1) \in Seq(Token) /\ Len(Rest(t, n + 1)) = Len(t) - n
      /\ \A i \in 1..(Len(t) - n) : Rest(t, n + 1)[i] = t[i + n]
  BY <1>1 DEF Rest
<1> DEFINE u == Rest(t, n)
           v == Rest(t, n + 1)
<1>4. u # <<>>
  <2>1. u \in Seq(Token) /\ Len(u) = Len(t) - n + 1
    BY <1>2
  <2> HIDE DEF u
  <2> QED BY <1>1, <2>1
<1>5. \A i \in 1..Len(u) : u[i] = t[i + n - 1]
  BY <1>1, <1>2
<1> HIDE DEF u, v
<1>6. Tail(u) \in Seq(Token) /\ Len(Tail(u)) = Len(u) - 1 /\ \A i \in 1..Len(Tail(u)) : Tail(u)[i] = u[i + 1]
  <2>1. u \in Seq(Token) /\ u # <<>>
    BY <1>2, <1>4 DEF u
  <2> QED BY <2>1, HeadTailProperties
<1>7. \A i \in 1..(Len(t) - n) : Tail(u)[i] = v[i]
  <2> SUFFICES ASSUME NEW i \in 1..(Len(t) - n) PROVE Tail(u)[i] = v[i]
    OBVIOUS
  <2>1. Len(u) = Len(t) - n + 1
    BY <1>2 DEF u
  <2>2. i \in 1..Len(Tail(u)) /\ i + 1 \in 1..Len(u) /\ i + 1 + n - 1 = i + n
    BY <1>1, <1>6, <2>1
  <2>3. Tail(u)[i] = t[i + n]
    BY <1>5, <1>6, <2>2
  <2> QED BY <1>3, <2>3 DEF v
<1>8. Len(Tail(u)) = Len(v) /\ v \in Seq(Token) /\ Len(v) = Len(t) - n
  BY <1>1, <1>2, <1>3, <1>6 DEF u, v
<1>9. Tail(u) = v
  BY <1>6, <1>7, <1>8, SeqEqual
<1> QED BY <1>9 DEF u, v

\* A comma, and r after it.
CommaAnd(r) == Cat(<<Comma>>, r)

\* A comma before a stream.
LEMMA CommaAndIs ==
    \A r : Over(r, Token) => /\ Over(CommaAnd(r), Token) /\ Len(CommaAnd(r)) = Len(r) + 1
                             /\ AtComma(CommaAnd(r)) /\ Tail(CommaAnd(r)) = r
  BY CommaIs DEF CommaAnd

\* Stream t is zone n, named x, and r after it.
ZoneStream(t, n, x, r) ==
    /\ Over(t, Token) /\ Over(r, Token) /\ Len(r) \in Nat /\ Len(t) = 4 + Len(r)
    /\ AtZone(t) /\ Number(t, 2) = n /\ t[4].value = x /\ Rest(t, 5) = r

\* A stream that starts with a zone.
LEMMA ZoneIs ==
    ASSUME NEW n \in Numbers, NEW x, String(x) \in Token, NEW r, Over(r, Token)
    PROVE  ZoneStream(Cat(ZoneTokens(n, x), r), n, x, r) /\ Over(ZoneTokens(n, x), Token)
<1> DEFINE s == String(x)
           z == ZoneTokens(n, x)
           t == Cat(z, r)
<1>1. z \in Seq(Token) /\ Len(z) = 4 /\ z[1] = Kw("ID") /\ z[2] = Num(n) /\ z[3] = Kw("NAME") /\ z[4] = s
  <2>1. Kw("ID") \in Token /\ Kw("NAME") \in Token /\ Num(n) \in Token
    BY Tokens
  <2> HIDE DEF s
  <2>2. <<Kw("ID"), Num(n), Kw("NAME"), s>> \in Seq(Token)
    BY <2>1 DEF s
  <2>3. z = <<Kw("ID"), Num(n), Kw("NAME"), s>>
    BY DEF ZoneTokens, s
  <2> QED BY <2>2, <2>3
<1> HIDE DEF z
<1>2. /\ Len(r) \in Nat /\ Len(t) = 4 + Len(r) /\ t \in Seq(Token)
      /\ t[1] = Kw("ID") /\ t[2] = Num(n) /\ t[3] = Kw("NAME") /\ t[4] = String(x) /\ Rest(t, 5) = r
  <2>1. Over(z, Token)
    BY <1>1 DEF Over
  <2>2. /\ Len(r) \in Nat /\ Len(t) = Len(z) + Len(r) /\ t \in Seq(Token)
        /\ \A i \in 1..Len(z) : t[i] = z[i]
        /\ Rest(t, Len(z) + 1) = r
    BY <2>1, CatIs
  <2> HIDE DEF t
  <2>3. 1 \in 1..Len(z) /\ 2 \in 1..Len(z) /\ 3 \in 1..Len(z) /\ 4 \in 1..Len(z) /\ Len(z) + 1 = 5
    BY <1>1
  <2> QED BY <1>1, <2>2, <2>3
<1> HIDE DEF t
<1>3. Is(t, 1, "ID") /\ Is(t, 3, "NAME") /\ HasNumber(t, 2) /\ Number(t, 2) = n /\ HasValue(t, 4) /\ t[4].value = x
  <2>1. 1 <= Len(t) /\ 2 <= Len(t) /\ 3 <= Len(t) /\ 4 <= Len(t)
    BY <1>2
  <2>2. Is(t, 1, "ID") /\ Is(t, 3, "NAME")
    BY <1>2, <2>1, WordAt
  <2>3. HasNumber(t, 2) /\ Number(t, 2) = n
    BY <1>2, <2>1, NumberAt
  <2>4. HasValue(t, 4) /\ t[4].value = x
    BY <1>2, <2>1, StringAt
  <2> QED BY <2>2, <2>3, <2>4
<1> QED BY <1>1, <1>2, <1>3 DEF AtZone, Over, ZoneStream, t, z

\* Zones arrive with the names they have (parse_zoneinfo).
LEMMA ZonesParsed ==
    ASSUME NEW x, NEW q, Carries(q, x)
    PROVE  parse_zoneinfo(Read(Zones(q))) = <<[id |-> 1, name |-> x], [id |-> 2, name |-> x]>>
<1> DEFINE e == <<>>
           one == 1
           two == 2
           u == Cat(ZoneTokens(two, x), e)
           v == CommaAnd(u)
           t == Cat(ZoneTokens(one, x), v)
<1>1. String(x) \in Token /\ one \in Numbers /\ two \in Numbers /\ Over(e, Token) /\ Len(e) = 0
  BY Tokens DEF Carries, Over
<1>2. Read(Zones(q)) = t
  <2>1. ZoneTokens(2, x) \in Seq(Token)
    <3> HIDE DEF two, e
    <3>1. Over(ZoneTokens(two, x), Token)
      BY <1>1, ZoneIs
    <3> QED BY <3>1 DEF Over, two
  <2>2. u = ZoneTokens(2, x)
    BY <2>1, ConcatEmptySeq DEF Cat
  <2> HIDE DEF u
  <2> QED BY <2>2, ZonesRead DEF CommaAnd, Cat
<1> HIDE DEF e, one, two
<1>3. ZoneStream(u, two, x, e)
  BY <1>1, ZoneIs
<1> HIDE DEF u
<1>4. Over(u, Token) /\ Len(u) = 4
  BY <1>1, <1>3 DEF ZoneStream
<1>5. Over(v, Token) /\ AtComma(v) /\ Tail(v) = u /\ Len(v) = 5
  <2>1. Over(v, Token) /\ AtComma(v) /\ Tail(v) = u /\ Len(v) = Len(u) + 1
    BY <1>4, CommaAndIs, Zenon
  <2> QED BY <1>4, <2>1
<1> HIDE DEF v
<1>6. ZoneStream(t, one, x, v)
  BY <1>1, <1>5, ZoneIs
<1> HIDE DEF t
<1>7. Over(t, Token) /\ Len(t) = 9 /\ t \in Seq(Token) /\ u \in Seq(Token)
  BY <1>4, <1>5, <1>6 DEF ZoneStream, Over
<1>8. AfterZone[t] = u
  <2>1. Rest(t, 6) = Tail(Rest(t, 5))
    <3>1. 5 \in 1..Len(t)
      BY <1>7
    <3>2. Rest(t, 5 + 1) = Tail(Rest(t, 5))
      BY <1>7, <3>1, RestTail
    <3> QED BY <3>2
  <2>2. Rest(t, 5) = v /\ AtZone(t)
    BY <1>6 DEF ZoneStream
  <2>3. AfterZone[t] = IF AtZone(t) /\ AtComma(Rest(t, 5)) THEN Rest(t, 6) ELSE <<>>
    BY <1>7 DEF AfterZone
  <2>4. AfterZone[t] = Rest(t, 6)
    BY <1>5, <2>2, <2>3
  <2> QED BY <1>5, <2>1, <2>2, <2>4
<1>9. AfterZone[u] = <<>>
  <2>1. ~AtComma(Rest(u, 5))
    <3>1. ~AtComma(e)
      BY DEF AtComma, e
    <3> QED BY <1>3, <3>1 DEF ZoneStream
  <2> QED BY <1>7, <2>1 DEF AfterZone
<1> DEFINE at == Starts(AfterZone, t)
<1>10. DOMAIN at = 1..2 /\ at[1] = t /\ at[2] = u
  <2>1. Over(<<>>, Token) /\ Len(u) < Len(t) /\ 0 < Len(u)
    BY <1>1, <1>4, <1>7 DEF e
  <2>2. Over(t, Token) /\ Over(u, Token) /\ AfterZone[t] = u /\ AfterZone[u] = <<>>
    BY <1>4, <1>7, <1>8, <1>9
  <2> HIDE DEF at
  <2>3. /\ Len(Starts(AfterZone, t)) = 2 /\ DOMAIN Starts(AfterZone, t) = 1..2
        /\ Starts(AfterZone, t)[1] = t /\ Starts(AfterZone, t)[2] = u
    BY <2>1, <2>2, TwoStarts
  <2> QED BY <2>3 DEF at
<1> DEFINE f == [i \in DOMAIN at |->
                   IF AtZone(at[i]) THEN [id |-> Number(at[i], 2), name |-> at[i][4].value] ELSE Fails]
           g == parse_zoneinfo(t)
           a == [id |-> 1, name |-> x]
           b == [id |-> 2, name |-> x]
<1>11. g = f
  BY DEF parse_zoneinfo
<1> HIDE DEF at
<1>12. AtZone(t) /\ Number(t, 2) = 1 /\ t[4].value = x /\ AtZone(u) /\ Number(u, 2) = 2 /\ u[4].value = x
  BY <1>3, <1>6 DEF ZoneStream, one, two
<1>13. f = [i \in 1..2 |-> f[i]] /\ f[1] = a /\ f[2] = b
  BY <1>10, <1>12
<1> HIDE DEF f, g, a, b
<1>14. f = <<a, b>>
  BY <1>13, TwoIs
<1> QED BY <1>2, <1>11, <1>14 DEF a, b, g

\* The tokens of an access point, one by one.
LEMMA ApTokensAre ==
    ASSUME NEW x, String(x) \in Token
    PROVE  LET z == ApTokens(x) IN
           /\ z \in Seq(Token) /\ Len(z) = 10
           /\ z[1] = Kw("ID") /\ z[2] = Num(1) /\ z[3] = Kw("NAME") /\ z[4] = String(x)
           /\ z[5] = Kw("ZONEA") /\ z[6] = Num(1) /\ z[7] = Kw("ZONEB") /\ z[8] = Num(2)
           /\ z[9] = Kw("STATE") /\ z[10] = Kw("ONLINE_LOCKED")
<1> DEFINE s == String(x)
           k1 == Kw("ID")
           k2 == Num(1)
           k3 == Kw("NAME")
           k5 == Kw("ZONEA")
           k7 == Kw("ZONEB")
           k8 == Num(2)
           k9 == Kw("STATE")
           k10 == Kw("ONLINE_LOCKED")
<1>1. k1 \in Token /\ k2 \in Token /\ k3 \in Token /\ k5 \in Token /\ k7 \in Token /\ k8 \in Token /\ k9 \in Token
      /\ k10 \in Token /\ s \in Token
  BY Tokens
<1>2. ApTokens(x) = <<k1, k2, k3, s, k5, k2, k7, k8, k9, k10>>
  BY DEF ApTokens
<1> HIDE DEF s, k1, k2, k3, k5, k7, k8, k9, k10
<1> DEFINE z == <<k1, k2, k3, s, k5, k2, k7, k8, k9, k10>>
<1>3. /\ z \in Seq(Token) /\ Len(z) = 10
      /\ z[1] = k1 /\ z[2] = k2 /\ z[3] = k3 /\ z[4] = s /\ z[5] = k5 /\ z[6] = k2 /\ z[7] = k7 /\ z[8] = k8
      /\ z[9] = k9 /\ z[10] = k10
  BY <1>1
<1> HIDE DEF z
<1>4. ApTokens(x) = z
  BY <1>2 DEF z
<1> QED BY <1>3, <1>4 DEF s, k1, k2, k3, k5, k7, k8, k9, k10

\* What an answer to GETAPINFO has, whatever comes after its state.
ApStream(t, x) ==
    /\ Is(t, 1, "ID") /\ HasNumber(t, 2) /\ Is(t, 3, "NAME") /\ HasValue(t, 4)
    /\ Is(t, 5, "ZONEA") /\ HasNumber(t, 6) /\ Is(t, 7, "ZONEB") /\ HasNumber(t, 8)
    /\ Is(t, 9, "STATE") /\ Is(t, 10, "ONLINE_LOCKED")
    /\ Number(t, 2) = 1 /\ t[4].value = x /\ Number(t, 6) = 1 /\ Number(t, 8) = 2
    /\ Head(t[10].value) = "ONLINE_LOCKED"

\* A stream that starts with an access point.
LEMMA ApIs ==
    ASSUME NEW x, String(x) \in Token, NEW r, Over(r, Token)
    PROVE  LET t == Cat(ApTokens(x), r) IN
           /\ ApStream(t, x) /\ Len(r) \in Nat /\ Len(t) = 10 + Len(r)
           /\ \A i \in 1..Len(r) : t[10 + i] = r[i]
<1> DEFINE z == ApTokens(x)
           t == Cat(z, r)
<1>1. /\ z \in Seq(Token) /\ Len(z) = 10
      /\ z[1] = Kw("ID") /\ z[2] = Num(1) /\ z[3] = Kw("NAME") /\ z[4] = String(x)
      /\ z[5] = Kw("ZONEA") /\ z[6] = Num(1) /\ z[7] = Kw("ZONEB") /\ z[8] = Num(2)
      /\ z[9] = Kw("STATE") /\ z[10] = Kw("ONLINE_LOCKED")
  BY ApTokensAre
<1> HIDE DEF z
<1>2. /\ Len(r) \in Nat /\ Len(t) = Len(z) + Len(r)
      /\ \A i \in 1..Len(z) : t[i] = z[i]
      /\ \A i \in 1..Len(r) : t[Len(z) + i] = r[i]
  <2>1. Over(z, Token)
    BY <1>1 DEF Over
  <2> QED BY <2>1, CatIs
<1> HIDE DEF t
<1>3. \A i \in 1..10 : i <= Len(t) /\ t[i] = z[i]
  BY <1>1, <1>2
<1>4. /\ t[1] = Kw("ID") /\ t[2] = Num(1) /\ t[3] = Kw("NAME") /\ t[4] = String(x)
      /\ t[5] = Kw("ZONEA") /\ t[6] = Num(1) /\ t[7] = Kw("ZONEB") /\ t[8] = Num(2)
      /\ t[9] = Kw("STATE") /\ t[10] = Kw("ONLINE_LOCKED")
      /\ 1 <= Len(t) /\ 2 <= Len(t) /\ 3 <= Len(t) /\ 4 <= Len(t) /\ 5 <= Len(t) /\ 6 <= Len(t) /\ 7 <= Len(t)
      /\ 8 <= Len(t) /\ 9 <= Len(t) /\ 10 <= Len(t)
  <2>1. 1 \in 1..10 /\ 2 \in 1..10 /\ 3 \in 1..10 /\ 4 \in 1..10 /\ 5 \in 1..10 /\ 6 \in 1..10 /\ 7 \in 1..10
        /\ 8 \in 1..10 /\ 9 \in 1..10 /\ 10 \in 1..10
    OBVIOUS
  <2> QED BY <1>1, <1>3, <2>1
<1>5. Is(t, 1, "ID") /\ Is(t, 3, "NAME") /\ Is(t, 5, "ZONEA") /\ Is(t, 7, "ZONEB") /\ Is(t, 9, "STATE")
      /\ Is(t, 10, "ONLINE_LOCKED") /\ Head(t[10].value) = "ONLINE_LOCKED"
  BY <1>4, WordAt
<1>6. HasValue(t, 4) /\ t[4].value = x
  BY <1>4, StringAt
<1>7. HasNumber(t, 2) /\ HasNumber(t, 6) /\ HasNumber(t, 8) /\ Number(t, 2) = 1 /\ Number(t, 6) = 1 /\ Number(t, 8) = 2
  <2>1. 1 \in Numbers /\ 2 \in Numbers
    BY Tokens
  <2> QED BY <1>4, <2>1, NumberAt
<1>8. \A i \in 1..Len(r) : t[10 + i] = r[i]
  BY <1>1, <1>2
<1>9. Len(t) = 10 + Len(r)
  BY <1>1, <1>2
<1> QED BY <1>2, <1>5, <1>6, <1>7, <1>8, <1>9 DEF ApStream, t, z

ApRecord(x, open) ==
    [id |-> 1, name |-> x, zone_a |-> 1, zone_b |-> 2, state |-> "ONLINE_LOCKED", open |-> open]

\* An access point arrives with the name and the states it has (parse_apinfo).
LEMMA ApInfoParsed ==
    ASSUME NEW x, NEW q, Carries(q, x)
    PROVE  /\ parse_apinfo(Read(ApInfo(q, <<>>))) = ApRecord(x, "UNKNOWN")
           /\ parse_apinfo(Read(ApInfo(q, <<<<"CLOSED">>>>))) = ApRecord(x, "CLOSED")
<1>1. String(x) \in Token
  BY DEF Carries
<1>2. ASSUME NEW t, ApStream(t, x), Len(t) > 10 => HasValue(t, 11)
      PROVE  parse_apinfo(t) =
               ApRecord(x, IF \E s \in ApOpenStates : Is(t, 11, s) THEN Head(t[11].value) ELSE "UNKNOWN")
  BY <1>2 DEF ApStream, parse_apinfo, ApStates, ApRecord
<1>3. parse_apinfo(Read(ApInfo(q, <<>>))) = ApRecord(x, "UNKNOWN")
  <2> DEFINE e == <<>>
             t == Cat(ApTokens(x), e)
  <2>1. Read(ApInfo(q, <<>>)) = t
    <3>1. t = ApTokens(x)
      BY ApInfoRead, ConcatEmptySeq DEF Cat
    <3> QED BY <3>1, ApInfoRead
  <2>2. Over(e, Token) /\ Len(e) = 0
    BY DEF Over
  <2> HIDE DEF e
  <2>3. ApStream(t, x) /\ Len(t) = 10
    <3>1. ApStream(t, x) /\ Len(t) = 10 + Len(e)
      BY <1>1, <2>2, ApIs
    <3> QED BY <2>2, <3>1
  <2> HIDE DEF t
  <2>4. \A s : ~Is(t, 11, s)
    BY <2>3 DEF Is, HasValue
  <2>5. parse_apinfo(t) = ApRecord(x, "UNKNOWN")
    BY <1>2, <2>3, <2>4
  <2> QED BY <2>1, <2>5
<1>4. parse_apinfo(Read(ApInfo(q, <<<<"CLOSED">>>>))) = ApRecord(x, "CLOSED")
  <2> DEFINE k == Kw("CLOSED")
             e == <<k>>
             t == Cat(ApTokens(x), e)
  <2>1. Read(ApInfo(q, <<<<"CLOSED">>>>)) = t
    BY ApInfoRead DEF Cat
  <2>2. k \in Token
    BY Tokens
  <2> HIDE DEF k
  <2>3. Over(e, Token) /\ Len(e) = 1 /\ e[1] = k /\ 1 \in 1..Len(e)
    BY <2>2 DEF Over
  <2> HIDE DEF e
  <2>4. ApStream(t, x) /\ Len(t) = 10 + Len(e) /\ \A i \in 1..Len(e) : t[10 + i] = e[i]
    BY <1>1, <2>3, ApIs
  <2> HIDE DEF t
  <2>5. Len(t) = 11 /\ t[11] = k
    <3>1. t[10 + 1] = e[1]
      BY <2>3, <2>4
    <3> QED BY <2>3, <2>4, <3>1
  <2>6. HasValue(t, 11) /\ Is(t, 11, "CLOSED") /\ Head(t[11].value) = "CLOSED"
    <3>1. 11 <= Len(t) /\ t[11] = Kw("CLOSED")
      BY <2>5 DEF k
    <3> QED BY <3>1, WordAt
  <2>7. \E s \in ApOpenStates : Is(t, 11, s)
    BY <2>6 DEF ApOpenStates
  <2>8. parse_apinfo(t) = ApRecord(x, "CLOSED")
    BY <1>2, <2>4, <2>6, <2>7
  <2> QED BY <2>1, <2>8
<1> QED BY <1>3, <1>4

(* The fields of an object. *)
Got(rest, values, ok) == [rest |-> rest, values |-> values, ok |-> ok]
\* Stream t is a field and r after it.
FieldStream(t, name, x, r) ==
    /\ Over(t, Token) /\ Over(r, Token) /\ Len(r) \in Nat /\ Len(t) = 2 + Len(r)
    /\ t[1].value = <<name>> /\ t[1] # Comma /\ HasValue(t, 2) /\ t[2].value = x /\ Rest(t, 3) = r

\* A stream that starts with a field.
LEMMA FieldIs ==
    ASSUME NEW name \in Keywords, NEW x, String(x) \in Token, NEW r, Over(r, Token)
    PROVE  FieldStream(Cat(FieldTokens(name, x), r), name, x, r) /\ Over(FieldTokens(name, x), Token)
<1> DEFINE k == Kw(name)
           s == String(x)
           z == FieldTokens(name, x)
           t == Cat(z, r)
<1>1. z \in Seq(Token) /\ Len(z) = 2 /\ z[1] = k /\ z[2] = s
  <2>1. k \in Token /\ s \in Token
    BY Tokens
  <2>2. z = <<k, s>>
    BY DEF FieldTokens
  <2> HIDE DEF k, s, z
  <2> QED BY <2>1, <2>2
<1> HIDE DEF z, k, s
<1>2. /\ Len(r) \in Nat /\ Len(t) = 2 + Len(r) /\ t \in Seq(Token)
      /\ t[1] = k /\ t[2] = s /\ Rest(t, 3) = r /\ Over(z, Token)
  <2>1. Over(z, Token)
    BY <1>1 DEF Over
  <2>2. /\ Len(r) \in Nat /\ Len(t) = Len(z) + Len(r) /\ t \in Seq(Token)
        /\ \A i \in 1..Len(z) : t[i] = z[i]
        /\ Rest(t, Len(z) + 1) = r
    BY <2>1, CatIs
  <2> HIDE DEF t
  <2>3. 1 \in 1..Len(z) /\ 2 \in 1..Len(z) /\ Len(z) + 1 = 3
    BY <1>1
  <2> QED BY <1>1, <2>1, <2>2, <2>3
<1> HIDE DEF t
<1>3. t[1].value = <<name>> /\ t[1].type = "word"
  <2>1. 1 <= Len(t) /\ t[1] = Kw(name)
    BY <1>2 DEF k
  <2> QED BY <2>1, WordAt
<1>4. t[1] # Comma
  <2>1. Comma.type = "comma"
    BY DEF Comma
  <2> QED BY <1>3, <2>1
<1>5. HasValue(t, 2) /\ t[2].value = x
  BY <1>2, StringAt DEF s
<1>6. Over(t, Token)
  BY <1>2 DEF Over
<1> QED BY <1>2, <1>3, <1>4, <1>5, <1>6 DEF FieldStream, t, z

\* The fields an object has.
LEMMA FilledIs ==
    \A names, x : x \in Text => /\ Filled(names, x) \in [FieldNames -> {None} \cup Text]
                                /\ \A f \in FieldNames : Filled(names, x)[f] = IF f \in names THEN x ELSE None
  BY DEF Filled

\* A turn of the loop over the fields adds one.
LEMMA FieldOnce ==
    ASSUME NEW name, NEW x \in Text, NEW t, NEW r, FieldStream(t, name, x, r), NEW names, NEW more,
           more = names \cup {name}
    PROVE  Leads(Field, Got(t, Filled(names, x), TRUE), Got(r, Filled(more, x), TRUE))
<1> DEFINE v == Filled(names, x)
           w == Filled(more, x)
           a == Got(t, v, TRUE)
           b == Got(r, w, TRUE)
<1>1. /\ t \in Seq(Token) /\ r \in Seq(Token) /\ Len(r) \in Nat /\ Len(t) = 2 + Len(r)
      /\ t[1].value = <<name>> /\ t[1] # Comma /\ HasValue(t, 2) /\ t[2].value = x /\ Rest(t, 3) = r
  BY DEF FieldStream, Over
<1>2. v \in [FieldNames -> {None} \cup Text]
  BY FilledIs
<1>3. t # <<>> /\ Head(t) = t[1] /\ Len(t) # 1
  BY <1>1
<1>4. ~AtComma(t)
  BY <1>1, <1>3 DEF AtComma
<1>5. w = [n \in FieldNames |-> IF t[1].value = <<n>> THEN t[2].value ELSE v[n]]
  <2> SUFFICES ASSUME NEW n \in FieldNames
               PROVE  (IF n \in more THEN x ELSE None) = IF t[1].value = <<n>> THEN t[2].value ELSE v[n]
    BY DEF Filled
  <2>1. t[1].value = <<n>> <=> n = name
    BY <1>1
  <2>2. v[n] = IF n \in names THEN x ELSE None
    BY FilledIs
  <2> HIDE DEF v, w
  <2>3. n \in more <=> n \in names \/ n = name
    OBVIOUS
  <2> QED BY <1>1, <2>1, <2>2, <2>3
<1> HIDE DEF v, w
<1>6. Field[a] = b
  <2>1. a \in [rest : Seq(Token), values : [FieldNames -> {None} \cup Text], ok : BOOLEAN]
    BY <1>1, <1>2 DEF Got
  <2>2. a.rest = t /\ a.values = v
    BY DEF Got
  <2> HIDE DEF a
  <2>3. Field[a] = [rest |-> Rest(t, 3), ok |-> TRUE,
                    values |-> [n \in FieldNames |-> IF t[1].value = <<n>> THEN t[2].value ELSE v[n]]]
    BY <1>1, <1>3, <1>4, <2>1, <2>2 DEF Field
  <2> QED BY <1>1, <1>5, <2>3 DEF Got
<1>7. Len(a.rest) = Len(t) /\ Len(b.rest) = Len(r)
  BY DEF Got
<1> HIDE DEF a, b
<1>8. Len(a.rest) \in Nat /\ Len(Field[a].rest) \in Nat /\ Len(Field[a].rest) < Len(a.rest)
  BY <1>1, <1>6, <1>7
<1>9. Leads(Field, a, Field[a])
  BY <1>8, LeadsOnce
<1> QED BY <1>6, <1>9 DEF a, b, v, w

\* Where the turns lead to a comma or the end, those are the fields.
LEMMA FieldsEnd ==
    ASSUME NEW x \in Text, NEW t, NEW r, Over(t, Token), Over(r, Token), r = <<>> \/ AtComma(r), NEW names,
           Leads(Field, Got(t, Filled({}, x), TRUE), Got(r, Filled(names, x), TRUE))
    PROVE  Fields(t).ok = TRUE /\ Fields(t).rest = r /\ Fields(t).values = Filled(names, x)
<1> DEFINE v == Filled({}, x)
           w == Filled(names, x)
           a == Got(t, v, TRUE)
           b == Got(r, w, TRUE)
<1>1. t \in Seq(Token) /\ r \in Seq(Token) /\ Len(t) \in Nat /\ Len(r) \in Nat
  BY LenProperties DEF Over
<1>2. w \in [FieldNames -> {None} \cup Text]
  BY FilledIs
<1>3. v = [name \in FieldNames |-> None]
  BY DEF Filled
<1>4. Leads(Field, a, b)
  OBVIOUS
<1> HIDE DEF v, w
<1>5. Field[b] = b
  <2>1. b \in [rest : Seq(Token), values : [FieldNames -> {None} \cup Text], ok : BOOLEAN] /\ b.rest = r
    BY <1>1, <1>2 DEF Got
  <2> HIDE DEF b
  <2> QED BY <2>1 DEF Field
<1>6. Len(a.rest) \in Nat /\ Len(b.rest) \in Nat
  BY <1>1 DEF Got
<1>7. Loop(Field, a) = b
  <2> HIDE DEF a, b
  <2> QED BY <1>4, <1>5, <1>6, LoopEnds
<1>8. Fields(t) = b
  BY <1>3, <1>7 DEF Fields, Got
<1> QED BY <1>8 DEF Got, w

\* What leads to a field that leads on leads there.
LEMMA FieldsOn ==
    ASSUME NEW t, NEW u, NEW v, NEW a, NEW b, NEW c, Over(t, Token), Over(u, Token), Over(v, Token),
           Leads(Field, Got(t, a, TRUE), Got(u, b, TRUE)), Leads(Field, Got(u, b, TRUE), Got(v, c, TRUE))
    PROVE  Leads(Field, Got(t, a, TRUE), Got(v, c, TRUE))
<1> DEFINE x == Got(t, a, TRUE)
           y == Got(u, b, TRUE)
           z == Got(v, c, TRUE)
<1>1. Len(x.rest) \in Nat /\ Len(y.rest) \in Nat /\ Len(z.rest) \in Nat
  BY LenProperties DEF Got, Over
<1> HIDE DEF x, y, z
<1>2. Leads(Field, x, y) /\ Leads(Field, y, z)
  BY DEF x, y, z
<1>3. Leads(Field, x, z)
  BY <1>1, <1>2, LeadsOn
<1> QED BY <1>3 DEF x, z

\* Stream t is the start of an object and r after it.
ObjectStream(t, kind, n, r) ==
    /\ Over(t, Token) /\ Over(r, Token) /\ Len(r) \in Nat /\ Len(t) = 3 + Len(r)
    /\ HasValue(t, 1) /\ Head(t[1].value) = kind /\ Is(t, 2, "ID") /\ HasNumber(t, 3) /\ Number(t, 3) = n
    /\ Rest(t, 4) = r

\* A stream that starts with an object.
LEMMA ObjectIs ==
    ASSUME NEW kind \in Keywords, NEW n \in Numbers, NEW r, Over(r, Token)
    PROVE  ObjectStream(Cat(ObjectTokens(kind, n), r), kind, n, r) /\ Over(ObjectTokens(kind, n), Token)
<1> DEFINE k == Kw(kind)
           i == Kw("ID")
           m == Num(n)
           z == ObjectTokens(kind, n)
           t == Cat(z, r)
<1>1. z \in Seq(Token) /\ Len(z) = 3 /\ z[1] = k /\ z[2] = i /\ z[3] = m
  <2>1. k \in Token /\ i \in Token /\ m \in Token
    BY Tokens
  <2>2. z = <<k, i, m>>
    BY DEF ObjectTokens
  <2> HIDE DEF k, i, m, z
  <2> QED BY <2>1, <2>2
<1> HIDE DEF z, k, i, m
<1>2. /\ Len(r) \in Nat /\ Len(t) = 3 + Len(r) /\ t \in Seq(Token)
      /\ t[1] = k /\ t[2] = i /\ t[3] = m /\ Rest(t, 4) = r /\ Over(z, Token)
  <2>1. Over(z, Token)
    BY <1>1 DEF Over
  <2>2. /\ Len(r) \in Nat /\ Len(t) = Len(z) + Len(r) /\ t \in Seq(Token)
        /\ \A j \in 1..Len(z) : t[j] = z[j]
        /\ Rest(t, Len(z) + 1) = r
    BY <2>1, CatIs
  <2> HIDE DEF t
  <2>3. 1 \in 1..Len(z) /\ 2 \in 1..Len(z) /\ 3 \in 1..Len(z) /\ Len(z) + 1 = 4
    BY <1>1
  <2> QED BY <1>1, <2>1, <2>2, <2>3
<1> HIDE DEF t
<1>3. HasValue(t, 1) /\ Head(t[1].value) = kind
  BY <1>2, WordAt DEF k
<1>4. Is(t, 2, "ID")
  <2>1. 2 <= Len(t) /\ t[2] = Kw("ID")
    BY <1>2 DEF i
  <2> QED BY <2>1, WordAt
<1>5. HasNumber(t, 3) /\ Number(t, 3) = n
  BY <1>2, NumberAt DEF m
<1>6. Over(t, Token)
  BY <1>2 DEF Over
<1> QED BY <1>2, <1>3, <1>4, <1>5, <1>6 DEF ObjectStream, t, z

\* An object and its fields, and where the next one starts.
LEMMA ObjectParsed ==
    ASSUME NEW t, NEW kind, NEW n, NEW r, ObjectStream(t, kind, n, r), NEW values, NEW rest,
           Fields(r).ok = TRUE, Fields(r).rest = rest, Fields(r).values = values
    PROVE  /\ t \in Seq(Token) /\ AtObject(t) /\ Head(t[1].value) = kind /\ Number(t, 3) = n
           /\ Fields(Rest(t, 4)).values = values
           /\ AfterObject[t] = IF AtComma(rest) THEN Tail(rest) ELSE <<>>
<1>1. t \in Seq(Token) /\ Rest(t, 4) = r /\ HasValue(t, 1) /\ Is(t, 2, "ID") /\ HasNumber(t, 3)
      /\ Head(t[1].value) = kind /\ Number(t, 3) = n
  BY DEF ObjectStream, Over
<1>2. AtObject(t)
  BY <1>1 DEF AtObject
<1>3. AfterObject[t] = IF AtComma(rest) THEN Tail(rest) ELSE <<>>
  BY <1>1, <1>2 DEF AfterObject
<1> QED BY <1>1, <1>2, <1>3

\* Objects arrive with the fields they have (parse_objectinfo).
LEMMA ObjectsParsed ==
    ASSUME NEW x, NEW q, Carries(q, x)
    PROVE  parse_objectinfo(Read(ObjectInfo(q))) =
             <<[kind |-> "EMP", id |-> 1, fields |-> Filled({"NAME", "POSITION"}, x)],
               [kind |-> "CAR", id |-> 2, fields |-> Filled({"NUMBER"}, x)]>>
<1> DEFINE e == <<>>
           k1 == "EMP"
           k2 == "CAR"
           n1 == "NAME"
           n2 == "POSITION"
           n3 == "NUMBER"
           one == 1
           two == 2
           s0 == {}
           s1 == s0 \cup {n1}
           s2 == s1 \cup {n2}
           s3 == s0 \cup {n3}
           g == Cat(FieldTokens(n3, x), e)
           u == Cat(ObjectTokens(k2, two), g)
           c == CommaAnd(u)
           f2 == Cat(FieldTokens(n2, x), c)
           f1 == Cat(FieldTokens(n1, x), f2)
           t == Cat(ObjectTokens(k1, one), f1)
<1>1. /\ String(x) \in Token /\ x \in Text /\ one \in Numbers /\ two \in Numbers /\ Over(e, Token) /\ Len(e) = 0
      /\ k1 \in Keywords /\ k2 \in Keywords /\ n1 \in Keywords /\ n2 \in Keywords /\ n3 \in Keywords
  BY Tokens DEF Carries, Over
<1>2. s2 = {"NAME", "POSITION"} /\ s3 = {"NUMBER"} /\ s0 = {}
  OBVIOUS
<1>3. ~AtComma(e)
  BY DEF AtComma
<1>4. Read(ObjectInfo(q)) =
             Cat(ObjectTokens(k1, one), Cat(FieldTokens(n1, x), Cat(FieldComma(n2, x),
                 Cat(ObjectTokens(k2, two), FieldTokens(n3, x)))))
  BY ObjectInfoRead
<1> HIDE DEF e, k1, k2, n1, n2, n3, one, two, s0, s1, s2, s3
<1>5. FieldStream(g, n3, x, e) /\ Over(FieldTokens(n3, x), Token)
  BY <1>1, FieldIs
<1>6. g = FieldTokens(n3, x)
  BY <1>5, ConcatEmptySeq DEF Cat, Over, e
<1>7. Over(g, Token)
  BY <1>5 DEF FieldStream
<1> HIDE DEF g
<1>8. ObjectStream(u, k2, two, g) /\ Over(u, Token) /\ 0 < Len(u)
  <2>1. ObjectStream(u, k2, two, g)
    BY <1>1, <1>7, ObjectIs
  <2> HIDE DEF u
  <2> QED BY <2>1 DEF ObjectStream
<1>9. Cat(FieldComma(n2, x), Cat(ObjectTokens(k2, two), FieldTokens(n3, x))) = f2
  <2>1. Over(FieldTokens(n2, x), Token)
    BY <1>1, FieldIs
  <2>2. Over(<<Comma>>, Token)
    BY CommaIs
  <2> DEFINE m == <<Comma>>
  <2> HIDE DEF m, u
  <2>3. Cat(Cat(FieldTokens(n2, x), m), u) = Cat(FieldTokens(n2, x), Cat(m, u))
    BY <1>8, <2>1, <2>2, Cat3 DEF m
  <2>4. FieldComma(n2, x) = Cat(FieldTokens(n2, x), m)
    BY DEF FieldComma, Cat, m
  <2>5. u = Cat(ObjectTokens(k2, two), FieldTokens(n3, x))
    BY <1>6 DEF u
  <2>6. c = Cat(m, u)
    BY DEF CommaAnd, m
  <2> HIDE DEF c
  <2> QED BY <2>3, <2>4, <2>5, <2>6
<1>10. Read(ObjectInfo(q)) = t
  BY <1>4, <1>9
<1> HIDE DEF u
<1>11. Over(c, Token) /\ AtComma(c) /\ Tail(c) = u /\ Len(c) = Len(u) + 1
  BY <1>8, CommaAndIs, Zenon
<1> HIDE DEF c
<1>12. FieldStream(f2, n2, x, c)
  BY <1>1, <1>11, FieldIs
<1>13. Over(f2, Token) /\ Len(f2) = 2 + Len(c) /\ Len(c) \in Nat
  BY <1>12 DEF FieldStream
<1> HIDE DEF f2
<1>14. FieldStream(f1, n1, x, f2)
  BY <1>1, <1>13, FieldIs
<1>15. Over(f1, Token) /\ Len(f1) = 2 + Len(f2)
  BY <1>14 DEF FieldStream
<1> HIDE DEF f1
<1>16. ObjectStream(t, k1, one, f1)
  BY <1>1, <1>15, ObjectIs
<1> HIDE DEF t
<1>17. Over(t, Token) /\ Len(t) = 3 + Len(f1)
  BY <1>16 DEF ObjectStream
<1>18. Fields(f1).ok = TRUE /\ Fields(f1).rest = c /\ Fields(f1).values = Filled(s2, x)
  <2>1. Leads(Field, Got(f1, Filled(s0, x), TRUE), Got(f2, Filled(s1, x), TRUE))
    BY <1>1, <1>14, FieldOnce DEF s1
  <2>2. Leads(Field, Got(f2, Filled(s1, x), TRUE), Got(c, Filled(s2, x), TRUE))
    BY <1>1, <1>12, FieldOnce DEF s2
  <2>3. Leads(Field, Got(f1, Filled(s0, x), TRUE), Got(c, Filled(s2, x), TRUE))
    BY <1>11, <1>13, <1>15, <2>1, <2>2, FieldsOn
  <2>4. Leads(Field, Got(f1, Filled({}, x), TRUE), Got(c, Filled(s2, x), TRUE))
    BY <1>2, <2>3
  <2> QED BY <1>1, <1>11, <1>15, <2>4, FieldsEnd
<1>19. Fields(g).ok = TRUE /\ Fields(g).rest = e /\ Fields(g).values = Filled(s3, x)
  <2>1. Leads(Field, Got(g, Filled(s0, x), TRUE), Got(e, Filled(s3, x), TRUE))
    BY <1>1, <1>5, FieldOnce DEF s3
  <2>2. Leads(Field, Got(g, Filled({}, x), TRUE), Got(e, Filled(s3, x), TRUE)) /\ e = <<>>
    BY <1>2, <2>1 DEF e
  <2> QED BY <1>1, <1>7, <2>2, FieldsEnd
<1>20. /\ t \in Seq(Token) /\ AtObject(t) /\ Head(t[1].value) = k1 /\ Number(t, 3) = one
       /\ Fields(Rest(t, 4)).values = Filled(s2, x) /\ AfterObject[t] = u
  BY <1>11, <1>16, <1>18, ObjectParsed
<1>21. /\ u \in Seq(Token) /\ AtObject(u) /\ Head(u[1].value) = k2 /\ Number(u, 3) = two
       /\ Fields(Rest(u, 4)).values = Filled(s3, x) /\ AfterObject[u] = <<>>
  BY <1>3, <1>8, <1>19, ObjectParsed
<1> DEFINE at == Starts(AfterObject, t)
           v == [i \in DOMAIN at |->
                   IF AtObject(at[i])
                   THEN [kind |-> Head(at[i][1].value), id |-> Number(at[i], 3),
                         fields |-> Fields(Rest(at[i], 4)).values]
                   ELSE Fails]
           a == [kind |-> k1, id |-> one, fields |-> Filled(s2, x)]
           b == [kind |-> k2, id |-> two, fields |-> Filled(s3, x)]
           w == parse_objectinfo(t)
<1>22. w = v
  BY DEF parse_objectinfo
<1> HIDE DEF at
<1>23. DOMAIN at = 1..2 /\ at[1] = t /\ at[2] = u
  <2>1. Over(<<>>, Token) /\ Len(u) < Len(t) /\ 0 < Len(u)
    <3>1. Len(u) \in Nat
      BY <1>8, LenProperties DEF Over
    <3> QED BY <1>1, <1>8, <1>11, <1>13, <1>15, <1>17, <3>1 DEF e
  <2>2. Over(t, Token) /\ Over(u, Token) /\ AfterObject[t] = u /\ AfterObject[u] = <<>>
    BY <1>8, <1>17, <1>20, <1>21
  <2>3. /\ Len(Starts(AfterObject, t)) = 2 /\ DOMAIN Starts(AfterObject, t) = 1..2
        /\ Starts(AfterObject, t)[1] = t /\ Starts(AfterObject, t)[2] = u
    BY <2>1, <2>2, TwoStarts
  <2> QED BY <2>3 DEF at
<1>24. v = [i \in 1..2 |-> v[i]] /\ v[1] = a /\ v[2] = b
  BY <1>20, <1>21, <1>23
<1> HIDE DEF v, w, a, b
<1>25. v = <<a, b>>
  BY <1>24, TwoIs
<1>26. parse_objectinfo(t) = <<a, b>>
  BY <1>22, <1>25 DEF w
<1> QED BY <1>2, <1>10, <1>26 DEF a, b, k1, k2, one, two

-----------------------------------------------------------------------------
(* An event in the EVENT_CE form.                                          *)

\* A key arrives, and the reader then stands after it (parse_key).
LEMMA KeyParsed ==
    ASSUME NEW key \in Keys \cup {UnknownKey}, NEW r, Over(r, Token)
    PROVE  LET t == Cat(KeyTokens(key), r)
               p == parse_key(t)
           IN  p.ok = TRUE /\ p.key = key /\ p.rest = r /\ Over(t, Token) /\ Over(KeyTokens(key), Token)
<1> DEFINE z == KeyTokens(key)
           t == Cat(z, r)
           p == parse_key(t)
<1>1. Over(z, Token)
  <2>1. Lined(KeyPieces(key), KeyTokens(key))
    BY KeyLined
  <2> QED BY <2>1 DEF Lined, Over
<1> HIDE DEF z
<1>2. /\ Len(r) \in Nat /\ Len(z) \in Nat /\ Len(t) = Len(z) + Len(r) /\ t \in Seq(Token)
      /\ \A i \in 1..Len(z) : t[i] = z[i]
      /\ Rest(t, Len(z) + 1) = r
  BY <1>1, CatIs
<1>3. Over(t, Token)
  BY <1>2 DEF Over
<1> HIDE DEF t
<1>4. CASE key.format = "W26" /\ key.facility \in Numbers /\ key.number \in Numbers
           /\ key = [format |-> "W26", facility |-> key.facility, number |-> key.number]
  <2> DEFINE k == Kw("W26")
             f == key.facility
             n == key.number
             c == Num(f)
             d == Num(n)
  <2>1. Len(z) = 3 /\ z[1] = k /\ z[2] = c /\ z[3] = d
    <3>1. z = <<k, c, d>>
      BY <1>4 DEF z, KeyTokens
    <3> HIDE DEF k, c, d, z
    <3> QED BY <3>1
  <2>2. 1 <= Len(t) /\ 2 <= Len(t) /\ 3 <= Len(t) /\ t[1] = k /\ t[2] = c /\ t[3] = d /\ Rest(t, 4) = r /\ t # <<>>
    <3>1. 1 \in 1..Len(z) /\ 2 \in 1..Len(z) /\ 3 \in 1..Len(z) /\ Len(z) + 1 = 4
      BY <2>1
    <3> HIDE DEF k, c, d
    <3>2. 1 <= Len(t) /\ 2 <= Len(t) /\ 3 <= Len(t) /\ t[1] = k /\ t[2] = c /\ t[3] = d /\ Rest(t, 4) = r
      BY <1>2, <2>1, <3>1
    <3> QED BY <1>2, <3>2
  <2>3. HasValue(t, 1) /\ Is(t, 1, "W26")
    BY <2>2, WordAt
  <2>4. HasNumber(t, 2) /\ Number(t, 2) = f /\ HasNumber(t, 3) /\ Number(t, 3) = n
    BY <1>4, <2>2, NumberAt
  <2>5. HasNumbers(t, 2, 3)
    BY <2>4 DEF HasNumbers
  <2>6. p = [ok |-> TRUE, rest |-> Rest(t, 4),
             key |-> [format |-> "W26", facility |-> Number(t, 2), number |-> Number(t, 3)]]
    BY <2>2, <2>3, <2>5 DEF parse_key
  <2>7. p.ok = TRUE /\ p.key = [format |-> "W26", facility |-> f, number |-> n] /\ p.rest = r
    BY <2>2, <2>4, <2>6
  <2> QED BY <1>1, <1>3, <1>4, <2>7 DEF z, t
<1>5. CASE key.format = "W34" /\ key.hex_value \in Plain /\ key = [format |-> "W34", hex_value |-> key.hex_value]
  <2> DEFINE k == Kw("W34")
             v == key.hex_value
             c == Kw(v)
  <2>1. Len(z) = 2 /\ z[1] = k /\ z[2] = c
    <3>1. z = <<k, c>>
      BY <1>5 DEF z, KeyTokens
    <3> HIDE DEF k, c, z
    <3> QED BY <3>1
  <2>2. 1 <= Len(t) /\ 2 <= Len(t) /\ t[1] = k /\ t[2] = c /\ Rest(t, 3) = r /\ t # <<>>
    <3>1. 1 \in 1..Len(z) /\ 2 \in 1..Len(z) /\ Len(z) + 1 = 3
      BY <2>1
    <3> HIDE DEF k, c
    <3>2. 1 <= Len(t) /\ 2 <= Len(t) /\ t[1] = k /\ t[2] = c /\ Rest(t, 3) = r
      BY <1>2, <2>1, <3>1
    <3> QED BY <1>2, <3>2
  <2>3. HasValue(t, 1) /\ Is(t, 1, "W34") /\ ~Is(t, 1, "W26")
    BY <2>2, WordAt
  <2>4. HasValue(t, 2) /\ Head(t[2].value) = v
    BY <2>2, WordAt
  <2>5. p = [ok |-> TRUE, rest |-> Rest(t, 3), key |-> [format |-> "W34", hex_value |-> Head(t[2].value)]]
    BY <2>2, <2>3, <2>4 DEF parse_key
  <2>6. p.ok = TRUE /\ p.key = [format |-> "W34", hex_value |-> v] /\ p.rest = r
    BY <2>2, <2>4, <2>5
  <2> QED BY <1>1, <1>3, <1>5, <2>6 DEF z, t
<1>6. CASE key.format = "UNKNOWN" /\ key = UnknownKey
  <2> DEFINE k == Kw("UNKNOWN")
  <2>1. Len(z) = 1 /\ z[1] = k
    <3>1. z = <<k>>
      BY <1>6 DEF z, KeyTokens
    <3> HIDE DEF k, z
    <3> QED BY <3>1
  <2>2. 1 <= Len(t) /\ t[1] = k /\ Rest(t, 2) = r /\ t # <<>>
    <3>1. 1 \in 1..Len(z) /\ Len(z) + 1 = 2
      BY <2>1
    <3> HIDE DEF k
    <3>2. 1 <= Len(t) /\ t[1] = k /\ Rest(t, 2) = r
      BY <1>2, <2>1, <3>1
    <3> QED BY <1>2, <3>2
  <2>3. HasValue(t, 1) /\ ~Is(t, 1, "W26") /\ ~Is(t, 1, "W34")
    BY <2>2, WordAt
  <2>4. Tail(t) = r
    <3>1. Rest(t, 2) = Tail(Rest(t, 1)) /\ Rest(t, 1) = t
      <4>1. 1 \in 1..Len(t)
        BY <1>2, <2>2
      <4>2. Rest(t, 1 + 1) = Tail(Rest(t, 1))
        BY <1>2, <4>1, RestTail
      <4>3. Rest(t, 1) = t
        BY <1>2 DEF Rest
      <4> QED BY <4>2, <4>3
    <3> QED BY <2>2, <3>1
  <2>5. p = [ok |-> TRUE, key |-> UnknownKey, rest |-> Tail(t)]
    BY <2>2, <2>3 DEF parse_key
  <2> QED BY <1>1, <1>3, <1>6, <2>4, <2>5 DEF z, t
<1> QED BY <1>4, <1>5, <1>6, KeyIs

LiveEvent(e, name) ==
    [RawEvent(e.time, Point, Object(e.who.object), normalize_direction_code(e.direction), e.who.key)
     EXCEPT !.code = e.kind.code, !.name = name]

TimeToken(e) == String(<<e.time>>)

\* What the parsers find at a timestamp.
LEMMA TimeAt ==
    \A t, i, e : Event(e) /\ i <= Len(t) /\ t[i] = TimeToken(e) => HasTime(t, i) /\ Time(t, i) = e.time
<1> SUFFICES ASSUME NEW t, NEW i, NEW e, Event(e), i <= Len(t), t[i] = TimeToken(e)
             PROVE  HasTime(t, i) /\ Time(t, i) = e.time
  OBVIOUS
<1>1. HasValue(t, i) /\ t[i].value = <<e.time>>
  BY StringAt DEF TimeToken
<1>2. Head(<<e.time>>) = e.time
  OBVIOUS
<1>3. e.time \in Times
  BY DEF Event
<1> QED BY <1>1, <1>2, <1>3 DEF HasTime, Time

\* A timestamp is a piece of a line.
LEMMA TimeTokenIs ==
    ASSUME NEW e, Event(e)
    PROVE  TimeToken(e) \in Token /\ Piece(quote(<<e.time>>), TimeToken(e))
<1> DEFINE x == <<e.time>>
<1>1. x \in Text
  BY EventIs
<1> HIDE DEF x
<1>2. String(x) \in Token /\ Piece(quote(x), String(x))
  BY <1>1, Carried DEF Carries
<1> QED BY <1>2 DEF x, TimeToken

\* The tokens of an EVENT_CE, one by one.
LEMMA CeTokensAre ==
    ASSUME NEW e, Event(e)
    PROVE  LET z == CeTokens(e) IN
           /\ Over(z, Token) /\ Len(z) = 5
           /\ z[1] = TimeToken(e) /\ z[2] = Num(e.kind.code) /\ z[3] = Num(Point) /\ z[4] = Num(e.who.object)
           /\ z[5] = Num(e.direction)
<1> DEFINE k1 == TimeToken(e)
           k2 == Num(e.kind.code)
           k3 == Num(Point)
           k4 == Num(e.who.object)
           k5 == Num(e.direction)
<1>1. k1 \in Token /\ k2 \in Token /\ k3 \in Token /\ k4 \in Token /\ k5 \in Token
  BY EventIs, Tokens, TimeTokenIs
<1>2. CeTokens(e) = <<k1, k2, k3, k4, k5>>
  BY DEF CeTokens, TimeToken
<1> HIDE DEF k1, k2, k3, k4, k5
<1> DEFINE z == <<k1, k2, k3, k4, k5>>
<1>3. z \in Seq(Token) /\ Len(z) = 5 /\ z[1] = k1 /\ z[2] = k2 /\ z[3] = k3 /\ z[4] = k4 /\ z[5] = k5
  BY <1>1
<1> HIDE DEF z
<1>4. CeTokens(e) = z
  BY <1>2 DEF z
<1> QED BY <1>3, <1>4 DEF k1, k2, k3, k4, k5, Over

\* An EVENT_CE arrives, with the name that may follow its key (parse_event_ce).
LEMMA CeParsed ==
    ASSUME NEW e, Event(e), NEW k, Over(k, Token), NEW name,
           name = IF k # <<>> /\ Head(k).type = "string" THEN Head(k).value ELSE None
    PROVE  parse_event_ce(Cat(CeTokens(e), Cat(KeyTokens(e.who.key), k))).event = LiveEvent(e, name)
<1> DEFINE z == CeTokens(e)
           key == e.who.key
           r == Cat(KeyTokens(key), k)
           p == parse_key(r)
           t == Cat(z, r)
<1>1. /\ e.kind.code \in Numbers /\ e.who.object \in Numbers /\ e.direction \in Numbers
      /\ key \in Keys \cup {UnknownKey} /\ Point \in Numbers
  BY EventIs
<1>2. p.ok = TRUE /\ p.key = key /\ p.rest = k /\ Over(r, Token)
  BY <1>1, KeyParsed
<1>3. /\ Over(z, Token) /\ Len(z) = 5
      /\ z[1] = TimeToken(e) /\ z[2] = Num(e.kind.code) /\ z[3] = Num(Point) /\ z[4] = Num(e.who.object)
      /\ z[5] = Num(e.direction)
  BY CeTokensAre
<1> HIDE DEF z, r
<1>4. /\ Len(r) \in Nat /\ Len(t) = Len(z) + Len(r)
      /\ \A i \in 1..Len(z) : t[i] = z[i]
      /\ Rest(t, Len(z) + 1) = r
  <2>1. Over(z, Token) /\ Over(r, Token)
    BY <1>2, <1>3
  <2> QED BY <2>1, CatIs
<1> HIDE DEF t
<1>5. /\ 1 <= Len(t) /\ 2 <= Len(t) /\ 3 <= Len(t) /\ 4 <= Len(t) /\ 5 <= Len(t) /\ Rest(t, 6) = r
      /\ t[1] = TimeToken(e) /\ t[2] = Num(e.kind.code) /\ t[3] = Num(Point) /\ t[4] = Num(e.who.object)
      /\ t[5] = Num(e.direction)
  <2>1. 1 \in 1..Len(z) /\ 2 \in 1..Len(z) /\ 3 \in 1..Len(z) /\ 4 \in 1..Len(z) /\ 5 \in 1..Len(z) /\ Len(z) + 1 = 6
    BY <1>3
  <2> QED BY <1>3, <1>4, <2>1
<1>6. HasTime(t, 1) /\ Time(t, 1) = e.time
  BY <1>5, TimeAt
<1>7. /\ HasNumber(t, 2) /\ Number(t, 2) = e.kind.code /\ HasNumber(t, 3) /\ Number(t, 3) = Point
      /\ HasNumber(t, 4) /\ Number(t, 4) = e.who.object /\ HasNumber(t, 5) /\ Number(t, 5) = e.direction
  BY <1>1, <1>5, NumberAt
<1>8. HasNumbers(t, 2, 5)
  BY <1>7 DEF HasNumbers
<1> DEFINE v == [RawEvent(Time(t, 1), Number(t, 3), Object(Number(t, 4)),
                          normalize_direction_code(Number(t, 5)), p.key)
                 EXCEPT !.code = Number(t, 2),
                        !.name = IF p.rest # <<>> /\ Head(p.rest).type = "string"
                                 THEN Head(p.rest).value ELSE None]
<1>9. parse_event_ce(t) = [ok |-> TRUE, event |-> v]
  <2>1. parse_key(Rest(t, 6)) = p
    BY <1>5
  <2> HIDE DEF p
  <2> QED BY <1>2, <1>6, <1>8, <2>1 DEF parse_event_ce
<1>10. v = LiveEvent(e, name)
  <2> HIDE DEF p
  <2> QED BY <1>2, <1>6, <1>7 DEF LiveEvent
<1> QED BY <1>9, <1>10 DEF t, r, z

\* What the integration reads of a pushed event, with and without a name.
LEMMA LiveIs ==
    ASSUME NEW e, Event(e)
    PROVE  /\ Live(e, <<>>) = LiveEvent(e, None)
           /\ \A q, x : Carries(q, x) => Live(e, <<q>>) = LiveEvent(e, x)
<1>1. Live(e, <<>>) = LiveEvent(e, None)
  <2> DEFINE k == <<>>
  <2>1. Lined(k, k) /\ Over(k, Token)
    BY LinedEmpty DEF Over
  <2>2. None = IF k # <<>> /\ Head(k).type = "string" THEN Head(k).value ELSE None
    OBVIOUS
  <2>3. Live(e, k) = parse_event_ce(Cat(CeTokens(e), Cat(KeyTokens(e.who.key), k))).event
    <3> HIDE DEF k
    <3> QED BY <2>1, CeRead DEF Live
  <2>4. parse_event_ce(Cat(CeTokens(e), Cat(KeyTokens(e.who.key), k))).event = LiveEvent(e, None)
    <3> HIDE DEF k
    <3> QED BY <2>1, <2>2, CeParsed
  <2> QED BY <2>3, <2>4
<1>2. ASSUME NEW q, NEW x, Carries(q, x) PROVE Live(e, <<q>>) = LiveEvent(e, x)
  <2> DEFINE s == String(x)
             k == <<s>>
             n == <<q>>
  <2>1. s \in Token /\ Piece(q, s)
    BY <1>2 DEF Carries
  <2>2. s.type = "string" /\ s.value = x
    BY DEF String
  <2> HIDE DEF s
  <2>3. Lined(n, k) /\ Over(k, Token) /\ k # <<>> /\ Head(k) = s
    BY <2>1, MatchesOne, LinedMatch DEF Over
  <2> HIDE DEF k, n
  <2>4. Live(e, n) = parse_event_ce(Cat(CeTokens(e), Cat(KeyTokens(e.who.key), k))).event
    BY <2>3, CeRead DEF Live
  <2>5. x = IF k # <<>> /\ Head(k).type = "string" THEN Head(k).value ELSE None
    BY <2>2, <2>3
  <2>6. parse_event_ce(Cat(CeTokens(e), Cat(KeyTokens(e.who.key), k))).event = LiveEvent(e, x)
    BY <2>3, <2>5, CeParsed
  <2> QED BY <2>4, <2>6 DEF n
<1> QED BY <1>1, <1>2

-----------------------------------------------------------------------------
(* An event in the classic form.                                           *)

Documented(e) == e.kind.classic \in Identified \cup Anonymous \cup {"DENY"}

\* The tokens of an event in the classic form.
ClassicTokens(e) ==
    LET kind == Kw(e.kind.classic)
        direction == Kw(Direction(e.direction))
    IN
    IF e.kind.classic \in Anonymous THEN <<TimeToken(e), kind, Num(Point), direction>>
    ELSE IF e.kind.classic = "DENY"
    THEN Cat(<<TimeToken(e), kind, Num(Point), Num(e.who.object), direction, Kw("RULEDENY")>>, KeyTokens(e.who.key))
    ELSE Cat(<<TimeToken(e), kind, Num(Point), Num(e.who.object), direction>>, KeyTokens(e.who.key))

\* A direction is a keyword.
LEMMA DirectionIs ==
    \A e : Direction(e.direction) \in Keywords
  BY Tokens DEF Direction

\* The tokens of an event in the classic form.
LEMMA ClassicReads ==
    ASSUME NEW e, Event(e)
    PROVE  Reads(Classic(e), ClassicTokens(e))
<1> DEFINE c == e.kind.classic
           d == Direction(e.direction)
           o == e.who.object
           q == quote(<<e.time>>)
           k1 == TimeToken(e)
           k2 == Kw(c)
           k3 == Num(Point)
           k4 == Num(o)
           k5 == Kw(d)
           k6 == Kw("RULEDENY")
           ks == KeyPieces(e.who.key)
           tk == KeyTokens(e.who.key)
<1>1. /\ k1 \in Token /\ k2 \in Token /\ k3 \in Token /\ k4 \in Token /\ k5 \in Token /\ k6 \in Token
      /\ Piece(q, k1) /\ Piece(<<c>>, k2) /\ Piece(<<Digits[Point]>>, k3) /\ Piece(<<Digits[o]>>, k4)
      /\ Piece(<<d>>, k5) /\ Piece(<<"RULEDENY">>, k6)
  <2>1. c \in Plain /\ o \in Numbers /\ Point \in Numbers /\ d \in Keywords
    BY EventIs, DirectionIs
  <2>2. k2 \in Token /\ Piece(<<c>>, k2)
    BY <2>1, PieceWord
  <2>3. k3 \in Token /\ Piece(<<Digits[Point]>>, k3) /\ k4 \in Token /\ Piece(<<Digits[o]>>, k4)
    BY <2>1, PieceNumber
  <2>4. k5 \in Token /\ Piece(<<d>>, k5) /\ k6 \in Token /\ Piece(<<"RULEDENY">>, k6)
    BY <2>1, Tokens
  <2> QED BY <2>2, <2>3, <2>4, TimeTokenIs
<1>2. Lined(ks, tk)
  BY EventIs, KeyLined
<1>3. Lined(<<q, <<c>>, <<Digits[Point]>>, <<d>>>>, <<k1, k2, k3, k5>>)
  <2> HIDE DEF q, c, d, k1, k2, k3, k5
  <2> QED BY <1>1, MatchesFour, LinedMatch
<1>4. Lined(<<q, <<c>>, <<Digits[Point]>>, <<Digits[o]>>, <<d>>, <<"RULEDENY">>>>, <<k1, k2, k3, k4, k5, k6>>)
  <2> DEFINE p6 == <<"RULEDENY">>
  <2>1. Piece(p6, k6)
    BY <1>1
  <2> HIDE DEF q, c, d, o, k1, k2, k3, k4, k5, k6, p6
  <2>2. Lined(<<q, <<c>>, <<Digits[Point]>>, <<Digits[o]>>, <<d>>, p6>>, <<k1, k2, k3, k4, k5, k6>>)
    BY <1>1, <2>1, MatchesSix, LinedMatch
  <2> QED BY <2>2 DEF p6
<1>5. Lined(<<q, <<c>>, <<Digits[Point]>>, <<Digits[o]>>, <<d>>>>, <<k1, k2, k3, k4, k5>>)
  <2> HIDE DEF q, c, d, o, k1, k2, k3, k4, k5
  <2> QED BY <1>1, MatchesFive, LinedMatch
<1>6. CASE c \in Anonymous
  <2>1. Classic(e) = Line(<<q, <<c>>, <<Digits[Point]>>, <<d>>>>)
    BY <1>6 DEF Classic
  <2>2. ClassicTokens(e) = <<k1, k2, k3, k5>>
    BY <1>6 DEF ClassicTokens
  <2> QED BY <1>3, <2>1, <2>2 DEF Lined
<1>7. CASE c \notin Anonymous /\ c = "DENY"
  <2> DEFINE ps == <<q, <<c>>, <<Digits[Point]>>, <<Digits[o]>>, <<d>>, <<"RULEDENY">>>>
             ts == <<k1, k2, k3, k4, k5, k6>>
  <2>1. Classic(e) = Line(Cat(ps, ks))
    BY <1>7 DEF Classic, Cat
  <2>2. ClassicTokens(e) = Cat(ts, tk)
    BY <1>7 DEF ClassicTokens
  <2>3. Lined(Cat(ps, ks), Cat(ts, tk))
    <3> HIDE DEF ps, ts, ks, tk
    <3> QED BY <1>2, <1>4, LinedCat DEF ps, ts
  <2> QED BY <2>1, <2>2, <2>3 DEF Lined
<1>8. CASE c \notin Anonymous /\ c # "DENY"
  <2> DEFINE ps == <<q, <<c>>, <<Digits[Point]>>, <<Digits[o]>>, <<d>>>>
             ts == <<k1, k2, k3, k4, k5>>
  <2>1. Classic(e) = Line(Cat(ps, ks))
    BY <1>8 DEF Classic, Cat
  <2>2. ClassicTokens(e) = Cat(ts, tk)
    BY <1>8 DEF ClassicTokens
  <2>3. Lined(Cat(ps, ks), Cat(ts, tk))
    <3> HIDE DEF ps, ts, ks, tk
    <3> QED BY <1>2, <1>5, LinedCat DEF ps, ts
  <2> QED BY <2>1, <2>2, <2>3 DEF Lined
<1> QED BY <1>6, <1>7, <1>8

ClassicEvent(e) ==
    [RawEvent(e.time, Point, Object(e.who.object), normalize_direction_text(Direction(e.direction)), e.who.key)
     EXCEPT !.classic = e.kind.classic, !.reason = IF e.kind.classic = "DENY" THEN "RULEDENY" ELSE None]

\* What is read of an event, and of one that is not documented.
BareEvent(e) == [RawEvent(e.time, None, None, "unknown", UnknownKey) EXCEPT !.classic = e.kind.classic]
ReadEvent(e) == IF Documented(e) THEN ClassicEvent(e) ELSE BareEvent(e)

\* Stream t is event e in the classic form and r after it.
ClassicStream(t, e, r) ==
    LET p == parse_classic_event(t) IN
    /\ Over(t, Token) /\ Over(r, Token) /\ Len(r) < Len(t) /\ Len(t) \in Nat
    /\ p.ok = TRUE /\ p.event = ReadEvent(e)
    /\ IF Documented(e) THEN p.rest = r ELSE ~AtComma(p.rest)

\* The fields of an event; SMT compares records whose fields are listed.
EventWith(time, point, object, code, classic, reason, direction, name, key) ==
    [time |-> time, point |-> point, object |-> object, code |-> code, classic |-> classic, reason |-> reason,
     direction |-> direction, name |-> name, key |-> key]

AsClassic(raw, c) == [raw EXCEPT !.classic = c]
AsDenied(raw, c, r) == [raw EXCEPT !.classic = c, !.reason = r]
AsCe(raw, c, n) == [raw EXCEPT !.code = c, !.name = n]

\* The fields of an event that were set after it was made.
LEMMA RawIs ==
    ASSUME NEW time, NEW point, NEW object, NEW direction, NEW key
    PROVE  /\ \A c : AsClassic(RawEvent(time, point, object, direction, key), c) =
                     EventWith(time, point, object, None, c, None, direction, None, key)
           /\ \A c, r : AsDenied(RawEvent(time, point, object, direction, key), c, r) =
                        EventWith(time, point, object, None, c, r, direction, None, key)
           /\ \A c, n : AsCe(RawEvent(time, point, object, direction, key), c, n) =
                        EventWith(time, point, object, c, None, None, direction, n, key)
<1> DEFINE raw == RawEvent(time, point, object, direction, key)
<1>1. ASSUME NEW c
      PROVE  [raw EXCEPT !.classic = c] = EventWith(time, point, object, None, c, None, direction, None, key)
  BY DEF RawEvent, EventWith
<1>2. ASSUME NEW c, NEW r
      PROVE  [raw EXCEPT !.classic = c, !.reason = r] = EventWith(time, point, object, None, c, r, direction, None, key)
  <2>1. [raw EXCEPT !.classic = c, !.reason = r] = [[raw EXCEPT !.classic = c] EXCEPT !.reason = r]
    BY DEF RawEvent
  <2>2. [EventWith(time, point, object, None, c, None, direction, None, key) EXCEPT !.reason = r] =
        EventWith(time, point, object, None, c, r, direction, None, key)
    BY DEF EventWith
  <2> HIDE DEF raw
  <2> QED BY <1>1, <2>1, <2>2
<1>3. ASSUME NEW c, NEW n
      PROVE  [raw EXCEPT !.code = c, !.name = n] = EventWith(time, point, object, c, None, None, direction, n, key)
  <2>1. [raw EXCEPT !.code = c, !.name = n] = [[raw EXCEPT !.code = c] EXCEPT !.name = n]
    BY DEF RawEvent
  <2>2. [raw EXCEPT !.code = c] = EventWith(time, point, object, c, None, None, direction, None, key)
    BY DEF RawEvent, EventWith
  <2>3. [EventWith(time, point, object, c, None, None, direction, None, key) EXCEPT !.name = n] =
        EventWith(time, point, object, c, None, None, direction, n, key)
    BY DEF EventWith
  <2> HIDE DEF raw
  <2> QED BY <2>1, <2>2, <2>3
<1> QED BY <1>1, <1>2, <1>3 DEF AsClassic, AsDenied, AsCe

\* The events of either form, field by field.
LEMMA EventsAre ==
    ASSUME NEW e
    PROVE  /\ \A n : LiveEvent(e, n) =
                EventWith(e.time, Point, Object(e.who.object), e.kind.code, None, None,
                          normalize_direction_code(e.direction), n, e.who.key)
           /\ BareEvent(e) =
                EventWith(e.time, None, None, None, e.kind.classic, None, "unknown", None, UnknownKey)
           /\ ClassicEvent(e) =
                EventWith(e.time, Point, Object(e.who.object), None, e.kind.classic,
                          IF e.kind.classic = "DENY" THEN "RULEDENY" ELSE None,
                          normalize_direction_text(Direction(e.direction)), None, e.who.key)
<1> DEFINE t == e.time
           o == Object(e.who.object)
           k == e.who.key
           d == normalize_direction_code(e.direction)
           f == normalize_direction_text(Direction(e.direction))
           c == e.kind.code
           l == e.kind.classic
           r == IF e.kind.classic = "DENY" THEN "RULEDENY" ELSE None
<1>1. /\ \A n : LiveEvent(e, n) = AsCe(RawEvent(t, Point, o, d, k), c, n)
      /\ ClassicEvent(e) = AsDenied(RawEvent(t, Point, o, f, k), l, r)
  BY DEF LiveEvent, ClassicEvent, AsCe, AsDenied
<1>3. BareEvent(e) = EventWith(t, None, None, None, l, None, "unknown", None, UnknownKey)
  <2> DEFINE u == "unknown"
  <2>1. BareEvent(e) = AsClassic(RawEvent(t, None, None, u, UnknownKey), l)
    BY DEF BareEvent, AsClassic
  <2> HIDE DEF t, l, u
  <2>2. BareEvent(e) = EventWith(t, None, None, None, l, None, u, None, UnknownKey)
    BY <2>1, RawIs
  <2> QED BY <2>2 DEF u
<1> HIDE DEF t, o, k, d, f, c, l, r
<1>2. /\ \A n : LiveEvent(e, n) = EventWith(t, Point, o, c, None, None, d, n, k)
      /\ ClassicEvent(e) = EventWith(t, Point, o, None, l, r, f, None, k)
  BY <1>1, RawIs
<1> QED BY <1>2, <1>3 DEF t, o, k, d, f, c, l, r

\* An event without an object arrives (parse_classic_event).
LEMMA AnonymousParsed ==
    ASSUME NEW e, Event(e), e.kind.classic \in Anonymous, NEW r, Over(r, Token)
    PROVE  ClassicStream(Cat(ClassicTokens(e), r), e, r) /\ Over(ClassicTokens(e), Token)
<1> DEFINE c == e.kind.classic
           d == Direction(e.direction)
           z == ClassicTokens(e)
           k1 == TimeToken(e)
           k2 == Kw(c)
           k3 == Num(Point)
           k4 == Kw(d)
           t == Cat(z, r)
<1>1. Point \in Numbers /\ c \in Plain /\ d \in Keywords
  BY EventIs, DirectionIs
<1>2. Over(z, Token) /\ Len(z) = 4 /\ z[1] = k1 /\ z[2] = k2 /\ z[3] = k3 /\ z[4] = k4
  <2>1. k1 \in Token /\ k2 \in Token /\ k3 \in Token /\ k4 \in Token
    BY <1>1, TimeTokenIs, PieceWord, Tokens
  <2>2. z = <<k1, k2, k3, k4>>
    BY DEF ClassicTokens
  <2> HIDE DEF z, k1, k2, k3, k4
  <2> QED BY <2>1, <2>2 DEF Over
<1> HIDE DEF z
<1>3. /\ Len(r) \in Nat /\ Len(t) = Len(z) + Len(r) /\ t \in Seq(Token)
      /\ \A i \in 1..Len(z) : t[i] = z[i]
      /\ Rest(t, Len(z) + 1) = r
  <2>1. Over(z, Token)
    BY <1>2
  <2> QED BY <2>1, CatIs
<1> HIDE DEF t
<1>4. /\ 1 <= Len(t) /\ 2 <= Len(t) /\ 3 <= Len(t) /\ 4 <= Len(t) /\ Rest(t, 5) = r
      /\ t[1] = TimeToken(e) /\ t[2] = Kw(c) /\ t[3] = Num(Point) /\ t[4] = Kw(d)
  <2>1. 1 \in 1..Len(z) /\ 2 \in 1..Len(z) /\ 3 \in 1..Len(z) /\ 4 \in 1..Len(z) /\ Len(z) + 1 = 5
    BY <1>2
  <2> QED BY <1>2, <1>3, <2>1
<1>5. HasTime(t, 1) /\ Time(t, 1) = e.time
  BY <1>4, TimeAt
<1>6. HasValue(t, 2) /\ Head(t[2].value) = c /\ HasValue(t, 4) /\ Head(t[4].value) = d
  <2> HIDE DEF c, d
  <2> QED BY <1>4, WordAt
<1>7. HasNumber(t, 3) /\ Number(t, 3) = Point
  BY <1>1, <1>4, NumberAt
<1>8. HasNumbers(t, 3, 3)
  BY <1>7 DEF HasNumbers
<1>9. c \notin Identified /\ c # "DENY" /\ c \in Identified \cup Anonymous
  BY DEF Identified, Anonymous
<1>10. e.who = Nobody
  BY DEF Event
<1>11. e.who.object = 0 /\ e.who.key = UnknownKey
  BY <1>10 DEF Nobody
<1> HIDE DEF c, d
<1> DEFINE p == parse_classic_event(t)
           v == [RawEvent(e.time, Point, None, normalize_direction_text(d), UnknownKey) EXCEPT !.classic = c]
<1>12. p = [ok |-> TRUE, rest |-> r, event |-> v]
  <2>1. 4 - 1 = 3 /\ 4 + 1 = 5 /\ Len(t) >= 4
    BY <1>4
  <2> QED BY <1>4, <1>5, <1>6, <1>7, <1>8, <1>9, <2>1 DEF parse_classic_event
<1>13. v = ClassicEvent(e)
  <2> DEFINE n == normalize_direction_text(d)
             k == e.who.key
  <2>1. ClassicEvent(e) = EventWith(e.time, Point, None, None, c, None, n, None, k) /\ k = UnknownKey
    <3>1. Object(e.who.object) = None
      BY <1>11 DEF Object
    <3>2. (IF e.kind.classic = "DENY" THEN "RULEDENY" ELSE None) = None
      BY <1>9 DEF c
    <3> QED BY <1>11, <3>1, <3>2, EventsAre DEF c, d
  <2>2. v = AsClassic(RawEvent(e.time, Point, None, n, k), c)
    BY <1>11 DEF AsClassic
  <2> HIDE DEF n, k, v
  <2>3. v = EventWith(e.time, Point, None, None, c, None, n, None, k)
    BY <2>2, RawIs
  <2> QED BY <2>1, <2>3
<1>14. Documented(e)
  BY DEF Documented
<1>15. Len(r) < Len(t) /\ Len(t) \in Nat /\ Over(t, Token)
  BY <1>2, <1>3 DEF Over
<1>16. ClassicStream(t, e, r)
  <2>1. p.ok = TRUE /\ p.rest = r /\ p.event = ClassicEvent(e)
    BY <1>12, <1>13
  <2> HIDE DEF p
  <2> QED BY <1>14, <1>15, <2>1 DEF ClassicStream, ReadEvent, p
<1> QED BY <1>2, <1>16 DEF t, z

\* The tokens before the key, for an event with an object.
LEMMA FiveTokens ==
    ASSUME NEW e, Event(e)
    PROVE  LET z == <<TimeToken(e), Kw(e.kind.classic), Num(Point), Num(e.who.object), Kw(Direction(e.direction))>> IN
           /\ Over(z, Token) /\ Len(z) = 5
           /\ z[1] = TimeToken(e) /\ z[2] = Kw(e.kind.classic) /\ z[3] = Num(Point) /\ z[4] = Num(e.who.object)
           /\ z[5] = Kw(Direction(e.direction))
<1> DEFINE c == e.kind.classic
           d == Direction(e.direction)
           o == e.who.object
           k1 == TimeToken(e)
           k2 == Kw(c)
           k3 == Num(Point)
           k4 == Num(o)
           k5 == Kw(d)
           z == <<k1, k2, k3, k4, k5>>
<1>1. k1 \in Token /\ k2 \in Token /\ k3 \in Token /\ k4 \in Token /\ k5 \in Token
  <2>1. c \in Plain /\ o \in Numbers /\ Point \in Numbers /\ d \in Keywords
    BY EventIs, DirectionIs
  <2> HIDE DEF c, o, d
  <2> QED BY <2>1, TimeTokenIs, PieceWord, Tokens
<1> HIDE DEF k1, k2, k3, k4, k5
<1>2. z \in Seq(Token) /\ Len(z) = 5 /\ z[1] = k1 /\ z[2] = k2 /\ z[3] = k3 /\ z[4] = k4 /\ z[5] = k5
  BY <1>1
<1> QED BY <1>2 DEF k1, k2, k3, k4, k5, Over

\* And for one that was denied, which has a reason.
LEMMA SixTokens ==
    ASSUME NEW e, Event(e)
    PROVE  LET z == <<TimeToken(e), Kw(e.kind.classic), Num(Point), Num(e.who.object), Kw(Direction(e.direction)),
                      Kw("RULEDENY")>> IN
           /\ Over(z, Token) /\ Len(z) = 6
           /\ z[1] = TimeToken(e) /\ z[2] = Kw(e.kind.classic) /\ z[3] = Num(Point) /\ z[4] = Num(e.who.object)
           /\ z[5] = Kw(Direction(e.direction)) /\ z[6] = Kw("RULEDENY")
<1> DEFINE c == e.kind.classic
           d == Direction(e.direction)
           o == e.who.object
           k1 == TimeToken(e)
           k2 == Kw(c)
           k3 == Num(Point)
           k4 == Num(o)
           k5 == Kw(d)
           k6 == Kw("RULEDENY")
           z == <<k1, k2, k3, k4, k5, k6>>
<1>1. k1 \in Token /\ k2 \in Token /\ k3 \in Token /\ k4 \in Token /\ k5 \in Token /\ k6 \in Token
  <2>1. c \in Plain /\ o \in Numbers /\ Point \in Numbers /\ d \in Keywords
    BY EventIs, DirectionIs
  <2>2. k6 \in Token
    BY Tokens
  <2> HIDE DEF c, o, d, k6
  <2> QED BY <2>1, <2>2, TimeTokenIs, PieceWord, Tokens
<1> HIDE DEF k1, k2, k3, k4, k5, k6
<1>2. z \in Seq(Token) /\ Len(z) = 6 /\ z[1] = k1 /\ z[2] = k2 /\ z[3] = k3 /\ z[4] = k4 /\ z[5] = k5 /\ z[6] = k6
  BY <1>1
<1> QED BY <1>2 DEF k1, k2, k3, k4, k5, k6, Over

\* Stream t starts with the n tokens of z, which are those of event e before its
\* key, goes on with that key and then with r.
Holder(t, e, z, n, r) ==
    LET p == parse_key(Rest(t, n + 1)) IN
    /\ Over(t, Token) /\ Over(Cat(z, KeyTokens(e.who.key)), Token)
    /\ Len(r) < Len(t) /\ Len(t) \in Nat /\ n <= Len(t) /\ n \in Nat /\ \A i \in 1..n : t[i] = z[i]
    /\ HasTime(t, 1) /\ Time(t, 1) = e.time /\ HasValue(t, 2) /\ Head(t[2].value) = e.kind.classic
    /\ HasNumber(t, 3) /\ Number(t, 3) = Point /\ HasNumber(t, 4) /\ Number(t, 4) = e.who.object
    /\ HasValue(t, 5) /\ Head(t[5].value) = Direction(e.direction)
    /\ p.ok = TRUE /\ p.key = e.who.key /\ p.rest = r

\* The parser finds the fields of an event with an object where they are.
LEMMA HolderStream ==
    ASSUME NEW e, Event(e), NEW r, Over(r, Token), NEW z, Over(z, Token), NEW n, n = 5 \/ n = 6, Len(z) = n,
           z[1] = TimeToken(e), z[2] = Kw(e.kind.classic), z[3] = Num(Point), z[4] = Num(e.who.object),
           z[5] = Kw(Direction(e.direction))
    PROVE  Holder(Cat(Cat(z, KeyTokens(e.who.key)), r), e, z, n, r)
<1> DEFINE key == e.who.key
           tk == KeyTokens(key)
           y == Cat(tk, r)
           t == Cat(z, y)
           s == Cat(Cat(z, tk), r)
<1>1. key \in Keys \cup {UnknownKey} /\ Point \in Numbers /\ e.who.object \in Numbers
  BY EventIs
<1> DEFINE p == parse_key(y)
<1>2. p.ok = TRUE /\ p.key = key /\ p.rest = r /\ Over(y, Token) /\ Over(tk, Token)
  BY <1>1, KeyParsed
<1>3. Len(r) \in Nat /\ Len(y) \in Nat /\ Len(r) <= Len(y)
  <2> HIDE DEF tk
  <2>1. Len(tk) \in Nat /\ Len(r) \in Nat /\ Len(y) = Len(tk) + Len(r)
    BY <1>2, CatIs
  <2> QED BY <2>1
<1> HIDE DEF tk, p
<1>4. s = t /\ Over(Cat(z, tk), Token)
  BY <1>2, Cat3, CatOver
<1> HIDE DEF y
<1>5. /\ Len(t) = Len(z) + Len(y) /\ t \in Seq(Token)
      /\ \A i \in 1..Len(z) : t[i] = z[i]
      /\ Rest(t, Len(z) + 1) = y
  BY <1>2, CatIs
<1> HIDE DEF t
<1>6. n \in Nat /\ n >= 5
  OBVIOUS
<1>7. /\ Len(t) \in Nat /\ Len(r) < Len(t) /\ n <= Len(t) /\ Rest(t, n + 1) = y
      /\ 1 <= Len(t) /\ 2 <= Len(t) /\ 3 <= Len(t) /\ 4 <= Len(t) /\ 5 <= Len(t)
  BY <1>3, <1>5, <1>6
<1>8. \A i \in 1..n : t[i] = z[i]
  BY <1>5
<1>9. /\ t[1] = TimeToken(e) /\ t[2] = Kw(e.kind.classic) /\ t[3] = Num(Point) /\ t[4] = Num(e.who.object)
      /\ t[5] = Kw(Direction(e.direction))
  <2>1. 1 \in 1..n /\ 2 \in 1..n /\ 3 \in 1..n /\ 4 \in 1..n /\ 5 \in 1..n
    BY <1>6
  <2> QED BY <1>8, <2>1
<1>10. HasTime(t, 1) /\ Time(t, 1) = e.time
  BY <1>7, <1>9, TimeAt
<1>11. HasValue(t, 2) /\ Head(t[2].value) = e.kind.classic
       /\ HasValue(t, 5) /\ Head(t[5].value) = Direction(e.direction)
  <2> DEFINE c == e.kind.classic
             d == Direction(e.direction)
  <2> HIDE DEF c, d
  <2>1. 2 <= Len(t) /\ 5 <= Len(t) /\ t[2] = Kw(c) /\ t[5] = Kw(d)
    BY <1>7, <1>9 DEF c, d
  <2>2. HasValue(t, 2) /\ Head(t[2].value) = c
    BY <2>1, WordAt, Zenon
  <2>3. HasValue(t, 5) /\ Head(t[5].value) = d
    <3> DEFINE i == 5
    <3>1. i <= Len(t) /\ t[i] = Kw(d)
      BY <2>1
    <3> HIDE DEF i
    <3>2. HasValue(t, i) /\ Head(t[i].value) = d
      BY <3>1, WordAt, Zenon
    <3> QED BY <3>2 DEF i
  <2> QED BY <2>2, <2>3 DEF c, d
<1>12. HasNumber(t, 3) /\ Number(t, 3) = Point /\ HasNumber(t, 4) /\ Number(t, 4) = e.who.object
  BY <1>1, <1>7, <1>9, NumberAt
<1>13. Over(t, Token)
  BY <1>5 DEF Over
<1>14. parse_key(Rest(t, n + 1)).ok = TRUE /\ parse_key(Rest(t, n + 1)).key = key /\ parse_key(Rest(t, n + 1)).rest = r
  BY <1>2, <1>7 DEF p
<1> HIDE DEF s
<1>15. s = t
  BY <1>4
<1>16. Holder(t, e, z, n, r)
  <2> HIDE DEF key
  <2>1. Over(Cat(z, KeyTokens(e.who.key)), Token) /\ n \in Nat /\ key = e.who.key
    BY <1>4, <1>6 DEF tk, key
  <2> QED BY <1>7, <1>8, <1>10, <1>11, <1>12, <1>13, <1>14, <2>1 DEF Holder
<1> QED BY <1>15, <1>16 DEF s, tk

\* A pass or an opening by an object arrives (parse_classic_event).
LEMMA IdentifiedParsed ==
    ASSUME NEW e, Event(e), e.kind.classic \in Identified, NEW r, Over(r, Token)
    PROVE  ClassicStream(Cat(ClassicTokens(e), r), e, r) /\ Over(ClassicTokens(e), Token)
<1> DEFINE c == e.kind.classic
           d == Direction(e.direction)
           z == <<TimeToken(e), Kw(c), Num(Point), Num(e.who.object), Kw(d)>>
           key == e.who.key
           o == e.who.object
           t == Cat(Cat(z, KeyTokens(key)), r)
           p == parse_key(Rest(t, 6))
<1>1. c \in Identified /\ c \notin Anonymous /\ c # "DENY" /\ c \in Identified \cup Anonymous
  BY DEF Identified, Anonymous
<1>2. ClassicTokens(e) = Cat(z, KeyTokens(key))
  BY <1>1 DEF ClassicTokens
<1>3. /\ Over(z, Token) /\ Len(z) = 5
      /\ z[1] = TimeToken(e) /\ z[2] = Kw(e.kind.classic) /\ z[3] = Num(Point) /\ z[4] = Num(e.who.object)
      /\ z[5] = Kw(Direction(e.direction))
  BY FiveTokens
<1> HIDE DEF z
<1>4. (5 = 5 \/ 5 = 6) /\ 5 + 1 = 6
  OBVIOUS
<1>5. /\ Over(t, Token) /\ Over(Cat(z, KeyTokens(key)), Token)
      /\ Len(r) < Len(t) /\ Len(t) \in Nat /\ 5 <= Len(t)
      /\ HasTime(t, 1) /\ Time(t, 1) = e.time /\ HasValue(t, 2) /\ Head(t[2].value) = c
      /\ HasNumber(t, 3) /\ Number(t, 3) = Point /\ HasNumber(t, 4) /\ Number(t, 4) = o
      /\ HasValue(t, 5) /\ Head(t[5].value) = d
      /\ p.ok = TRUE /\ p.key = key /\ p.rest = r
  <2>1. Holder(Cat(Cat(z, KeyTokens(e.who.key)), r), e, z, 5, r)
    BY <1>3, <1>4, HolderStream
  <2> QED BY <1>4, <2>1 DEF Holder
<1> HIDE DEF t
<1>6. HasNumbers(t, 3, 4)
  BY <1>5 DEF HasNumbers
<1> HIDE DEF c, d, o
<1> DEFINE f == normalize_direction_text(d)
           raw == RawEvent(e.time, Point, Object(o), f, key)
           v == AsClassic(raw, c)
           g == parse_classic_event(t)
<1>7. g = [ok |-> TRUE, rest |-> p.rest,
           event |-> [RawEvent(Time(t, 1), Number(t, 3), Object(Number(t, 4)),
                               normalize_direction_text(Head(t[5].value)), p.key) EXCEPT !.classic = c]]
  <2>1. 5 - 1 = 4 /\ 5 + 1 = 6 /\ Len(t) >= 5
    BY <1>5
  <2>2. parse_key(Rest(t, 6)) = p
    OBVIOUS
  <2> HIDE DEF p
  <2> QED BY <1>1, <1>5, <1>6, <2>1, <2>2 DEF parse_classic_event
<1> HIDE DEF g, p
<1>8. g.ok = TRUE /\ g.rest = r /\ g.event = v
  BY <1>5, <1>7 DEF AsClassic
<1>9. v = ClassicEvent(e)
  <2>1. (IF e.kind.classic = "DENY" THEN "RULEDENY" ELSE None) = None
    BY <1>1 DEF c
  <2>2. ClassicEvent(e) = EventWith(e.time, Point, Object(o), None, c, None, f, None, key)
    BY <2>1, EventsAre DEF c, d, o
  <2> HIDE DEF f
  <2>3. v = EventWith(e.time, Point, Object(o), None, c, None, f, None, key)
    BY RawIs
  <2> QED BY <2>2, <2>3
<1>10. Documented(e)
  BY <1>1 DEF Documented, c
<1>11. ClassicStream(t, e, r)
  BY <1>5, <1>8, <1>9, <1>10 DEF ClassicStream, ReadEvent, g
<1> QED BY <1>2, <1>5, <1>11 DEF t, z

\* A denied pass arrives (parse_classic_event).
LEMMA DeniedParsed ==
    ASSUME NEW e, Event(e), e.kind.classic = "DENY", NEW r, Over(r, Token)
    PROVE  ClassicStream(Cat(ClassicTokens(e), r), e, r) /\ Over(ClassicTokens(e), Token)
<1> DEFINE c == e.kind.classic
           d == Direction(e.direction)
           w == "RULEDENY"
           z == <<TimeToken(e), Kw(c), Num(Point), Num(e.who.object), Kw(d), Kw(w)>>
           key == e.who.key
           o == e.who.object
           t == Cat(Cat(z, KeyTokens(key)), r)
           p == parse_key(Rest(t, 7))
<1>1. c \notin Anonymous /\ c = "DENY"
  BY DEF Anonymous
<1>2. ClassicTokens(e) = Cat(z, KeyTokens(key))
  BY <1>1 DEF ClassicTokens
<1>3. /\ Over(z, Token) /\ Len(z) = 6
      /\ z[1] = TimeToken(e) /\ z[2] = Kw(e.kind.classic) /\ z[3] = Num(Point) /\ z[4] = Num(e.who.object)
      /\ z[5] = Kw(Direction(e.direction)) /\ z[6] = Kw(w)
  BY SixTokens
<1> HIDE DEF z, w
<1>4. (6 = 5 \/ 6 = 6) /\ 6 + 1 = 7 /\ 6 \in 1..6
  OBVIOUS
<1>5. /\ Over(t, Token) /\ Over(Cat(z, KeyTokens(key)), Token)
      /\ Len(r) < Len(t) /\ Len(t) \in Nat /\ 6 <= Len(t) /\ t[6] = z[6]
      /\ HasTime(t, 1) /\ Time(t, 1) = e.time /\ HasValue(t, 2) /\ Head(t[2].value) = c
      /\ HasNumber(t, 3) /\ Number(t, 3) = Point /\ HasNumber(t, 4) /\ Number(t, 4) = o
      /\ HasValue(t, 5) /\ Head(t[5].value) = d
      /\ p.ok = TRUE /\ p.key = key /\ p.rest = r
  <2>1. Holder(Cat(Cat(z, KeyTokens(e.who.key)), r), e, z, 6, r)
    BY <1>3, <1>4, HolderStream
  <2> QED BY <1>4, <2>1 DEF Holder
<1> HIDE DEF t
<1>6. HasNumbers(t, 3, 4) /\ HasValue(t, 6) /\ Head(t[6].value) = w
  <2>1. HasNumbers(t, 3, 4)
    BY <1>5 DEF HasNumbers
  <2>2. 6 <= Len(t) /\ t[6] = Kw(w)
    BY <1>3, <1>5
  <2> QED BY <2>1, <2>2, WordAt
<1> HIDE DEF c, d, o
<1> DEFINE f == normalize_direction_text(d)
           raw == RawEvent(e.time, Point, Object(o), f, key)
           v == AsDenied(raw, c, w)
           g == parse_classic_event(t)
<1>7. g = [ok |-> TRUE, rest |-> p.rest,
           event |-> [RawEvent(Time(t, 1), Number(t, 3), Object(Number(t, 4)),
                               normalize_direction_text(Head(t[5].value)), p.key)
                      EXCEPT !.classic = c, !.reason = Head(t[6].value)]]
  <2>1. parse_key(Rest(t, 7)) = p
    OBVIOUS
  <2> HIDE DEF p
  <2> QED BY <1>1, <1>5, <1>6, <2>1 DEF parse_classic_event
<1> HIDE DEF g, p
<1>8. g.ok = TRUE /\ g.rest = r /\ g.event = v
  BY <1>5, <1>6, <1>7 DEF AsDenied
<1>9. v = ClassicEvent(e)
  <2>1. (IF e.kind.classic = "DENY" THEN "RULEDENY" ELSE None) = w
    BY <1>1 DEF c, w
  <2>2. ClassicEvent(e) = EventWith(e.time, Point, Object(o), None, c, w, f, None, key)
    BY <2>1, EventsAre DEF c, d, o
  <2> HIDE DEF f
  <2>3. v = EventWith(e.time, Point, Object(o), None, c, w, f, None, key)
    BY RawIs
  <2> QED BY <2>2, <2>3
<1>10. Documented(e)
  BY DEF Documented
<1>11. ClassicStream(t, e, r)
  BY <1>5, <1>8, <1>9, <1>10 DEF ClassicStream, ReadEvent, g
<1> QED BY <1>2, <1>5, <1>11 DEF t, z

\* Of an event that is not documented the time and the kind arrive, and the reader does
\* not stand at a comma then (parse_classic_event).
LEMMA UndocumentedParsed ==
    ASSUME NEW e, Event(e), ~Documented(e), NEW r, Over(r, Token)
    PROVE  ClassicStream(Cat(ClassicTokens(e), r), e, r) /\ Over(ClassicTokens(e), Token)
<1> DEFINE c == e.kind.classic
           d == Direction(e.direction)
           z == <<TimeToken(e), Kw(c), Num(Point), Num(e.who.object), Kw(d)>>
           key == e.who.key
           t == Cat(Cat(z, KeyTokens(key)), r)
<1>1. c \notin Anonymous /\ c # "DENY" /\ c \notin Identified \cup Anonymous
  BY DEF Documented
<1>2. ClassicTokens(e) = Cat(z, KeyTokens(key))
  BY <1>1 DEF ClassicTokens
<1>3. /\ Over(z, Token) /\ Len(z) = 5
      /\ z[1] = TimeToken(e) /\ z[2] = Kw(e.kind.classic) /\ z[3] = Num(Point) /\ z[4] = Num(e.who.object)
      /\ z[5] = Kw(Direction(e.direction))
  BY FiveTokens
<1> HIDE DEF z
<1>4. (5 = 5 \/ 5 = 6) /\ 3 \in 1..5
  OBVIOUS
<1>5. /\ Over(t, Token) /\ Over(Cat(z, KeyTokens(key)), Token)
      /\ Len(r) < Len(t) /\ Len(t) \in Nat /\ 5 <= Len(t) /\ t[3] = z[3]
      /\ HasTime(t, 1) /\ Time(t, 1) = e.time /\ HasValue(t, 2) /\ Head(t[2].value) = c
  <2>1. Holder(Cat(Cat(z, KeyTokens(e.who.key)), r), e, z, 5, r)
    BY <1>3, <1>4, HolderStream
  <2> QED BY <1>4, <2>1 DEF Holder
<1> HIDE DEF t
<1> DEFINE g == parse_classic_event(t)
           v == [RawEvent(Time(t, 1), None, None, "unknown", UnknownKey) EXCEPT !.classic = c]
<1>6. g = [ok |-> TRUE, rest |-> Rest(t, 3), event |-> v]
  BY <1>1, <1>5 DEF parse_classic_event
<1> HIDE DEF g, v
<1>7. g.ok = TRUE /\ g.rest = Rest(t, 3) /\ g.event = ReadEvent(e)
  <2>1. v = BareEvent(e)
    BY <1>5 DEF v, c, BareEvent
  <2> QED BY <1>6, <2>1 DEF ReadEvent
<1>8. ~AtComma(Rest(t, 3))
  <2>1. t \in Seq(Token) /\ t[3] = Num(Point) /\ Rest(t, 3) # <<>> /\ Head(Rest(t, 3)) = t[3]
    <3>1. t \in Seq(Token) /\ t[3] = Num(Point)
      BY <1>3, <1>5 DEF Over
    <3>2. Rest(t, 3) # <<>> /\ Head(Rest(t, 3)) = t[3]
      <4>1. t \in Seq(Token) /\ Len(t) \in Nat /\ 5 <= Len(t)
        BY <1>5, <3>1
      <4> DEFINE u == Rest(t, 3)
      <4>2. u \in Seq(Token) /\ Len(u) = Len(t) - 2 /\ u[1] = t[3]
        BY <4>1 DEF Rest
      <4> HIDE DEF u
      <4>3. u # <<>> /\ Head(u) = u[1]
        BY <4>1, <4>2
      <4> QED BY <4>2, <4>3 DEF u
    <3> QED BY <3>1, <3>2
  <2>2. Num(Point).type = "word" /\ Comma.type = "comma"
    BY DEF Num, Word, Comma
  <2>3. Num(Point) # Comma
    BY <2>2
  <2> QED BY <2>1, <2>3 DEF AtComma
<1>9. ClassicStream(t, e, r)
  BY <1>5, <1>7, <1>8 DEF ClassicStream, g
<1> QED BY <1>2, <1>5, <1>9 DEF t, z

\* An event in the classic form is read as what it says, and the reader then
\* stands where it ends; unless it is of a kind that is not documented, when no
\* comma stands there.
LEMMA ClassicParsed ==
    ASSUME NEW e, Event(e), NEW r, Over(r, Token)
    PROVE  ClassicStream(Cat(ClassicTokens(e), r), e, r) /\ Over(ClassicTokens(e), Token)
<1>1. CASE e.kind.classic \in Anonymous
  BY <1>1, AnonymousParsed
<1>2. CASE e.kind.classic \in Identified
  BY <1>2, IdentifiedParsed
<1>3. CASE e.kind.classic = "DENY"
  BY <1>3, DeniedParsed
<1>4. CASE ~Documented(e)
  BY <1>4, UndocumentedParsed
<1> QED BY <1>1, <1>2, <1>3, <1>4 DEF Documented

-----------------------------------------------------------------------------
(* A reply with several events.                                            *)

\* The events the server may report.
EventSet ==
    {e \in [kind : Kinds, time : Times, direction : DirectionCodes, who : Anybody \cup {Nobody}] :
       e.kind.classic \in Anonymous => e.who = Nobody}

\* The events the server may report are events.
LEMMA EventSetIs == \A e \in EventSet : Event(e)
  BY DEF EventSet, Event

\* The events of a reply that are read: up to the first that is not documented.
Reported(es) == {i \in DOMAIN es : \A j \in 1..(i - 1) : Documented(es[j])}
AllDocumented(es) == \A i \in DOMAIN es : Documented(es[i])

\* What is reported of a list with one event more: that event too, unless one before it
\* is not documented.
LEMMA ReportedOn ==
    ASSUME NEW es \in Seq(EventSet), NEW e \in EventSet
    PROVE  LET f == Append(es, e)
               n == Len(es)
           IN
           /\ n \in Nat /\ DOMAIN es = 1..n /\ DOMAIN f = 1..(n + 1)
           /\ f[n + 1] = e /\ \A i \in 1..n : f[i] = es[i]
           /\ AllDocumented(es) => /\ Reported(es) = 1..n /\ Reported(f) = 1..(n + 1)
                                   /\ AllDocumented(f) <=> Documented(e)
           /\ ~AllDocumented(es) => Reported(f) = Reported(es) /\ ~AllDocumented(f)
<1> DEFINE f == Append(es, e)
           n == Len(es)
<1>1. n \in Nat /\ DOMAIN es = 1..n
  BY LenProperties
<1>2. f \in Seq(EventSet) /\ Len(f) = n + 1 /\ f[n + 1] = e /\ \A i \in 1..n : f[i] = es[i]
  BY AppendProperties
<1>3. DOMAIN f = 1..(n + 1)
  <2> HIDE DEF f
  <2> QED BY <1>2, LenProperties
<1> HIDE DEF f, n
<1>4. ASSUME AllDocumented(es)
      PROVE  /\ Reported(es) = 1..n /\ Reported(f) = 1..(n + 1)
             /\ AllDocumented(f) <=> Documented(e)
  <2>1. \A i \in 1..n : Documented(es[i]) /\ Documented(f[i])
    BY <1>1, <1>2, <1>4 DEF AllDocumented
  <2>2. \A i \in 1..(n + 1) : \A j \in 1..(i - 1) : j \in 1..n
    BY <1>1
  <2>3. \A i \in 1..n : \A j \in 1..(i - 1) : j \in 1..n
    BY <1>1
  <2>4. Reported(es) = 1..n
    BY <1>1, <2>1, <2>3 DEF Reported
  <2>5. Reported(f) = 1..(n + 1)
    BY <1>3, <2>1, <2>2 DEF Reported
  <2>6. AllDocumented(f) <=> Documented(e)
    <3>1. n + 1 \in 1..(n + 1) /\ \A i \in 1..(n + 1) : i \in 1..n \/ i = n + 1
      BY <1>1
    <3> QED BY <1>2, <1>3, <2>1, <3>1 DEF AllDocumented
  <2> QED BY <2>4, <2>5, <2>6
<1>5. ASSUME ~AllDocumented(es)
      PROVE  Reported(f) = Reported(es) /\ ~AllDocumented(f)
  <2>1. PICK k \in 1..n : ~Documented(es[k])
    BY <1>1, <1>5 DEF AllDocumented
  <2>2. k \in 1..((n + 1) - 1) /\ k \in 1..(n + 1) /\ ~Documented(f[k])
    BY <1>1, <1>2, <2>1
  <2>3. n + 1 \notin Reported(f)
    BY <1>1, <2>2 DEF Reported
  <2>4. \A i \in 1..n : \A j \in 1..(i - 1) : f[j] = es[j]
    <3> SUFFICES ASSUME NEW i \in 1..n, NEW j \in 1..(i - 1) PROVE f[j] = es[j]
      OBVIOUS
    <3>1. j \in 1..n
      BY <1>1
    <3> QED BY <1>2, <3>1
  <2>5. \A i \in 1..n : i \in Reported(f) <=> i \in Reported(es)
    <3>1. 1..n \subseteq 1..(n + 1)
      BY <1>1
    <3> QED BY <1>1, <1>3, <2>4, <3>1 DEF Reported
  <2>6. \A i \in 1..(n + 1) : i \in 1..n \/ i = n + 1
    BY <1>1
  <2>7. Reported(f) \subseteq 1..(n + 1) /\ Reported(es) \subseteq 1..n
    BY <1>1, <1>3 DEF Reported
  <2>8. Reported(f) = Reported(es)
    BY <2>3, <2>5, <2>6, <2>7
  <2>9. ~AllDocumented(f)
    BY <1>3, <2>2 DEF AllDocumented
  <2> QED BY <2>8, <2>9
<1> QED BY <1>1, <1>2, <1>3, <1>4, <1>5 DEF f, n

\* Token stream t is read as event e.
ReadAs(t, e) ==
    LET p == parse_classic_event(t) IN
    p.ok = TRUE /\ p.event = ReadEvent(e)
\* Where the events of a reply start that are read, and what is read of each.
Kept(at, es) == DOMAIN at = Reported(es) /\ \A i \in DOMAIN at : ReadAs(at[i], es[i])
\* Stream u may follow an event.
Follows(u) == Over(u, Token) /\ (u = <<>> \/ AtComma(u))
\* Where the reader goes on after an event, or events, documented or not.
GoesOn(documented, u) == IF documented /\ u # <<>> THEN Tail(u) ELSE <<>>

\* The reader goes on in what follows.
LEMMA GoesOnIs ==
    \A u, d : Follows(u) => Over(GoesOn(d, u), Token) /\ Len(GoesOn(d, u)) <= Len(u) /\ Len(u) \in Nat
<1> SUFFICES ASSUME NEW u, NEW d, Follows(u)
             PROVE  Over(GoesOn(d, u), Token) /\ Len(GoesOn(d, u)) <= Len(u) /\ Len(u) \in Nat
  OBVIOUS
<1>1. u \in Seq(Token) /\ Len(u) \in Nat
  BY LenProperties DEF Follows, Over
<1>2. CASE d /\ u # <<>>
  <2>1. Tail(u) \in Seq(Token) /\ Len(Tail(u)) = Len(u) - 1
    BY <1>1, <1>2, HeadTailProperties
  <2>2. GoesOn(d, u) = Tail(u)
    BY <1>2 DEF GoesOn
  <2> QED BY <1>1, <2>1, <2>2 DEF Over
<1>3. CASE ~(d /\ u # <<>>)
  <2>1. GoesOn(d, u) = <<>>
    BY <1>3 DEF GoesOn
  <2> QED BY <1>1, <2>1 DEF Over
<1> QED BY <1>2, <1>3

\* A turn of parse_history reads an event and goes on after it, unless the event is not
\* documented.
LEMMA EventTurn ==
    ASSUME NEW e, Event(e), NEW u, Follows(u), NEW at, Over(at, Seq(Token))
    PROVE  LET t == Cat(ClassicTokens(e), u)
               v == GoesOn(Documented(e), u)
           IN
           /\ Over(t, Token) /\ Over(v, Token) /\ ReadAs(t, e)
           /\ Leads(Turn(AfterEvent), At(t, at), At(v, Append(at, t)))
<1> DEFINE t == Cat(ClassicTokens(e), u)
           v == GoesOn(Documented(e), u)
           p == parse_classic_event(t)
<1>1. Over(u, Token)
  BY DEF Follows
<1>2. ClassicStream(t, e, u)
  BY <1>1, ClassicParsed
<1>3. /\ Over(t, Token) /\ Len(u) < Len(t) /\ Len(t) \in Nat
      /\ p.ok = TRUE /\ p.event = ReadEvent(e)
      /\ IF Documented(e) THEN p.rest = u ELSE ~AtComma(p.rest)
  BY <1>2 DEF ClassicStream
<1>4. Over(v, Token) /\ Len(v) <= Len(u) /\ Len(u) \in Nat
  BY GoesOnIs
<1>5. ReadAs(t, e)
  BY <1>3 DEF ReadAs
<1> HIDE DEF t
<1>6. AfterEvent[t] = IF p.ok /\ AtComma(p.rest) THEN Tail(p.rest) ELSE <<>>
  <2>1. t \in Seq(Token)
    BY <1>3 DEF Over
  <2> QED BY <2>1 DEF AfterEvent
<1> HIDE DEF p
<1>7. AfterEvent[t] = v
  <2>1. AtComma(u) <=> u # <<>>
    BY DEF Follows, AtComma
  <2> QED BY <1>3, <1>6, <2>1 DEF GoesOn
<1> HIDE DEF v
<1>8. Len(v) < Len(t)
  <2>1. Len(v) \in Nat
    BY <1>4, LenProperties DEF Over
  <2> QED BY <1>3, <1>4, <2>1
<1>9. Leads(Turn(AfterEvent), At(t, at), At(v, Append(at, t)))
  BY <1>3, <1>4, <1>7, <1>8, TurnOnce
<1> QED BY <1>3, <1>4, <1>5, <1>9 DEF t, v

\* The reader of stream t reads the events es, as far as they are reported.
HeardFrom(t, es, u, at) ==
    /\ Over(at, Seq(Token)) /\ Kept(at, es)
    /\ Leads(Turn(AfterEvent), At(Cat(t, u), <<>>), At(GoesOn(AllDocumented(es), u), at))
Heard(t, es) == Over(t, Token) /\ \A u : Follows(u) => \E at : HeardFrom(t, es, u, at)

\* A reply with one event is read.
LEMMA HeardOne == ASSUME NEW e \in EventSet PROVE Heard(ClassicTokens(e), <<e>>)
<1> DEFINE z == ClassicTokens(e)
           es == <<e>>
           none == <<>>
<1>1. Event(e)
  BY EventSetIs
<1>2. Over(z, Token)
  <2>1. Over(none, Token)
    BY DEF Over
  <2> HIDE DEF none
  <2> QED BY <1>1, <2>1, ClassicParsed
<1>3. DOMAIN es = 1..1 /\ es[1] = e /\ Reported(es) = 1..1 /\ (AllDocumented(es) <=> Documented(e))
  <2>1. DOMAIN es = {1} /\ es[1] = e /\ 1..1 = {1} /\ 1..(1 - 1) = {}
    OBVIOUS
  <2> HIDE DEF es
  <2> QED BY <2>1 DEF Reported, AllDocumented
<1>4. ASSUME NEW u, Follows(u) PROVE \E at : HeardFrom(z, es, u, at)
  <2> DEFINE t == Cat(z, u)
             at == Append(none, t)
             v == GoesOn(Documented(e), u)
             S == Seq(Token)
  <2>1. Over(none, Seq(Token)) /\ none \in Seq(S) /\ Len(none) = 0
    BY DEF Over
  <2> HIDE DEF none
  <2>2. Over(t, Token) /\ ReadAs(t, e) /\ Leads(Turn(AfterEvent), At(t, none), At(v, Append(none, t)))
    BY <1>1, <1>4, <2>1, EventTurn
  <2> HIDE DEF t
  <2>3. t \in S
    BY <2>2 DEF Over
  <2>4. at \in Seq(S) /\ DOMAIN at = 1..1 /\ at[1] = t
    <3> HIDE DEF S
    <3>1. at \in Seq(S) /\ Len(at) = 1 /\ at[1] = t
      BY <2>1, <2>3, AppendProperties
    <3> HIDE DEF at
    <3> QED BY <3>1, LenProperties
  <2>5. Leads(Turn(AfterEvent), At(t, none), At(v, at))
    BY <2>2
  <2> HIDE DEF at
  <2>6. Kept(at, es)
    <3>1. \A i \in 1..1 : i = 1
      OBVIOUS
    <3> HIDE DEF es
    <3> QED BY <1>3, <2>2, <2>4, <3>1 DEF Kept
  <2>7. v = GoesOn(AllDocumented(es), u)
    <3> HIDE DEF es
    <3> QED BY <1>3 DEF GoesOn
  <2> HIDE DEF v
  <2>8. HeardFrom(z, es, u, at)
    <3>1. Over(at, Seq(Token))
      BY <2>4 DEF Over
    <3>2. Leads(Turn(AfterEvent), At(Cat(z, u), <<>>), At(GoesOn(AllDocumented(es), u), at))
      BY <2>5, <2>7 DEF t, none
    <3> HIDE DEF z, es
    <3> QED BY <2>6, <3>1, <3>2 DEF HeardFrom
  <2> QED BY <2>8
<1> HIDE DEF z, es
<1>5. Heard(z, es)
  BY <1>2, <1>4 DEF Heard
<1> QED BY <1>5 DEF z, es

\* So is a reply with one event more than one that is.
LEMMA HeardOn ==
    ASSUME NEW es \in Seq(EventSet), NEW e \in EventSet, NEW t, Heard(t, es)
    PROVE  Heard(Cat(t, CommaAnd(ClassicTokens(e))), Append(es, e))
<1> DEFINE z == ClassicTokens(e)
           f == Append(es, e)
           n == Len(es)
           c == CommaAnd(z)
<1>1. Event(e)
  BY EventSetIs
<1>2. /\ n \in Nat /\ DOMAIN es = 1..n /\ DOMAIN f = 1..(n + 1)
      /\ f[n + 1] = e /\ \A i \in 1..n : f[i] = es[i]
      /\ AllDocumented(es) => /\ Reported(es) = 1..n /\ Reported(f) = 1..(n + 1)
                              /\ AllDocumented(f) <=> Documented(e)
      /\ ~AllDocumented(es) => Reported(f) = Reported(es) /\ ~AllDocumented(f)
  BY ReportedOn
<1>3. Over(z, Token)
  <2> DEFINE none == <<>>
  <2>1. Over(none, Token)
    BY DEF Over
  <2> HIDE DEF none
  <2> QED BY <1>1, <2>1, ClassicParsed
<1> HIDE DEF f, n, z
<1>4. Over(t, Token) /\ Over(c, Token) /\ Over(Cat(t, c), Token)
  BY <1>3, CommaAndIs, CatOver DEF Heard
<1>5. ASSUME NEW u, Follows(u) PROVE \E at : HeardFrom(Cat(t, c), f, u, at)
  <2> DEFINE x == Cat(z, u)
             w == CommaAnd(x)
  <2>1. Over(u, Token)
    BY <1>5 DEF Follows
  <2>2. Over(x, Token)
    BY <1>3, <2>1, CatOver
  <2>3. Over(w, Token) /\ AtComma(w) /\ Tail(w) = x /\ w # <<>>
    <3> HIDE DEF x
    <3>1. Over(w, Token) /\ AtComma(w) /\ Tail(w) = x
      BY <2>2, CommaAndIs
    <3> QED BY <3>1 DEF AtComma
  <2>4. Cat(Cat(t, c), u) = Cat(t, w)
    <3> DEFINE k == <<Comma>>
    <3>1. Over(k, Token) /\ c = Cat(k, z) /\ w = Cat(k, Cat(z, u))
      BY CommaIs DEF CommaAnd
    <3> HIDE DEF k, c, w
    <3>2. Cat(Cat(k, z), u) = Cat(k, Cat(z, u))
      BY <1>3, <2>1, <3>1, Cat3
    <3>3. Cat(Cat(t, c), u) = Cat(t, Cat(c, u))
      BY <1>4, <2>1, Cat3 DEF c
    <3> QED BY <3>1, <3>2, <3>3
  <2>5. Follows(w)
    BY <2>3 DEF Follows
  <2> HIDE DEF w, x, c
  <2>6. PICK at : HeardFrom(t, es, w, at)
    BY <2>5 DEF Heard
  <2>7. /\ Over(at, Seq(Token)) /\ Kept(at, es)
        /\ Leads(Turn(AfterEvent), At(Cat(t, w), <<>>), At(GoesOn(AllDocumented(es), w), at))
    BY <2>6 DEF HeardFrom
  <2>8. CASE ~AllDocumented(es)
    <3>1. GoesOn(AllDocumented(es), w) = <<>> /\ GoesOn(AllDocumented(f), u) = <<>>
      BY <1>2, <2>8 DEF GoesOn
    <3>2. Kept(at, f)
      <4>1. DOMAIN at = Reported(es) /\ \A i \in DOMAIN at : ReadAs(at[i], es[i])
        BY <2>7 DEF Kept
      <4>2. Reported(es) \subseteq 1..n
        BY <1>2 DEF Reported
      <4> QED BY <1>2, <2>8, <4>1, <4>2 DEF Kept
    <3>3. Leads(Turn(AfterEvent), At(Cat(Cat(t, c), u), <<>>), At(GoesOn(AllDocumented(f), u), at))
      BY <2>4, <2>7, <3>1
    <3>4. HeardFrom(Cat(t, c), f, u, at)
      BY <2>7, <3>2, <3>3 DEF HeardFrom
    <3> QED BY <3>4
  <2>9. CASE AllDocumented(es)
    <3> DEFINE v == GoesOn(Documented(e), u)
               bt == Append(at, x)
               S == Seq(Token)
               none == <<>>
    <3>1. GoesOn(AllDocumented(es), w) = x
      BY <2>3, <2>9 DEF GoesOn
    <3>2. v = GoesOn(AllDocumented(f), u)
      BY <1>2, <2>9 DEF GoesOn
    <3>3. Over(v, Token) /\ ReadAs(x, e) /\ Leads(Turn(AfterEvent), At(x, at), At(v, bt))
      BY <1>1, <1>5, <2>7, EventTurn DEF x, z
    <3>4. DOMAIN at = Reported(es) /\ \A i \in DOMAIN at : ReadAs(at[i], es[i])
      BY <2>7 DEF Kept
    <3>5. /\ bt \in Seq(S) /\ Len(at) = n /\ DOMAIN bt = 1..(n + 1) /\ bt[n + 1] = x
          /\ \A i \in 1..n : bt[i] = at[i]
      <4>1. at \in Seq(S) /\ x \in S
        BY <2>2, <2>7 DEF Over
      <4> HIDE DEF S
      <4>2. Len(at) \in Nat /\ DOMAIN at = 1..Len(at)
        BY <4>1, LenProperties
      <4>3. 1..Len(at) = 1..n
        BY <1>2, <2>9, <3>4, <4>2
      <4>4. Len(at) = n
        <5>1. \A a, b \in Nat : a < b => b \in 1..b /\ b \notin 1..a
          OBVIOUS
        <5>2. \A a, b \in Nat : 1..a = 1..b => a = b
          <6> SUFFICES ASSUME NEW a \in Nat, NEW b \in Nat, 1..a = 1..b PROVE a = b
            OBVIOUS
          <6>1. ~(a < b) /\ ~(b < a)
            BY <5>1
          <6> QED BY <6>1
        <5> QED BY <1>2, <4>2, <4>3, <5>2
      <4>5. bt \in Seq(S) /\ Len(bt) = n + 1 /\ bt[n + 1] = x /\ \A i \in 1..n : bt[i] = at[i]
        BY <4>1, <4>4, AppendProperties
      <4> HIDE DEF bt
      <4> QED BY <4>4, <4>5, LenProperties
    <3> HIDE DEF bt, v
    <3>6. Kept(bt, f)
      <4>1. \A i \in 1..n : ReadAs(bt[i], f[i])
        BY <1>2, <2>9, <3>4, <3>5
      <4>2. \A i \in 1..(n + 1) : i \in 1..n \/ i = n + 1
        BY <1>2
      <4>3. \A i \in 1..(n + 1) : ReadAs(bt[i], f[i])
        BY <1>2, <3>3, <3>5, <4>1, <4>2
      <4> QED BY <1>2, <2>9, <3>5, <4>3 DEF Kept
    <3>7. Leads(Turn(AfterEvent), At(Cat(Cat(t, c), u), none), At(v, bt))
      <4> DEFINE y == Cat(t, w)
      <4>1. Over(y, Token) /\ Leads(Turn(AfterEvent), At(y, none), At(x, at))
        BY <1>4, <2>3, <2>7, <3>1, CatOver
      <4> HIDE DEF y, none
      <4>2. Leads(Turn(AfterEvent), At(y, none), At(v, bt))
        BY <2>2, <3>3, <4>1, LeadsAt
      <4> QED BY <2>4, <4>2 DEF y
    <3>8. HeardFrom(Cat(t, c), f, u, bt)
      <4>1. Over(bt, Seq(Token))
        BY <3>5 DEF Over
      <4> QED BY <3>2, <3>6, <3>7, <4>1 DEF HeardFrom
    <3> QED BY <3>8
  <2> QED BY <2>8, <2>9
<1> HIDE DEF c
<1>6. Heard(Cat(t, c), f)
  BY <1>4, <1>5 DEF Heard
<1> QED BY <1>6 DEF c, f, z

Body(es) == FlattenSeq([i \in DOMAIN es |-> IF i = 1 THEN Classic(es[i]) ELSE <<",">> \o Classic(es[i])])

\* The text of an event in the classic form.
LEMMA ClassicIsText ==
    \A e \in EventSet : Classic(e) \in Text /\ <<",">> \o Classic(e) \in Text /\ Reads(Classic(e), ClassicTokens(e))
<1> SUFFICES ASSUME NEW e \in EventSet
             PROVE  Classic(e) \in Text /\ <<",">> \o Classic(e) \in Text /\ Reads(Classic(e), ClassicTokens(e))
  OBVIOUS
<1>1. Reads(Classic(e), ClassicTokens(e))
  BY EventSetIs, ClassicReads
<1>2. Reads(<<",">> \o Classic(e), <<Comma>> \o ClassicTokens(e))
  BY <1>1, ReadsComma, ReadsOn
<1> QED BY <1>1, <1>2 DEF Reads

\* The text of a reply with one event more.
LEMMA BodyOn ==
    ASSUME NEW es \in Seq(EventSet), NEW e \in EventSet
    PROVE  /\ es = <<>> => Body(Append(es, e)) = Classic(e)
           /\ es # <<>> => Body(Append(es, e)) = Body(es) \o (<<",">> \o Classic(e))
<1> DEFINE f == Append(es, e)
           n == Len(es)
           p == [i \in DOMAIN es |-> IF i = 1 THEN Classic(es[i]) ELSE <<",">> \o Classic(es[i])]
           q == [i \in DOMAIN f |-> IF i = 1 THEN Classic(f[i]) ELSE <<",">> \o Classic(f[i])]
           x == IF n = 0 THEN Classic(e) ELSE <<",">> \o Classic(e)
           none == <<>>
<1>1. n \in Nat /\ DOMAIN es = 1..n /\ \A i \in 1..n : es[i] \in EventSet
  BY LenProperties
<1>2. f \in Seq(EventSet) /\ Len(f) = n + 1 /\ f[n + 1] = e /\ \A i \in 1..n : f[i] = es[i]
  BY AppendProperties
<1>3. DOMAIN f = 1..(n + 1)
  <2> HIDE DEF f
  <2> QED BY <1>2, LenProperties
<1>4. x \in Text
  BY ClassicIsText
<1> HIDE DEF f, n
<1>5. p \in Seq(Text) /\ Len(p) = n
  <2> DEFINE g(i) == IF i = 1 THEN Classic(es[i]) ELSE <<",">> \o Classic(es[i])
  <2>1. \A i \in 1..n : g(i) \in Text
    BY <1>1, ClassicIsText
  <2> HIDE DEF g
  <2>2. [i \in 1..n |-> g(i)] \in Seq(Text) /\ Len([i \in 1..n |-> g(i)]) = n
    BY <1>1, <2>1
  <2> QED BY <1>1, <2>2 DEF g
<1>6. q \in Seq(Text) /\ Len(q) = n + 1 /\ q[n + 1] = x /\ \A i \in 1..n : q[i] = p[i]
  <2> DEFINE g(i) == IF i = 1 THEN Classic(f[i]) ELSE <<",">> \o Classic(f[i])
  <2>1. \A i \in 1..(n + 1) : f[i] \in EventSet
    BY <1>2, <1>3, LenProperties
  <2>2. \A i \in 1..(n + 1) : g(i) \in Text
    BY <2>1, ClassicIsText
  <2>3. n + 1 \in 1..(n + 1) /\ 1..n \subseteq 1..(n + 1) /\ (n + 1 = 1 <=> n = 0)
    BY <1>1
  <2>4. q = [i \in 1..(n + 1) |-> g(i)]
    BY <1>3
  <2>5. g(n + 1) = x
    BY <1>2, <2>3
  <2>6. \A i \in 1..n : g(i) = p[i]
    BY <1>1, <1>2
  <2> HIDE DEF g, q, x, p
  <2>7. [i \in 1..(n + 1) |-> g(i)] \in Seq(Text) /\ Len([i \in 1..(n + 1) |-> g(i)]) = n + 1
    BY <1>1, <2>2
  <2>8. \A i \in 1..(n + 1) : q[i] = g(i)
    BY <2>4
  <2> QED BY <2>3, <2>4, <2>5, <2>6, <2>7, <2>8
<1> HIDE DEF p, q, x
<1>7. q = Append(p, x)
  <2>1. /\ Append(p, x) \in Seq(Text) /\ Len(Append(p, x)) = n + 1 /\ Append(p, x)[n + 1] = x
        /\ \A i \in 1..n : Append(p, x)[i] = p[i]
    BY <1>4, <1>5, AppendProperties
  <2>2. \A i \in 1..(n + 1) : i \in 1..n \/ i = n + 1
    BY <1>1
  <2>3. \A i \in 1..(n + 1) : q[i] = Append(p, x)[i]
    BY <1>6, <2>1, <2>2
  <2> QED BY <1>6, <2>1, <2>3, SeqEqual
<1>8. FlattenSeq(q) = FlattenSeq(p) \o x /\ FlattenSeq(p) \in Text
  <2>1. p \in Seq(Seq(Symbols)) /\ x \in Seq(Symbols)
    BY <1>4, <1>5 DEF Text
  <2> QED BY <1>7, <2>1, FlattenOn DEF Text
<1>9. Body(es) = FlattenSeq(p) /\ Body(f) = FlattenSeq(q)
  BY DEF Body, p, q
<1>10. CASE es = none
  <2>1. n = 0 /\ p = none
    <3>1. n = 0
      BY <1>10 DEF n
    <3>2. p = none
      BY <1>5, <3>1
    <3> QED BY <3>1, <3>2
  <2>2. none \o x = x
    BY <1>4, ConcatEmptySeq DEF Text
  <2>3. FlattenSeq(p) = none
    BY <2>1, FlattenEmpty
  <2>4. x = Classic(e)
    BY <2>1 DEF x
  <2> QED BY <1>8, <1>9, <1>10, <2>2, <2>3, <2>4 DEF f
<1>11. CASE es # none
  <2>1. n # 0
    BY <1>11 DEF n
  <2>2. x = <<",">> \o Classic(e)
    BY <2>1 DEF x
  <2> QED BY <1>8, <1>9, <1>11, <2>2 DEF f
<1> QED BY <1>10, <1>11

\* The server reports the events es and the reader reads them.
Told(es) == \E t : Reads(Body(es), t) /\ Heard(t, es)

\* Every reply with events is read, by induction over the events.
LEMMA TextsTold == \A es \in Seq(EventSet) : es # <<>> => Told(es)
<1> DEFINE P == {es \in Seq(EventSet) : es # <<>> => Told(es)}
           none == <<>>
<1>1. none \in P
  <2>1. none \in Seq(EventSet)
    OBVIOUS
  <2> QED BY <2>1
<1>2. ASSUME NEW es \in Seq(EventSet), NEW e \in EventSet, es \in P PROVE Append(es, e) \in P
  <2> DEFINE f == Append(es, e)
             z == ClassicTokens(e)
             c == CommaAnd(z)
  <2>1. f \in Seq(EventSet)
    BY AppendProperties
  <2>2. Reads(Classic(e), z)
    BY ClassicIsText
  <2>3. CASE es = none
    <3>1. Body(f) = Classic(e)
      BY <2>3, BodyOn
    <3>2. f = <<e>>
      BY <2>3
    <3>3. Heard(z, f)
      BY <3>2, HeardOne
    <3> HIDE DEF f, z
    <3>4. Told(f)
      BY <2>2, <3>1, <3>3 DEF Told
    <3> QED BY <2>1, <3>4 DEF f
  <2>4. CASE es # none
    <3>1. PICK t : Reads(Body(es), t) /\ Heard(t, es)
      BY <1>2, <2>4 DEF Told
    <3>2. Body(f) = Body(es) \o (<<",">> \o Classic(e))
      BY <2>4, BodyOn
    <3>3. Reads(<<",">> \o Classic(e), c)
      BY <2>2, ReadsComma, ReadsOn DEF CommaAnd, Cat
    <3>4. Heard(Cat(t, c), f)
      BY <3>1, HeardOn
    <3> HIDE DEF f, c
    <3>5. Reads(Body(f), Cat(t, c))
      BY <3>1, <3>2, <3>3, ReadsOn DEF Cat
    <3>6. Told(f)
      BY <3>4, <3>5 DEF Told
    <3> QED BY <2>1, <3>6 DEF f
  <2> QED BY <2>3, <2>4
<1>3. \A es \in Seq(EventSet) : es \in P
  <2> HIDE DEF P
  <2> QED BY <1>1, <1>2, SeqInduction
<1> QED BY <1>3

\* The keyword of a reply leads it.
LEMMA HistoryRead ==
    ASSUME NEW p, NEW t, Reads(p, t)
    PROVE  Read(<<"HISTORY", " ">> \o p) = t
<1> DEFINE w == "HISTORY"
           k == Kw(w)
           h == <<w, " ">>
           u == <<k>> \o t
<1>1. Reads(h, <<k>>) /\ k \in Token
  <2>1. k \in Token /\ Piece(<<w>>, k)
    BY Tokens
  <2>2. Reads(<<w>> \o <<" ">>, <<k>>)
    BY <2>1 DEF Piece
  <2>3. <<w>> \o <<" ">> = h
    <3> DEFINE s == " "
    <3> HIDE DEF w, s
    <3>1. <<w>> \o <<s>> = <<w, s>>
      <4>1. Append(<<w>>, s) = <<w, s>>
        BY TupleAppend
      <4> DEFINE S == {w, s}
      <4>2. <<w>> \in Seq(S) /\ s \in S
        OBVIOUS
      <4> HIDE DEF S
      <4>3. Append(<<w>>, s) = <<w>> \o <<s>>
        BY <4>2, AppendIsConcat
      <4> QED BY <4>1, <4>3
    <3> QED BY <3>1 DEF s
  <2> QED BY <2>1, <2>2, <2>3
<1>2. Reads(h \o p, u)
  <2> HIDE DEF h, k
  <2> QED BY <1>1, ReadsOn
<1>3. tokenize(h \o p) = u
  <2> HIDE DEF h, u
  <2> QED BY <1>2, Tokenized
<1>4. Len(u) = Len(t) + 1 /\ u[1] = k /\ Tail(u) = t /\ Len(t) \in Nat
  <2>1. t \in Seq(Token)
    BY DEF Reads
  <2> HIDE DEF k
  <2> QED BY <1>1, <2>1, ConsIs, LenProperties
<1>5. k.type = "word"
  BY DEF Kw, Word
<1>6. HasValue(u, 1)
  <2> HIDE DEF u, k
  <2> QED BY <1>4, <1>5 DEF HasValue
<1> HIDE DEF h, u
<1>7. split_reply(h \o p).body = Tail(u)
  BY <1>3, <1>6 DEF split_reply
<1> QED BY <1>4, <1>7 DEF Read, h, w

\* What the reply to a request for the history becomes.
Answer(reply, es) ==
    /\ reply.ok = TRUE /\ DOMAIN reply.events = Reported(es)
    /\ \A i \in Reported(es) : reply.events[i] = ReadEvent(es[i])

\* A HISTORY reply arrives: every event up to the first that is not documented, in order,
\* each as what it says (parse_history).
LEMMA ReplyIs == \A es \in Seq(EventSet) : Answer(Reply(es), es)
<1> SUFFICES ASSUME NEW es \in Seq(EventSet) PROVE Answer(Reply(es), es)
  OBVIOUS
<1> DEFINE none == <<>>
<1>1. ASSUME NEW t, NEW at, Starts(AfterEvent, t) = at, Kept(at, es), Read(History(es)) = t
      PROVE  Answer(Reply(es), es)
  <2> DEFINE r == parse_history(t)
             E(i) == parse_classic_event(at[i]).event
  <2>1. DOMAIN at = Reported(es) /\ \A i \in DOMAIN at : ReadAs(at[i], es[i])
    BY <1>1 DEF Kept
  <2>2. \A i \in DOMAIN at : parse_classic_event(at[i]).ok = TRUE
    BY <2>1 DEF ReadAs
  <2>3. \A i \in DOMAIN at : E(i) = ReadEvent(es[i])
    BY <2>1 DEF ReadAs
  <2>4. r = [ok |-> TRUE, events |-> [i \in DOMAIN at |-> E(i)]]
    BY <1>1, <2>2 DEF parse_history
  <2> HIDE DEF r, E
  <2>5. r.ok = TRUE /\ r.events = [i \in DOMAIN at |-> E(i)]
    BY <2>4
  <2>6. Answer(r, es)
    BY <2>1, <2>3, <2>5 DEF Answer
  <2> QED BY <1>1, <2>6 DEF Reply, r
<1>2. CASE es # none
  <2>1. PICK t : Reads(Body(es), t) /\ Heard(t, es)
    BY <1>2, TextsTold DEF Told
  <2>2. Read(History(es)) = t
    BY <2>1, HistoryRead DEF History, Body
  <2>3. Over(t, Token) /\ Over(none, Token) /\ Follows(none)
    BY <2>1 DEF Heard, Follows, Over
  <2>4. PICK at : HeardFrom(t, es, none, at)
    BY <2>1, <2>3 DEF Heard
  <2>5. Cat(t, none) = t
    BY <2>3, ConcatEmptySeq DEF Over, Cat
  <2>6. GoesOn(AllDocumented(es), none) = none
    BY DEF GoesOn
  <2> HIDE DEF none
  <2>7. Over(at, Seq(Token)) /\ Kept(at, es) /\ Leads(Turn(AfterEvent), At(t, none), At(none, at))
    BY <2>4, <2>5, <2>6 DEF HeardFrom, none
  <2>8. Starts(AfterEvent, t) = at
    BY <2>3, <2>7, TurnsEnd DEF none
  <2> QED BY <1>1, <2>2, <2>7, <2>8
<1>3. CASE es = none
  <2>1. Body(none) = none
    <3>1. [i \in DOMAIN none |-> IF i = 1 THEN Classic(none[i]) ELSE <<",">> \o Classic(none[i])] = none
      OBVIOUS
    <3> QED BY <3>1, FlattenEmpty DEF Body
  <2>2. Reads(none, none)
    BY ReadsNothing
  <2>3. Read(History(es)) = none
    BY <1>3, <2>1, <2>2, HistoryRead DEF History, Body
  <2>4. Over(none, Token) /\ Over(none, Seq(Token)) /\ Len(none) \in Nat
    BY DEF Over
  <2>5. Kept(none, es)
    BY <1>3 DEF Kept, Reported
  <2>6. Leads(Turn(AfterEvent), At(none, none), At(none, none))
    <3> DEFINE a == At(none, none)
    <3>1. Len(a.rest) \in Nat
      BY <2>4 DEF At
    <3> HIDE DEF a
    <3>2. Leads(Turn(AfterEvent), a, a)
      BY <3>1, LeadsNowhere
    <3> QED BY <3>2 DEF a
  <2>7. Starts(AfterEvent, none) = none
    BY <2>4, <2>6, TurnsEnd
  <2> QED BY <1>1, <2>3, <2>5, <2>7
<1> QED BY <1>2, <1>3

-----------------------------------------------------------------------------
(* The theorems.                                                           *)

TypeOK == text \in Text /\ happened \in Seq(EventSet)

\* Texts and events have their types in every reachable state.
THEOREM TypeCorrect == Spec => []TypeOK
<1>1. Init => TypeOK
  <2>1. <<>> \in Seq(Symbols) /\ <<>> \in Seq(EventSet)
    OBVIOUS
  <2> QED BY <2>1 DEF Init, TypeOK, Text
<1>2. TypeOK /\ [Next]_vars => TypeOK'
  <2> SUFFICES ASSUME TypeOK, [Next]_vars PROVE TypeOK'
    OBVIOUS
  <2> USE DEF TypeOK
  <2>1. ASSUME NEW char \in Chars, Writes(char) PROVE TypeOK'
    <3>1. char \in Symbols
      BY CharsAssumption
    <3> QED BY <2>1, <3>1, AppendProperties DEF Writes, Text
  <2>2. ASSUME NEW kind \in Kinds, NEW time \in Times, NEW direction \in DirectionCodes,
               NEW who \in Anybody \cup {Nobody},
               Happens(kind, time, direction, who)
        PROVE  TypeOK'
    <3> DEFINE e == [kind |-> kind, time |-> time, direction |-> direction, who |-> who]
    <3>1. e \in [kind : Kinds, time : Times, direction : DirectionCodes, who : Anybody \cup {Nobody}]
      OBVIOUS
    <3>2. e.kind.classic \in Anonymous => e.who = Nobody
      BY <2>2 DEF Happens
    <3>3. e \in EventSet
      BY <3>1, <3>2 DEF EventSet
    <3>4. happened' = Append(happened, e) /\ text' = text
      BY <2>2 DEF Happens
    <3> HIDE DEF e
    <3> QED BY <3>3, <3>4, AppendProperties
  <2>3. CASE UNCHANGED vars
    BY <2>3 DEF vars
  <2> QED BY <2>1, <2>2, <2>3 DEF Next
<1> QED BY <1>1, <1>2, PTL DEF Spec

\* A user and a password reach the server as they are, in one line (quote, tokenize).
LEMMA CredentialsArrive ==
    ASSUME NEW x \in Text
    PROVE  /\ tokenize(Login(x, x)) = <<Word(<<"LOGIN">>), Word(<<"1.8">>), String(x), String(x)>>
           /\ \A i \in DOMAIN Login(x, x) : Login(x, x)[i] # "\n"
<1> DEFINE m == Login(x, x)
           ts == <<Kw("LOGIN"), Kw("1.8"), String(x), String(x)>>
<1>1. Reads(m, ts)
  BY LoginReads
<1>2. tokenize(m) = ts
  <2> HIDE DEF m, ts
  <2> QED BY <1>1, Tokenized
<1>3. Free(m, "\n")
  BY LoginFree
<1>4. m \in Text
  BY <1>1 DEF Reads
<1> HIDE DEF m
<1>5. DOMAIN m = 1..Len(m)
  BY <1>4, LenProperties DEF Text
<1>6. \A i \in DOMAIN m : m[i] # "\n"
  BY <1>3, <1>5 DEF Free
<1> QED BY <1>2, <1>6 DEF Kw, m

\* The name of a holder changes nothing else of an event.
LEMMA NamesArrive ==
    ASSUME NEW e, Event(e), NEW x, NEW q, Carries(q, x)
    PROVE  Live(e, <<q>>).name = x /\ [Live(e, <<q>>) EXCEPT !.name = None] = Live(e, <<>>)
<1> DEFINE o == Object(e.who.object)
           d == normalize_direction_code(e.direction)
           W(n) == EventWith(e.time, Point, o, e.kind.code, None, None, d, n, e.who.key)
<1>1. Live(e, <<q>>) = W(x) /\ Live(e, <<>>) = W(None)
  BY LiveIs, EventsAre
<1>2. W(x).name = x /\ [W(x) EXCEPT !.name = None] = W(None)
  BY DEF EventWith
<1> HIDE DEF W
<1> QED BY <1>1, <1>2

\* The two forms of an APINFO reply, in the words of the property.
LEMMA OpenStates ==
    \A x : \A open \in {<<>>, <<<<"CLOSED">>>>} :
      ApRecord(x, IF open = <<>> THEN "UNKNOWN" ELSE "CLOSED") =
      [id |-> 1, name |-> x, zone_a |-> 1, zone_b |-> 2, state |-> "ONLINE_LOCKED",
       open |-> IF open = <<>> THEN "UNKNOWN" ELSE "CLOSED"]
  BY DEF ApRecord

\* In every reachable state, the text arrives from every message that carries it,
\* whatever characters it has and whichever the server escapes, and so do the fields
\* around it; and credentials are one line (quote, tokenize and the parsers).
THEOREM TextsAlwaysArrive == Spec => []TextsArrive
<1>1. TypeOK => TextsArrive
  <2> SUFFICES ASSUME TypeOK PROVE TextsArrive
    OBVIOUS
  <2> DEFINE x == text
  <2>1. x \in Text /\ \A i \in DOMAIN happened : happened[i] \in EventSet
    BY LenProperties DEF TypeOK
  <2> HIDE DEF x
  <2>2. \A q \in ServerQuotes(x) : Carries(q, x)
    BY <2>1, Carried
  <2>3. /\ tokenize(Login(x, x)) = <<Word(<<"LOGIN">>), Word(<<"1.8">>), String(x), String(x)>>
        /\ \A i \in DOMAIN Login(x, x) : Login(x, x)[i] # "\n"
    BY <2>1, CredentialsArrive
  <2>4. ASSUME NEW q \in ServerQuotes(x)
        PROVE  /\ parse_zoneinfo(Read(Zones(q))) = <<[id |-> 1, name |-> x], [id |-> 2, name |-> x]>>
               /\ \A open \in {<<>>, <<<<"CLOSED">>>>} :
                    parse_apinfo(Read(ApInfo(q, open))) =
                      [id |-> 1, name |-> x, zone_a |-> 1, zone_b |-> 2, state |-> "ONLINE_LOCKED",
                       open |-> IF open = <<>> THEN "UNKNOWN" ELSE "CLOSED"]
               /\ parse_objectinfo(Read(ObjectInfo(q))) =
                    <<[kind |-> "EMP", id |-> 1, fields |-> Filled({"NAME", "POSITION"}, x)],
                      [kind |-> "CAR", id |-> 2, fields |-> Filled({"NUMBER"}, x)]>>
               /\ \A i \in DOMAIN happened :
                    LET event == Live(happened[i], <<q>>) IN
                    /\ event.name = x
                    /\ [event EXCEPT !.name = None] = Live(happened[i], <<>>)
    <3>1. Carries(q, x)
      BY <2>2
    <3>2. parse_zoneinfo(Read(Zones(q))) = <<[id |-> 1, name |-> x], [id |-> 2, name |-> x]>>
      BY <3>1, ZonesParsed
    <3>3. \A open \in {<<>>, <<<<"CLOSED">>>>} :
            parse_apinfo(Read(ApInfo(q, open))) = ApRecord(x, IF open = <<>> THEN "UNKNOWN" ELSE "CLOSED")
      <4>1. <<<<"CLOSED">>>> # <<>>
        OBVIOUS
      <4> QED BY <3>1, <4>1, ApInfoParsed
    <3>4. parse_objectinfo(Read(ObjectInfo(q))) =
            <<[kind |-> "EMP", id |-> 1, fields |-> Filled({"NAME", "POSITION"}, x)],
              [kind |-> "CAR", id |-> 2, fields |-> Filled({"NUMBER"}, x)]>>
      BY <3>1, ObjectsParsed
    <3>5. \A i \in DOMAIN happened :
            LET event == Live(happened[i], <<q>>) IN
            event.name = x /\ [event EXCEPT !.name = None] = Live(happened[i], <<>>)
      BY <2>1, <3>1, EventSetIs, NamesArrive
    <3> QED BY <3>2, <3>3, <3>4, <3>5, OpenStates
  <2> QED BY <2>3, <2>4 DEF TextsArrive, x
<1> QED BY <1>1, TypeCorrect, PTL

\* What is left of an event once it is normalized, whatever person it named.
Left(event, t, p, o, code, classic, reason, d, k) ==
    LET resolved == IF code # None THEN resolve_event_code(code) ELSE resolve_classic(classic) IN
    /\ event.time = t /\ event.code = code /\ event.type = resolved.type
    /\ event.category = resolved.category
    /\ event.description = (IF code # None THEN <<code>> ELSE <<classic>>)
    /\ event.point = p /\ event.object = o /\ event.name = None
    /\ event.direction = d /\ event.key = masked(k) /\ event.reason = reason

\* What normalize_event makes of an event without the option for personal data: it has no
\* name, and its object is no part of anything else.
LEMMA Normalized ==
    ASSUME NEW t, NEW p, NEW o, NEW code, NEW classic, NEW reason, NEW d, NEW n, NEW k, NEW line, NEW options, NEW directory,
           ~options.personal
    PROVE  Left(normalize_event(EventWith(t, p, o, code, classic, reason, d, n, k), line, options, directory),
                t, p, o, code, classic, reason, d, k)
<1> DEFINE raw == EventWith(t, p, o, code, classic, reason, d, n, k)
           resolved == IF code # None THEN resolve_event_code(code) ELSE resolve_classic(classic)
           description == IF code # None THEN <<code>> ELSE <<classic>>
           key == masked(k)
           event == normalize_event(raw, line, options, directory)
<1>1. /\ raw.time = t /\ raw.point = p /\ raw.object = o /\ raw.code = code /\ raw.classic = classic
      /\ raw.reason = reason /\ raw.direction = d /\ raw.key = k
  BY DEF EventWith
<1> HIDE DEF raw
<1>2. event = [time |-> t, code |-> code, type |-> resolved.type, category |-> resolved.category,
               description |-> description, point |-> p, object |-> o, name |-> None,
               direction |-> d, key |-> key, reason |-> reason, raw_message |-> line]
  BY <1>1 DEF normalize_event
<1> HIDE DEF resolved, description, key, event
<1>3. /\ event.time = t /\ event.code = code /\ event.type = resolved.type
      /\ event.category = resolved.category
      /\ event.description = description
      /\ event.point = p /\ event.object = o /\ event.name = None
      /\ event.direction = d /\ event.key = key /\ event.reason = reason
  BY <1>2
<1> QED BY <1>3 DEF resolved, description, key, event, raw, Left

\* An event in the EVENT_CE form has a code.
LEMMA CodeIsSome == \A e : Event(e) => e.kind.code # None
  BY EventIs, NoneAssumption

\* No code is in two categories of those that events in the classic form have.
LEMMA Categories ==
    ASSUME NEW c \in {"break_in", "pass_registered", "access_denied"}, NEW code \in Nat, code \in Table[c]
    PROVE  resolve_event_code(code).category = c
<1> DEFINE listed == {l \in DOMAIN Table : code \in Table[l]}
<1>1. c \in listed
  BY DEF Table
<1>2. \A l \in listed : l = c
  <2> SUFFICES ASSUME NEW l \in DOMAIN Table, code \in Table[l] PROVE l = c
    OBVIOUS
  <2>1. \/ c = "break_in" /\ code = 1
        \/ c = "pass_registered" /\ code \in 2..6
        \/ c = "access_denied" /\ code \in 8..15 \cup 45..64 \cup {67, 69, 71, 73, 79, 83, 84, 87, 92}
    BY DEF Table
  <2>2. \/ l = "break_in" /\ code = 1
        \/ l = "pass_registered" /\ code \in 2..6
        \/ l = "access_denied" /\ code \in 8..15 \cup 45..64 \cup {67, 69, 71, 73, 79, 83, 84, 87, 92}
        \/ code \in {16, 17, 18, 19, 20, 21, 22, 23, 24, 25, 28, 29, 30, 31, 32, 36, 37, 38, 39, 40, 42, 43, 44, 70,
                     75, 80, 93, 41, 72, 86, 65, 66, 68, 74, 88, 89, 90, 76, 77, 78, 81, 82, 85, 91}
    BY DEF Table
  <2> QED BY <2>1, <2>2
<1>3. listed # {} /\ (CHOOSE l \in listed : TRUE) = c
  BY <1>1, <1>2
<1> HIDE DEF listed
<1> DEFINE r == [category |-> CHOOSE l \in listed : TRUE, type |-> <<CHOOSE l \in listed : TRUE>>]
<1>4. resolve_event_code(code) = r
  BY <1>3 DEF resolve_event_code, listed
<1>5. r.category = c
  BY <1>3
<1> QED BY <1>4, <1>5

\* The kind of a classic event and its code have one category (resolve_classic,
\* resolve_event_code).
LEMMA SameCategory ==
    ASSUME NEW e, Event(e), Documented(e)
    PROVE  resolve_classic(e.kind.classic).category = resolve_event_code(e.kind.code).category
<1> DEFINE k == e.kind.classic
           c == CLASSIC_CATEGORIES[k]
           code == e.kind.code
<1>1. k \in DOMAIN CLASSIC_CATEGORIES /\ c \in {"break_in", "pass_registered", "access_denied"}
  BY DEF Documented, Identified, Anonymous, CLASSIC_CATEGORIES
<1>2. e.kind \in Kinds
  BY DEF Event
<1>3. code \in Table[c]
  BY <1>1, <1>2, KindsAssumption
<1>4. code \in Nat
  BY EventIs, NumbersAssumption
<1>5. resolve_classic(k).category = c
  <2> HIDE DEF c
  <2>1. resolve_classic(k) = [category |-> c, type |-> <<c>>]
    BY <1>1 DEF resolve_classic, c
  <2> QED BY <2>1
<1> HIDE DEF c, code
<1>6. resolve_event_code(code).category = c
  BY <1>1, <1>3, <1>4, Categories
<1> QED BY <1>5, <1>6 DEF code

\* Any direction is read alike from either form but none, which the classic form cannot say.
LEMMA SameDirection ==
    \A d : d # 0 => normalize_direction_text(Direction(d)) = normalize_direction_code(d)
<1> SUFFICES ASSUME NEW d, d # 0 PROVE normalize_direction_text(Direction(d)) = normalize_direction_code(d)
  OBVIOUS
<1>1. CASE d = 1
  BY <1>1 DEF Direction, normalize_direction_text, normalize_direction_code
<1>2. CASE d = 2
  BY <1>2 DEF Direction, normalize_direction_text, normalize_direction_code
<1>3. CASE d # 1 /\ d # 2
  BY <1>3 DEF Direction, normalize_direction_text, normalize_direction_code
<1> QED BY <1>1, <1>2, <1>3

\* The two forms of an event have one fingerprint, unless it has no direction
\* (SigurEvent.fingerprint).
LEMMA Twins ==
    ASSUME NEW e, Event(e), Documented(e), e.direction # 0, NEW x, NEW y, NEW line, NEW other
    PROVE  fingerprint(normalize_event(ClassicEvent(e), line, Default, x)) =
           fingerprint(normalize_event(LiveEvent(e, None), other, Default, y))
<1> DEFINE o == Object(e.who.object)
           f == normalize_direction_text(Direction(e.direction))
           d == normalize_direction_code(e.direction)
           k == e.who.key
           l == e.kind.classic
           c == e.kind.code
           r == IF e.kind.classic = "DENY" THEN "RULEDENY" ELSE None
           a == normalize_event(EventWith(e.time, Point, o, None, l, r, f, None, k), line, Default, x)
           b == normalize_event(EventWith(e.time, Point, o, c, None, None, d, None, k), other, Default, y)
<1>1. ClassicEvent(e) = EventWith(e.time, Point, o, None, l, r, f, None, k)
      /\ LiveEvent(e, None) = EventWith(e.time, Point, o, c, None, None, d, None, k)
  BY EventsAre
<1>2. ~Default.personal
  BY DEF Default
<1>3. c # None
  BY CodeIsSome
<1>4. f = d
  BY SameDirection
<1>5. resolve_classic(l).category = resolve_event_code(c).category
  BY SameCategory
<1> HIDE DEF o, f, d, k, l, c, r
<1>9. Left(a, e.time, Point, o, None, l, r, f, k)
  BY <1>2, Normalized
<1>10. Left(b, e.time, Point, o, c, None, None, d, k)
  BY <1>2, Normalized
<1> HIDE DEF a, b
<1>6. /\ a.time = e.time /\ a.category = resolve_classic(l).category /\ a.point = Point /\ a.object = o
      /\ a.direction = f /\ a.key = masked(k)
  BY <1>9 DEF Left
<1>7. /\ b.time = e.time /\ b.category = resolve_event_code(c).category /\ b.point = Point /\ b.object = o
      /\ b.direction = d /\ b.key = masked(k)
  BY <1>3, <1>10 DEF Left
<1>8. fingerprint(a) = fingerprint(b)
  BY <1>4, <1>5, <1>6, <1>7 DEF fingerprint
<1> QED BY <1>1, <1>8 DEF a, b

\* In every reachable state, an event has one fingerprint whether it is pushed or comes
\* in a HISTORY reply, and every event of the reply up to the first undocumented one is
\* read (parse_history, SigurEvent.fingerprint).
THEOREM TwinsAlwaysAgree == Spec => []TwinsAgree
<1>1. TypeOK => TwinsAgree
  <2> SUFFICES ASSUME TypeOK PROVE TwinsAgree
    OBVIOUS
  <2> DEFINE es == happened
             x == text
             reply == Reply(es)
  <2>1. es \in Seq(EventSet)
    BY DEF TypeOK
  <2>2. DOMAIN es = 1..Len(es) /\ \A i \in DOMAIN es : Event(es[i])
    BY <2>1, EventSetIs, LenProperties
  <2> HIDE DEF es, x
  <2>3. /\ reply.ok = TRUE /\ DOMAIN reply.events = Reported(es)
        /\ \A i \in Reported(es) : reply.events[i] = ReadEvent(es[i])
    BY <2>1, ReplyIs DEF Answer
  <2>4. ASSUME NEW i \in Reported(es), Documented(es[i]), es[i].direction # 0
        PROVE  fingerprint(Backfilled(es, i, Default, x)) = fingerprint(Pushed(es[i], <<>>, Default, x))
    <3>1. Event(es[i])
      BY <2>2, <2>4 DEF Reported
    <3>2. reply.events[i] = ClassicEvent(es[i])
      BY <2>3, <2>4 DEF ReadEvent
    <3>3. Live(es[i], <<>>) = LiveEvent(es[i], None)
      BY <3>1, LiveIs
    <3>4. \A line, other : fingerprint(normalize_event(ClassicEvent(es[i]), line, Default, x)) =
                           fingerprint(normalize_event(LiveEvent(es[i], None), other, Default, x))
      BY <2>4, <3>1, Twins
    <3> QED BY <3>2, <3>3, <3>4 DEF Backfilled, Pushed
  <2> HIDE DEF reply
  <2> QED BY <2>3, <2>4 DEF TwinsAgree, Documented, Reported, es, x, reply
<1> QED BY <1>1, TypeCorrect, PTL

\* Two events that differ in nothing but the object they name and the line they were read
\* from look the same, but for that line.
LEMMA Alike ==
    ASSUME NEW n, NEW m, NEW t, NEW p, NEW o, NEW q, NEW code, NEW classic, NEW reason, NEW d, NEW k, NEW l,
           NEW options, ~options.personal, masked(k) = masked(l),
           Left(n, t, p, o, code, classic, reason, d, k), Left(m, t, p, q, code, classic, reason, d, l)
    PROVE  ButLine(Shown(n, options), options) = ButLine(Shown(m, options), options)
<1>0. /\ n.time = m.time /\ n.code = m.code /\ n.type = m.type /\ n.category = m.category
      /\ n.description = m.description /\ n.point = m.point /\ n.direction = m.direction /\ n.key = m.key
      /\ n.reason = m.reason
  BY DEF Left
<1>1. Public(n) = Public(m)
  BY <1>0 DEF Public
<1>2. as_bus_payload(n, FALSE, options.personal) = as_bus_payload(m, FALSE, options.personal)
  BY <1>1 DEF as_bus_payload
<1>3. webhook_payload(n, options) = webhook_payload(m, options)
  BY <1>2 DEF webhook_payload
<1>4. Sensors(n, options) = Sensors(m, options)
  BY <1>0 DEF Sensors
<1>5. EventEntity(n, options) = EventEntity(m, options)
  BY <1>1 DEF EventEntity
<1>6. Diagnostics(n, options) = Diagnostics(m, options)
  BY <1>0 DEF Diagnostics
<1>7. CASE ~options.raw
  <2>1. BusEvent(n, options) = BusEvent(m, options)
    BY <1>1, <1>7 DEF BusEvent, as_bus_payload
  <2> QED BY <1>3, <1>4, <1>5, <1>6, <2>1 DEF Shown
<1>8. CASE options.raw
  <2> DEFINE u == Public(m)
             a == [public |-> u, object |-> None, name |-> None, raw_message |-> n.raw_message]
             b == [public |-> u, object |-> None, name |-> None, raw_message |-> m.raw_message]
             w == webhook_payload(m, options)
             s == Sensors(m, options)
             v == EventEntity(m, options)
             g == Diagnostics(m, options)
             c == [bus |-> a, webhook |-> w, sensors |-> s, entity |-> v, diagnostics |-> g]
             h == [bus |-> b, webhook |-> w, sensors |-> s, entity |-> v, diagnostics |-> g]
  <2>1. BusEvent(n, options) = a /\ BusEvent(m, options) = b
    BY <1>1, <1>8 DEF BusEvent, as_bus_payload
  <2>2. [a EXCEPT !.raw_message = None] = [b EXCEPT !.raw_message = None]
    <3> HIDE DEF u
    <3> QED OBVIOUS
  <2> HIDE DEF a, b, w, s, v, g
  <2>3. Shown(n, options) = c /\ Shown(m, options) = h
    BY <1>3, <1>4, <1>5, <1>6, <2>1 DEF Shown, w, s, v, g
  <2>4. [c EXCEPT !.bus.raw_message = None] = [h EXCEPT !.bus.raw_message = None]
    <3>1. [c EXCEPT !.bus.raw_message = None] =
          [bus |-> [a EXCEPT !.raw_message = None], webhook |-> w, sensors |-> s, entity |-> v, diagnostics |-> g]
      OBVIOUS
    <3>2. [h EXCEPT !.bus.raw_message = None] =
          [bus |-> [b EXCEPT !.raw_message = None], webhook |-> w, sensors |-> s, entity |-> v, diagnostics |-> g]
      OBVIOUS
    <3> QED BY <2>2, <3>1, <3>2
  <2> HIDE DEF c, h
  <2> QED BY <1>8, <2>3, <2>4 DEF ButLine
<1> QED BY <1>7, <1>8

\* Two events that differ in nothing but the object, the name, the hidden part of the key
\* and the line look the same wherever they are shown, but for the line.
LEMMA ShownAlike ==
    ASSUME NEW t, NEW p, NEW o, NEW q, NEW code, NEW classic, NEW reason, NEW d, NEW n, NEW m, NEW k, NEW l,
           NEW options, NEW x, NEW y, NEW line, NEW otherLine, ~options.personal, masked(k) = masked(l),
           NEW raw, NEW other,
           raw = EventWith(t, p, o, code, classic, reason, d, n, k),
           other = EventWith(t, p, q, code, classic, reason, d, m, l)
    PROVE  ButLine(Shown(normalize_event(raw, line, options, x), options), options) =
           ButLine(Shown(normalize_event(other, otherLine, options, y), options), options)
<1> DEFINE a == normalize_event(raw, line, options, x)
           b == normalize_event(other, otherLine, options, y)
<1>1. Left(a, t, p, o, code, classic, reason, d, k)
  BY Normalized
<1>2. Left(b, t, p, q, code, classic, reason, d, l)
  BY Normalized
<1> HIDE DEF a, b
<1>3. ButLine(Shown(a, options), options) = ButLine(Shown(b, options), options)
  BY <1>1, <1>2, Alike
<1> QED BY <1>3 DEF a, b

\* In every reachable state, without the option for personal data nothing that is shown
\* of an event depends on who passed, but for the line debug_raw_events puts on the bus
\* (SigurEvent.as_bus_payload and the other outlets).
THEOREM NobodyIsNamed == Spec => []NobodyNamed
<1>1. TypeOK => NobodyNamed
  <2> SUFFICES ASSUME TypeOK, NEW i \in DOMAIN happened, NEW j \in DOMAIN happened,
                      happened[i].kind = happened[j].kind, happened[i].time = happened[j].time,
                      happened[i].direction = happened[j].direction,
                      masked(happened[i].who.key) = masked(happened[j].who.key), NEW options \in Private
               PROVE  LET e == happened[i]
                          f == happened[j]
                      IN
                      /\ ButLine(Shown(Pushed(e, <<quote(text)>>, options, text), options), options) =
                         ButLine(Shown(Pushed(f, <<>>, options, <<>>), options), options)
                      /\ ButLine(Shown(Backfilled(<<e>>, 1, options, text), options), options) =
                         ButLine(Shown(Backfilled(<<f>>, 1, options, <<>>), options), options)
    BY DEF NobodyNamed
  <2> DEFINE e == happened[i]
             f == happened[j]
             x == text
             none == <<>>
             kind == e.kind
             direction == e.direction
  <2>1. e \in EventSet /\ f \in EventSet /\ x \in Text /\ ~options.personal
    <3>1. ~options.personal
      BY DEF Private
    <3> QED BY <3>1, LenProperties DEF TypeOK
  <2>2. Event(e) /\ Event(f)
    BY <2>1, EventSetIs
  <2>3. f.kind = kind /\ f.direction = direction /\ f.time = e.time /\ masked(e.who.key) = masked(f.who.key)
    OBVIOUS
  <2> HIDE DEF e, f, x, none, kind, direction
  <2>4. Carries(quote(x), x)
    BY <2>1, Carried
  <2>5. ButLine(Shown(Pushed(e, <<quote(x)>>, options, x), options), options) =
        ButLine(Shown(Pushed(f, none, options, none), options), options)
    <3> DEFINE d == normalize_direction_code(direction)
               o == Object(e.who.object)
               p == Object(f.who.object)
    <3>1. Live(e, <<quote(x)>>) = EventWith(e.time, Point, o, kind.code, None, None, d, x, e.who.key)
      BY <2>2, <2>4, LiveIs, EventsAre DEF kind, direction
    <3>2. Live(f, none) = EventWith(e.time, Point, p, kind.code, None, None, d, None, f.who.key)
      BY <2>2, <2>3, LiveIs, EventsAre DEF none
    <3> HIDE DEF d, o, p
    <3> QED BY <2>1, <2>3, <3>1, <3>2, ShownAlike DEF Pushed
  <2>6. \A g \in EventSet : Reply(<<g>>).events[1] = ReadEvent(g)
    <3> SUFFICES ASSUME NEW g \in EventSet PROVE Reply(<<g>>).events[1] = ReadEvent(g)
      OBVIOUS
    <3> DEFINE gs == <<g>>
    <3>1. gs \in Seq(EventSet) /\ DOMAIN gs = {1} /\ gs[1] = g
      OBVIOUS
    <3> HIDE DEF gs
    <3>2. 1 \in Reported(gs)
      <4>1. 1..(1 - 1) = {}
        OBVIOUS
      <4> QED BY <3>1, <4>1 DEF Reported
    <3>3. Reply(gs).events[1] = ReadEvent(gs[1])
      BY <3>1, <3>2, ReplyIs DEF Answer
    <3> QED BY <3>1, <3>3 DEF gs
  <2>7. \A line, other : ButLine(Shown(normalize_event(ReadEvent(e), line, options, x), options), options) =
                         ButLine(Shown(normalize_event(ReadEvent(f), other, options, none), options), options)
    <3> DEFINE l == kind.classic
    <3>1. CASE Documented(e)
      <4> DEFINE d == normalize_direction_text(Direction(direction))
                 o == Object(e.who.object)
                 p == Object(f.who.object)
                 r == IF kind.classic = "DENY" THEN "RULEDENY" ELSE None
      <4>1. ReadEvent(e) = EventWith(e.time, Point, o, None, l, r, d, None, e.who.key)
        BY <3>1, EventsAre DEF ReadEvent, kind, direction
      <4>2. ReadEvent(f) = EventWith(e.time, Point, p, None, l, r, d, None, f.who.key)
        BY <2>3, <3>1, EventsAre DEF ReadEvent, Documented, kind, direction
      <4> HIDE DEF d, o, p, r, l
      <4> QED BY <2>1, <2>3, <4>1, <4>2, ShownAlike
    <3>2. CASE ~Documented(e)
      <4> DEFINE u == "unknown"
      <4>1. ReadEvent(e) = EventWith(e.time, None, None, None, l, None, u, None, UnknownKey)
        BY <3>2, EventsAre DEF ReadEvent, kind
      <4>2. ReadEvent(f) = EventWith(e.time, None, None, None, l, None, u, None, UnknownKey)
        BY <2>3, <3>2, EventsAre DEF ReadEvent, Documented, kind
      <4> HIDE DEF l, u
      <4>3. ~options.personal /\ masked(UnknownKey) = masked(UnknownKey)
        BY <2>1
      <4> QED BY <4>1, <4>2, <4>3, ShownAlike
    <3> QED BY <3>1, <3>2
  <2>8. ButLine(Shown(Backfilled(<<e>>, 1, options, x), options), options) =
        ButLine(Shown(Backfilled(<<f>>, 1, options, none), options), options)
    BY <2>1, <2>6, <2>7 DEF Backfilled
  <2> QED BY <2>5, <2>8 DEF e, f, x, none
<1> QED BY <1>1, TypeCorrect, PTL
=============================================================================
