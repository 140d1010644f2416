----------------------------- MODULE Chain_proofs -----------------------------
(***************************************************************************)
(* Proofs about Chain, for any number of records, any room in the          *)
(* connection and the pipe, any failures and any times of the records that *)
(* are a second apart: the copy has no gaps of its own, the state file     *)
(* says no more than what is known, records are passed on again only after *)
(* a loss of state, overlap removal never lets the copy go back, and an    *)
(* orderly end leaves the last record passed on in the state file.         *)
(***************************************************************************)
EXTENDS Chain, SequenceTheorems, TLAPS

-----------------------------------------------------------------------------
(* Sequences of records.                                                   *)

LEMMA TakeFirst ==
  ASSUME NEW s \in Seq(Rec), s # <<>>
  PROVE  /\ Head(s) \in Rec /\ Tail(s) \in Seq(Rec)
         /\ Len(s) \in Nat \ {0} /\ Len(Tail(s)) = Len(s) - 1
         /\ Head(s) = s[1]
         /\ \A k \in 1..Len(Tail(s)) : Tail(s)[k] = s[k + 1]
         /\ InSeq(s) = {Head(s)} \cup InSeq(Tail(s))
<1>1. /\ Head(s) \in Rec /\ Tail(s) \in Seq(Rec)
      /\ Len(Tail(s)) = Len(s) - 1
      /\ \A k \in 1..Len(Tail(s)) : Tail(s)[k] = s[k + 1]
  BY HeadTailProperties
<1>2. Len(s) \in Nat \ {0} /\ Head(s) = s[1]
  BY EmptySeq
<1>3. \A k \in 1..Len(s) : s[k] \in {Head(s)} \cup InSeq(Tail(s))
  <2> TAKE k \in 1..Len(s)
  <2>1. CASE k = 1
    BY <1>2, <2>1
  <2>2. CASE k # 1
    <3>1. (k - 1) \in 1..Len(Tail(s)) /\ Tail(s)[k - 1] = s[k]
      BY <1>1, <1>2, <2>2
    <3> QED
      BY <3>1 DEF InSeq
  <2> QED
    BY <2>1, <2>2
<1>4. \A k \in 1..Len(Tail(s)) : Tail(s)[k] \in InSeq(s)
  BY <1>1, <1>2 DEF InSeq
<1>5. Head(s) \in InSeq(s)
  BY <1>2 DEF InSeq
<1> QED
  BY <1>1, <1>2, <1>3, <1>4, <1>5 DEF InSeq

LEMMA PutLast ==
  ASSUME NEW s \in Seq(Rec), NEW n \in Rec
  PROVE  /\ Append(s, n) \in Seq(Rec)
         /\ Len(s) \in Nat /\ Len(Append(s, n)) = Len(s) + 1
         /\ \A k \in 1..Len(s) : Append(s, n)[k] = s[k]
         /\ Append(s, n)[Len(s) + 1] = n
         /\ InSeq(Append(s, n)) = InSeq(s) \cup {n}
<1>1. /\ Append(s, n) \in Seq(Rec) /\ Len(Append(s, n)) = Len(s) + 1
      /\ \A k \in 1..Len(s) : Append(s, n)[k] = s[k]
      /\ Append(s, n)[Len(s) + 1] = n
      /\ Len(s) \in Nat
  BY AppendProperties, LenProperties
<1>2. \A k \in 1..(Len(s) + 1) : Append(s, n)[k] \in InSeq(s) \cup {n}
  BY <1>1 DEF InSeq
<1>3. \A k \in 1..Len(s) : s[k] \in InSeq(Append(s, n))
  BY <1>1 DEF InSeq
<1>4. n \in InSeq(Append(s, n))
  BY <1>1 DEF InSeq
<1> QED
  BY <1>1, <1>2, <1>3, <1>4 DEF InSeq

\* A beginning of a sequence: what of the connection's data is received still.
Begins(t, s) ==
  /\ t \in Seq(Rec) /\ Len(t) \in Nat /\ Len(t) <= Len(s)
  /\ \A k \in 1..Len(t) : t[k] = s[k]

LEMMA TakePart ==
  ASSUME net \in Seq(Rec), NEW k \in 0..Len(net)
  PROVE  Begins(Received(k), net)
<1>1. Len(net) \in Nat /\ \A j \in 1..Len(net) : net[j] \in Rec
  BY LenProperties, ElementOfSeq
<1>2. \A j \in 1..k : net[j] \in Rec
  BY <1>1
<1>3. /\ SubSeq(net, 1, k) \in Seq(Rec)
      /\ Len(SubSeq(net, 1, k)) = IF 1 <= k THEN k - 1 + 1 ELSE 0
      /\ \A j \in 1..(k - 1 + 1) : SubSeq(net, 1, k)[j] = net[1 + j - 1]
  BY <1>1, <1>2, SubSeqProperties
<1> QED
  BY <1>1, <1>3 DEF Begins, Received

LEMMA WholeOrNone ==
  ASSUME NEW s \in Seq(Rec)
  PROVE  Begins(s, s) /\ Begins(<<>>, s)
BY LenProperties, EmptySeq DEF Begins

LEMMA Elements ==
  ASSUME NEW s \in Seq(Rec)
  PROVE  /\ Len(s) \in Nat /\ InSeq(s) \subseteq Rec
         /\ \A k \in 1..Len(s) : s[k] \in Rec /\ s[k] \in Int
BY LenProperties, ElementOfSeq, ChainAssumption DEF InSeq, Rec

-----------------------------------------------------------------------------
(* What the invariant says about numbers and sequences.                    *)

\* All records up to n are in S.
Covered(n, S) == \A i \in 0..n : i \in S

\* Each record of s has all records before it in S, or earlier in s.
Chained(s, S) ==
  \A k \in 1..Len(s) : \A i \in 0..(s[k] - 1) :
    i \in S \/ \E j \in 1..(k - 1) : s[j] = i

LEMMA CoveredMore ==
  ASSUME NEW n \in Int, NEW S, NEW T, Covered(n, S), S \subseteq T
  PROVE  Covered(n, T)
BY DEF Covered

LEMMA ChainedMore ==
  ASSUME NEW s, NEW S, NEW T, Chained(s, S), S \subseteq T
  PROVE  Chained(s, T)
BY DEF Chained

LEMMA ChainedPart ==
  ASSUME NEW s \in Seq(Rec), NEW t, Begins(t, s), NEW S, Chained(s, S)
  PROVE  Chained(t, S)
<1>1. ASSUME NEW k \in 1..Len(t), NEW i \in 0..(t[k] - 1)
      PROVE  i \in S \/ \E j \in 1..(k - 1) : t[j] = i
  <2>1. k \in 1..Len(s) /\ t[k] = s[k] /\ \A j \in 1..(k - 1) : t[j] = s[j]
    BY Elements DEF Begins
  <2> QED
    BY <2>1 DEF Chained
<1> QED
  BY <1>1 DEF Chained

LEMMA ChainedTail ==
  ASSUME NEW s \in Seq(Rec), s # <<>>, NEW S, Chained(s, S)
  PROVE  /\ Covered(Head(s) - 1, S)
         /\ Chained(Tail(s), S \cup {Head(s)})
<1>1. 1 \in 1..Len(s) /\ s[1] = Head(s) /\ 1..(1 - 1) = {}
  BY TakeFirst
<1>2. Covered(Head(s) - 1, S)
  BY <1>1 DEF Chained, Covered
<1>3. ASSUME NEW k \in 1..Len(Tail(s)), NEW i \in 0..(Tail(s)[k] - 1)
      PROVE  i \in S \cup {Head(s)} \/ \E j \in 1..(k - 1) : Tail(s)[j] = i
  <2>1. (k + 1) \in 1..Len(s) /\ Tail(s)[k] = s[k + 1]
    BY TakeFirst
  <2>2. i \in S \/ \E j \in 1..((k + 1) - 1) : s[j] = i
    BY <2>1 DEF Chained
  <2>3. ASSUME NEW j \in 1..k, s[j] = i, j # 1
        PROVE  \E l \in 1..(k - 1) : Tail(s)[l] = i
    <3>1. (j - 1) \in 1..(k - 1) /\ (j - 1) \in 1..Len(Tail(s))
      BY <2>3, TakeFirst
    <3>2. Tail(s)[j - 1] = s[(j - 1) + 1] /\ (j - 1) + 1 = j
      BY <3>1, TakeFirst
    <3> QED
      BY <2>3, <3>1, <3>2
  <2> QED
    BY <1>1, <2>2, <2>3
<1> QED
  BY <1>2, <1>3 DEF Chained

LEMMA ChainedAppend ==
  ASSUME NEW s \in Seq(Rec), NEW n \in Rec, NEW S, Chained(s, S),
         Covered(n - 1, S \cup InSeq(s))
  PROVE  Chained(Append(s, n), S)
<1>1. ASSUME NEW k \in 1..Len(Append(s, n)), NEW i \in 0..(Append(s, n)[k] - 1)
      PROVE  i \in S \/ \E j \in 1..(k - 1) : Append(s, n)[j] = i
  <2>1. CASE k \in 1..Len(s)
    <3>1. Append(s, n)[k] = s[k] /\ \A j \in 1..(k - 1) : Append(s, n)[j] = s[j]
      BY <2>1, PutLast
    <3> QED
      BY <2>1, <3>1 DEF Chained
  <2>2. CASE k = Len(s) + 1
    <3>1. Append(s, n)[k] = n /\ \A j \in 1..(k - 1) : Append(s, n)[j] = s[j]
      BY <2>2, PutLast
    <3>2. i \in S \/ \E j \in 1..Len(s) : s[j] = i
      BY <3>1 DEF Covered, InSeq
    <3> QED
      BY <2>2, <3>1, <3>2, PutLast
  <2> QED
    BY <2>1, <2>2, PutLast
<1> QED
  BY <1>1 DEF Chained

-----------------------------------------------------------------------------
(* Type correctness.                                                       *)

\* What the proofs need of the constants and the two large numbers; the times
\* of the records are looked at where overlaps are removed.
LEMMA Sizes ==
  /\ MaxRec \in Nat /\ MaxFails \in Nat
  /\ Second \in Nat /\ Second > 200 /\ RecnoMod \in Nat /\ RecnoMod > 1
<1>1. MaxRec \in Nat /\ MaxFails \in Nat
  BY ChainAssumption
<1>2. Second \in Nat /\ Second > 200 /\ RecnoMod \in Nat /\ RecnoMod > 1
  BY SMT DEF Second, RecnoMod
<1> QED
  BY <1>1, <1>2

LEMMA Remainder ==
  ASSUME NEW n \in Nat, NEW m \in Nat \ {0}
  PROVE  n % m \in 0..(m - 1)
BY Z3

LEMMA InitTypes ==
  ASSUME Init
  PROVE  TypeOK
<1>1. net \in Seq(Rec) /\ pipe \in Seq(Rec)
  BY EmptySeq DEF Init
<1>2. table \in [recno : -1..(RecnoMod - 1), it : Int]
  BY Sizes DEF Init, NoEntry
<1>3. /\ seqnum \in -1..(MaxRec - 1) /\ seqfile \in -1..(MaxRec - 1)
      /\ last \in -1..(MaxRec - 1) /\ fails \in 0..MaxFails
      /\ lo \in 0..hi /\ hi \in 0..MaxRec /\ pos \in 0..hi
  BY Sizes DEF Init
<1>4. /\ got \subseteq Rec /\ again \subseteq Rec /\ passed \subseteq Rec
      /\ spilled \subseteq Rec
  BY DEF Init
<1> QED
  BY <1>1, <1>2, <1>3, <1>4 DEF Init, TypeOK

\* What the remote server answers with is one of the records it has or its next.
LEMMA AnswersInRange ==
  ASSUME TypeOK, NEW n \in Requested(seqnum)
  PROVE  n \in 0..hi
BY ChainAssumption DEF TypeOK, Requested, Answers

LEMMA PartOfNet ==
  ASSUME TypeOK, \E k \in 0..Len(net) : net' = Received(k)
  PROVE  Begins(net', net)
BY TakePart DEF TypeOK

LEMMA EntryType ==
  ASSUME TypeOK, NEW i \in Rec
  PROVE  /\ EntryAfter(i) \in [recno : -1..(RecnoMod - 1), it : Int]
         /\ Timetable(i) \in [recno : -1..(RecnoMod - 1), it : Int]
<1>1. i \in 0..MaxRec /\ (i + 1) \in 0..MaxRec
  BY ChainAssumption DEF Rec
<1>2. Start(i) \in Int /\ Start(i + 1) \in Int
  BY <1>1, ChainAssumption
<1>3. (i + 1) % RecnoMod \in -1..(RecnoMod - 1) /\ -1 \in -1..(RecnoMod - 1)
  BY <1>1, Sizes, Remainder
<1> QED
  BY <1>2, <1>3 DEF EntryAfter, Timetable, NoEntry

LEMMA FailureCounted ==
  ASSUME TypeOK, Fails
  PROVE  fails' \in 0..MaxFails
BY Sizes DEF TypeOK, Fails

\* Shutdown may send SIGTERM to the child.
LEMMA ShutdownTypes ==
  ASSUME TypeOK, Shutdown
  PROVE  /\ net' \in Seq(Rec) /\ proc' = "shutdown"
         /\ child' \in {"none", "run", "term", "zombie"}
         /\ link' \in {"down", "up", "stalled", "ended"}
         /\ sigterm_sent' \in BOOLEAN
<1>1. CASE CloseConnection
  BY <1>1, PartOfNet DEF Shutdown, CloseConnection, Begins, TypeOK
<1>2. CASE UNCHANGED <<sigterm_sent, child, link, net>>
  BY <1>2 DEF Shutdown, TypeOK
<1> QED
  BY <1>1, <1>2 DEF Shutdown

LEMMA StepTypes ==
  ASSUME TypeOK, [Next]_vars
  PROVE  TypeOK'
<1> USE Sizes
<1>1. CASE Produce
  <2>1. lo' \in 0..hi' /\ hi' \in 0..MaxRec /\ pos' \in 0..hi' /\ (lo' = 0 \/ lo' < hi')
    BY <1>1, ChainAssumption DEF Produce, TypeOK, socket
  <2> QED
    BY <1>1, <2>1 DEF Produce, TypeOK, socket, process, group, output
<1>2. CASE Connect
  <2>1. PICK n \in Requested(seqnum) :
          pos' = n /\ passed' = passed \cup ((seqnum + 1)..(n - 1))
    BY <1>2 DEF Connect
  <2>2. n \in 0..hi
    BY AnswersInRange
  <2>3. passed' \subseteq Rec
    BY <2>1, <2>2 DEF TypeOK, Rec
  <2> QED
    BY <1>2, <2>1, <2>2, <2>3 DEF Connect, TypeOK, remote, process, group, output
<1>3. CASE ServerSends
  <2> DEFINE n == IF pos < lo THEN lo ELSE pos
  <2>1. n \in 0..(hi - 1) /\ n \in Rec
    BY <1>3 DEF ServerSends, TypeOK, Rec
  <2>2. net' = Append(net, n) /\ pos' = n + 1 /\ passed' = passed \cup (pos..(n - 1))
    BY <1>3 DEF ServerSends
  <2>3. net' \in Seq(Rec)
    BY <2>1, <2>2, PutLast DEF TypeOK
  <2>4. passed' \subseteq Rec
    BY <2>1, <2>2 DEF TypeOK, Rec
  <2> HIDE DEF n
  <2>5. pos' \in 0..hi
    BY <2>1, <2>2 DEF TypeOK
  <2> QED
    BY <1>3, <2>3, <2>4, <2>5 DEF ServerSends, TypeOK, remote, process, group, output
<1>4. CASE ServerEnds
  BY <1>4 DEF ServerEnds, TypeOK, remote, process, group, output
<1>5. CASE NetTimeout
  BY <1>5 DEF NetTimeout, TypeOK, remote, process, group, output
<1>6. CASE LinkStalls
  BY <1>6 DEF LinkStalls, Fails, TypeOK, remote, process, group, output
<1>7. CASE ServerGone
  <2>1. fails' \in 0..MaxFails
    BY <1>7, FailureCounted DEF ServerGone
  <2> QED
    BY <1>7, <2>1, ZenonT(30) DEF ServerGone, TypeOK, remote, socket, process, group, output
<1>8. CASE LinkFails
  <2>1. net' \in Seq(Rec)
    BY <1>8, PartOfNet DEF LinkFails, Begins
  <2> QED
    BY <1>8, <2>1 DEF LinkFails, Fails, TypeOK, remote, process, group, output
<1>9. CASE Collect
  <2>1. /\ net' \in Seq(Rec) /\ pipe' \in Seq(Rec) /\ Head(net) \in -1..(MaxRec - 1)
    BY <1>9, TakeFirst, PutLast DEF Collect, TypeOK, Rec
  <2> QED
    BY <1>9, <2>1 DEF Collect, Saves, TypeOK, remote, group, output
<1>10. CASE BrokenPipe \/ WriteTimeout
  <2>1. Head(net) \in -1..(MaxRec - 1) /\ <<>> \in Seq(Rec)
    BY <1>10, TakeFirst, EmptySeq
       DEF BrokenPipe, WriteTimeout, WriteFails, TypeOK, Rec
  <2>2. fails' \in 0..MaxFails
    BY <1>10 DEF BrokenPipe, WriteTimeout, Fails, TypeOK
  <2> QED
    BY <1>10, <2>1, <2>2 DEF BrokenPipe, WriteTimeout, WriteFails, SavedAfterWrite,
       Gone, TypeOK, remote, group, output
<1>11. CASE ExitsAtEnd \/ ExitsOnTerm
  <2>1. <<>> \in Seq(Rec)
    BY EmptySeq
  <2> QED
    BY <1>11, <2>1, SMTT(30) DEF ExitsAtEnd, ExitsOnTerm, Exits, Gone, TypeOK, remote, group, output
<1>12. CASE Crashes \/ KillConnection
  <2>1. Killed /\ <<>> \in Seq(Rec)
    BY <1>12, EmptySeq DEF Crashes, KillConnection
  <2>2. fails' \in 0..MaxFails
    BY <1>12, FailureCounted DEF Crashes, KillConnection, TypeOK
  <2>3. UNCHANGED <<proc, pid, parent_fd, sigterm_sent>> /\ sigkill_sent' \in BOOLEAN
    BY <1>12 DEF Crashes, KillConnection, TypeOK, group
  <2> QED
    BY <2>1, <2>2, <2>3 DEF Killed, Gone, TypeOK, remote, output
<1>13. CASE OpenConnection
  <2>1. <<>> \in Seq(Rec)
    BY EmptySeq
  <2> QED
    BY <1>13, <2>1 DEF OpenConnection, Recovered, TypeOK, remote, socket, output
<1>14. CASE Reap
  BY <1>14 DEF Reap, TypeOK, remote, socket, output
<1>15. CASE ConfirmShutdown
  BY <1>15 DEF ConfirmShutdown, TypeOK, remote, socket, process, output
<1>16. CASE UptimeOver
  <2>1. net' \in Seq(Rec)
    BY <1>16, PartOfNet DEF UptimeOver, CloseConnection, Begins
  <2> QED
    BY <1>16, <2>1 DEF UptimeOver, CloseConnection, Fails, TypeOK, remote, output
<1>17. CASE Terminate
  BY <1>17, FailureCounted, ShutdownTypes DEF Terminate, Shutdown, TypeOK, remote
<1>18. CASE MainKilled
  <2>1. pipe' \in Seq(Rec) /\ spilled' \subseteq Rec
    BY <1>18, EmptySeq, Elements DEF MainKilled, MainGone, TypeOK
  <2>2. /\ fails' \in 0..MaxFails /\ child' \in {"none", "run", "term", "zombie"}
        /\ pid' = FALSE /\ parent_fd' = FALSE /\ proc' = "none"
    BY <1>18 DEF MainKilled, MainGone, Fails, TypeOK
  <2> QED
    BY <1>18, <2>1, <2>2 DEF MainKilled, MainGone, TypeOK, remote, socket, output
<1>19. CASE MainStarts
  <2>1. table' \in [recno : -1..(RecnoMod - 1), it : Int]
    <3>1. last \in Rec \/ last = -1
      BY DEF TypeOK, Rec
    <3>2. NoEntry \in [recno : -1..(RecnoMod - 1), it : Int]
      BY DEF NoEntry
    <3> QED
      BY <1>19, <3>1, <3>2, EntryType DEF MainStarts
  <2> QED
    BY <1>19, <2>1 DEF MainStarts, TypeOK, remote, socket, process
<1>20. CASE Read
  <2>1. /\ pipe' \in Seq(Rec) /\ Head(pipe) \in Rec
        /\ Head(pipe) \in -1..(MaxRec - 1)
    BY <1>20, TakeFirst DEF Read, TypeOK, Rec
  <2>2. /\ table' \in [recno : -1..(RecnoMod - 1), it : Int]
        /\ last' \in -1..(MaxRec - 1) /\ got' \subseteq Rec /\ again' \subseteq Rec
    BY <1>20, <2>1, EntryType DEF Read, PassOn, TypeOK, output
  <2> QED
    BY <1>20, <2>1, <2>2 DEF Read, TypeOK, remote, socket, process, group
<1>21. CASE PassFails
  <2>1. CASE proc = "shutdown" /\ MainGone
    <3>1. /\ pipe' \in Seq(Rec) /\ spilled' \subseteq Rec
          /\ pid' = FALSE /\ parent_fd' = FALSE /\ proc' = "none"
      BY <2>1, EmptySeq, Elements DEF MainGone, TypeOK
    <3> QED
      BY <1>21, <2>1, <3>1 DEF PassFails, MainGone, TypeOK, remote, socket, output
  <2>2. CASE Shutdown /\ table' = EntryAfter(Head(pipe)) /\ pipe' = Tail(pipe)
               /\ spilled' = spilled \cup {Head(pipe)}
    <3>1. pipe' \in Seq(Rec) /\ Head(pipe) \in Rec
      BY <1>21, <2>2, TakeFirst DEF PassFails, TypeOK
    <3>2. table' \in [recno : -1..(RecnoMod - 1), it : Int] /\ spilled' \subseteq Rec
      BY <2>2, <3>1, EntryType DEF TypeOK
    <3>3. fails' = fails
      BY <1>21 DEF PassFails
    <3> QED
      BY <2>2, <3>1, <3>2, <3>3, ShutdownTypes DEF Shutdown, TypeOK, remote
  <2> QED
    BY <1>21, <2>1, <2>2 DEF PassFails
<1>22. CASE UNCHANGED vars
  BY <1>22 DEF vars, TypeOK, remote, socket, process, group, output
<1> QED
  BY <1>1, <1>2, <1>3, <1>4, <1>5, <1>6, <1>7, <1>8, <1>9, <1>10, <1>11, <1>12, <1>13,
     <1>14, <1>15, <1>16, <1>17, <1>18, <1>19, <1>20, <1>21, <1>22
     DEF Next, Steps, Failures

-----------------------------------------------------------------------------
(* The inductive invariant.                                                *)

\* What is known, and what the main process will read.
InHand == Known \cup InSeq(pipe)

\* The state file and the child's number say no more than what is in hand, and
\* what comes over the connection continues it.
ChildSide ==
  /\ Covered(seqfile, InHand)
  /\ Alive => Covered(seqnum, InHand)
  /\ Chained(net, InHand)
  /\ link # "down" => Covered(pos - 1, InHand \cup InSeq(net))

\* What the main process reads continues what is known.
PipeSide ==
  /\ Chained(pipe, Known)
  /\ \A j \in got : Covered(j, Known)
  /\ ~parent_fd => pipe = <<>>
  /\ proc = "none" => ~parent_fd

\* Whether the entry decides about records that are passed on.
Strict == mode.overlap = "full" /\ mode.timetable /\ proc # "none" /\ last # -1

\* The entry of the stream is the end of a record that is known, and later than
\* the last one passed on.
TableSide ==
  /\ table # NoEntry =>
       \E n \in Rec : Covered(n, Known) /\ table.it \in {Start(n) + 1, Start(n + 1)}
  /\ last # -1 => last \in got
  /\ Strict => table # NoEntry /\ table.it > Start(last)

CopyInv == ChildSide /\ PipeSide /\ TableSide

LEMMA InitCopy ==
  ASSUME Init
  PROVE  CopyInv
<1>1. InSeq(<<>>) = {} /\ Len(<<>>) = 0
  BY EmptySeq DEF InSeq
<1>2. ChildSide
  BY <1>1 DEF Init, ChildSide, Covered, Chained, Alive
<1>3. PipeSide
  BY <1>1 DEF Init, PipeSide, Chained
<1>4. TableSide
  BY DEF Init, TableSide, Strict
<1> QED
  BY <1>2, <1>3, <1>4 DEF CopyInv

LEMMA ChildSideStays ==
  ASSUME TypeOK, ChildSide, InHand \subseteq InHand', Begins(net', net),
         seqfile' \in {seqfile, -1} \/ (Alive /\ seqfile' = seqnum),
         Alive' => (Alive /\ seqnum' = seqnum) \/ seqnum' = seqfile,
         link' # "down" => link # "down" /\ pos' = pos /\ net' = net
  PROVE  ChildSide'
<1>1. seqfile \in Int /\ seqnum \in Int /\ pos - 1 \in Int
  BY Sizes DEF TypeOK
<1>2. Covered(-1, InHand')
  BY DEF Covered
<1>3. Covered(seqfile, InHand') /\ (Alive => Covered(seqnum, InHand'))
  BY <1>1, CoveredMore DEF ChildSide
<1>4. Covered(seqfile', InHand')
  BY <1>2, <1>3
<1>5. Alive' => Covered(seqnum', InHand')
  BY <1>3
<1>6. Chained(net', InHand')
  <2>1. Chained(net', InHand)
    BY ChainedPart DEF ChildSide, TypeOK
  <2> QED
    BY <2>1, ChainedMore
<1>7. link' # "down" => Covered(pos' - 1, InHand' \cup InSeq(net'))
  <2> SUFFICES ASSUME link' # "down"
               PROVE  Covered(pos - 1, InHand' \cup InSeq(net))
    OBVIOUS
  <2> QED
    BY <1>1, CoveredMore DEF ChildSide
<1> QED
  BY <1>4, <1>5, <1>6, <1>7 DEF ChildSide

LEMMA PipeSideStays ==
  ASSUME TypeOK, PipeSide, Known \subseteq Known', UNCHANGED <<pipe, got>>,
         ~parent_fd' => pipe' = <<>>, proc' = "none" => ~parent_fd'
  PROVE  PipeSide'
<1>1. Chained(pipe', Known')
  BY ChainedMore DEF PipeSide
<1>2. ASSUME NEW j \in got
      PROVE  Covered(j, Known')
  BY CoveredMore, Sizes DEF PipeSide, TypeOK, Rec
<1> QED
  BY <1>1, <1>2 DEF PipeSide

LEMMA TableSideStays ==
  ASSUME TypeOK, TableSide, Known \subseteq Known',
         UNCHANGED <<mode, table, got, last>>, proc' = "none" \/ proc # "none"
  PROVE  TableSide'
<1>1. ASSUME table' # NoEntry
      PROVE  \E n \in Rec : Covered(n, Known') /\ table'.it \in {Start(n) + 1, Start(n + 1)}
  <2>1. PICK n \in Rec : Covered(n, Known) /\ table.it \in {Start(n) + 1, Start(n + 1)}
    BY <1>1 DEF TableSide
  <2>2. Covered(n, Known')
    BY <2>1, CoveredMore, Sizes DEF Rec
  <2> QED
    BY <2>1, <2>2
<1>2. last' # -1 => last' \in got'
  BY DEF TableSide
<1>3. Strict' => table' # NoEntry /\ table'.it > Start(last')
  BY DEF TableSide, Strict
<1> QED
  BY <1>1, <1>2, <1>3 DEF TableSide, Rec

\* The actions that leave alone what is known and what is in the pipe.
LEMMA Stays ==
  ASSUME TypeOK, CopyInv, UNCHANGED <<mode, got, passed, spilled, pipe, table, last>>,
         Begins(net', net),
         seqfile' \in {seqfile, -1} \/ (Alive /\ seqfile' = seqnum),
         Alive' => (Alive /\ seqnum' = seqnum) \/ seqnum' = seqfile,
         link' # "down" => link # "down" /\ pos' = pos /\ net' = net,
         ~parent_fd' => pipe' = <<>>, proc' = "none" => ~parent_fd',
         proc' = "none" \/ proc # "none"
  PROVE  CopyInv'
<1>1. Known' = Known /\ InHand' = InHand
  BY DEF Known, InHand, InSeq
<1>2. ChildSide'
  BY <1>1, ChildSideStays DEF CopyInv
<1>3. PipeSide'
  BY <1>1, PipeSideStays DEF CopyInv
<1>4. TableSide'
  BY <1>1, TableSideStays DEF CopyInv
<1> QED
  BY <1>2, <1>3, <1>4 DEF CopyInv

-----------------------------------------------------------------------------
(* The removal of overlaps.                                                *)

LEMMA TimesGrow ==
  ASSUME NEW i \in 0..MaxRec, NEW j \in 0..MaxRec
  PROVE  /\ Start(i) \in Int /\ Start(j) \in Int
         /\ i < j => Start(i) + Second <= Start(j)
BY ChainAssumption

\* A record that is left out as an overlap is known.
LEMMA DroppedKnown ==
  ASSUME TypeOK, TableSide, NEW i \in Rec, Drops(i)
  PROVE  i \in Known
<1>1. table # NoEntry /\ ~Later(i)
  BY DEF Drops
<1>2. PICK n \in Rec : Covered(n, Known) /\ table.it \in {Start(n) + 1, Start(n + 1)}
  BY <1>1 DEF TableSide
<1>3. i \in 0..MaxRec /\ n \in 0..MaxRec /\ n + 1 \in 0..MaxRec /\ i \in Nat /\ n \in Nat
  BY Sizes DEF Rec
<1>4. Start(i) \in Int /\ Start(n) \in Int /\ Start(n + 1) \in Int
  BY <1>3, TimesGrow
<1>5. ~(Start(i) - table.it > -100)
  BY <1>1 DEF Later
<1>6. Start(i) < Start(n + 1)
  <2>1. Start(n) + Second <= Start(n + 1)
    BY <1>3, TimesGrow
  <2> QED
    BY <1>2, <1>4, <1>5, <2>1, Sizes
<1>7. ~(n + 1 < i)
  BY <1>3, <1>4, <1>6, TimesGrow, Sizes
<1>8. i # n + 1
  BY <1>4, <1>6
<1>9. i \in 0..n
  BY <1>3, <1>7, <1>8
<1> QED
  BY <1>2, <1>9 DEF Covered

\* A record that is not left out is not before the last one passed on.
LEMMA AcceptedNotBefore ==
  ASSUME TypeOK, TableSide, Strict, NEW i \in Rec, ~Drops(i)
  PROVE  last <= i /\ Start(last) <= Start(i) /\ Start(i) \in Int
<1>1. table # NoEntry /\ table.it > Start(last) /\ Later(i)
  BY DEF Drops, TableSide
<1>2. last \in 0..MaxRec /\ i \in 0..MaxRec /\ last \in Int /\ i \in Int
  BY Sizes DEF Strict, TypeOK, Rec
<1>3. Start(i) \in Int /\ Start(last) \in Int /\ table.it \in Int
  BY <1>2, TimesGrow DEF TypeOK
<1>4. Start(i) - table.it > -Second
  BY <1>1, <1>3, Sizes DEF Later
<1>5. ~(i < last)
  BY <1>1, <1>2, <1>3, <1>4, TimesGrow, Sizes
<1>6. Start(last) <= Start(i)
  <2>1. last = i \/ last < i
    BY <1>2, <1>5
  <2> QED
    BY <1>2, <1>3, <2>1, TimesGrow, Sizes
<1> QED
  BY <1>2, <1>3, <1>5, <1>6

-----------------------------------------------------------------------------
(* The steps preserve the invariant.                                       *)

LEMMA ConnectCopies ==
  ASSUME TypeOK, CopyInv, Connect
  PROVE  CopyInv'
<1>1. PICK n \in Requested(seqnum) :
        pos' = n /\ passed' = passed \cup ((seqnum + 1)..(n - 1))
  BY DEF Connect
<1>2. n \in 0..hi /\ n \in Int /\ seqnum \in Int /\ Alive
  BY AnswersInRange, Sizes DEF TypeOK, Connect, Alive
<1>3. Known' = Known \cup ((seqnum + 1)..(n - 1)) /\ InSeq(pipe') = InSeq(pipe)
  BY <1>1 DEF Connect, Known, InSeq, output
<1>4. Known \subseteq Known' /\ InHand \subseteq InHand'
  BY <1>3 DEF InHand
<1>5. Covered(n - 1, InHand')
  <2> SUFFICES ASSUME NEW i \in 0..(n - 1)
               PROVE  i \in InHand'
    BY DEF Covered
  <2>1. CASE i <= seqnum
    BY <1>2, <1>4, <2>1 DEF CopyInv, ChildSide, Covered
  <2>2. CASE ~(i <= seqnum)
    BY <1>2, <1>3, <2>2 DEF InHand
  <2> QED
    BY <2>1, <2>2
<1>6. ChildSide'
  <2>1. Covered(seqfile', InHand')
    BY <1>4, CoveredMore, Sizes DEF Connect, CopyInv, ChildSide, TypeOK
  <2>2. Covered(seqnum', InHand')
    BY <1>2, <1>4, CoveredMore DEF Connect, CopyInv, ChildSide, process
  <2>3. Chained(net', InHand')
    BY <1>4, ChainedMore DEF Connect, CopyInv, ChildSide
  <2>4. Covered(pos' - 1, InHand' \cup InSeq(net'))
    BY <1>1, <1>2, <1>5, CoveredMore
  <2> QED
    BY <2>1, <2>2, <2>3, <2>4 DEF ChildSide
<1>7. PipeSide'
  BY <1>4, PipeSideStays DEF Connect, CopyInv, PipeSide, group, output
<1>8. TableSide'
  BY <1>4, TableSideStays DEF Connect, CopyInv, group, output
<1> QED
  BY <1>6, <1>7, <1>8 DEF CopyInv

LEMMA ServerSendsCopies ==
  ASSUME TypeOK, CopyInv, ServerSends
  PROVE  CopyInv'
<1> DEFINE n == IF pos < lo THEN lo ELSE pos
<1>1. /\ net' = Append(net, n) /\ pos' = n + 1
      /\ passed' = passed \cup (pos..(n - 1)) /\ link # "down"
  BY DEF ServerSends
<1>2. n \in Rec /\ pos \in Int /\ n \in Int /\ net \in Seq(Rec)
  BY Sizes DEF ServerSends, TypeOK, Rec
<1> HIDE DEF n
<1>3. Known' = Known \cup (pos..(n - 1)) /\ InSeq(pipe') = InSeq(pipe)
  BY <1>1 DEF ServerSends, Known, InSeq, output
<1>4. Known \subseteq Known' /\ InHand \subseteq InHand'
  BY <1>3 DEF InHand
<1>5. Covered(n - 1, InHand' \cup InSeq(net))
  <2> SUFFICES ASSUME NEW i \in 0..(n - 1)
               PROVE  i \in InHand' \cup InSeq(net)
    BY DEF Covered
  <2>1. CASE i <= pos - 1
    BY <1>1, <1>2, <1>4, <2>1 DEF CopyInv, ChildSide, Covered
  <2>2. CASE ~(i <= pos - 1)
    BY <1>2, <1>3, <2>2 DEF InHand
  <2> QED
    BY <2>1, <2>2
<1>6. ChildSide'
  <2>1. Covered(seqfile', InHand')
    BY <1>4, CoveredMore, Sizes DEF ServerSends, CopyInv, ChildSide, TypeOK
  <2>2. Alive' => Covered(seqnum', InHand')
    BY <1>4, CoveredMore, Sizes DEF ServerSends, CopyInv, ChildSide, process, Alive, TypeOK
  <2>3. Chained(net', InHand')
    <3>1. Chained(net, InHand')
      BY <1>4, ChainedMore DEF CopyInv, ChildSide
    <3> QED
      BY <1>1, <1>2, <1>5, <3>1, ChainedAppend
  <2>4. Covered(pos' - 1, InHand' \cup InSeq(net'))
    <3>1. InSeq(net') = InSeq(net) \cup {n}
      BY <1>1, <1>2, PutLast
    <3> QED
      BY <1>1, <1>2, <1>5, <3>1 DEF Covered
  <2> QED
    BY <2>1, <2>2, <2>3, <2>4 DEF ChildSide
<1>7. PipeSide'
  BY <1>4, PipeSideStays DEF ServerSends, CopyInv, PipeSide, group, output
<1>8. TableSide'
  BY <1>4, TableSideStays DEF ServerSends, CopyInv, group, output
<1> QED
  BY <1>6, <1>7, <1>8 DEF CopyInv

LEMMA CollectCopies ==
  ASSUME TypeOK, CopyInv, Collect
  PROVE  CopyInv'
<1> DEFINE n == Head(net)
<1>1. /\ Alive /\ parent_fd /\ net' = Tail(net) /\ seqnum' = n
      /\ pipe' = Append(pipe, n) /\ seqfile' \in {seqfile, n}
      /\ net # <<>> /\ net \in Seq(Rec) /\ pipe \in Seq(Rec)
  BY DEF Collect, Saves, TypeOK
<1>2. n \in Rec /\ n \in Int /\ InSeq(net) = {n} \cup InSeq(net')
  BY <1>1, TakeFirst, Sizes DEF Rec
<1> HIDE DEF n
<1>3. Known' = Known /\ InSeq(pipe') = InSeq(pipe) \cup {n}
  BY <1>1, <1>2, PutLast DEF Collect, Known, output
<1>4. InHand' = InHand \cup {n}
  BY <1>3 DEF InHand
<1>5. Covered(n - 1, InHand) /\ Chained(net', InHand')
  BY <1>1, <1>4, ChainedTail DEF CopyInv, ChildSide, n
<1>6. Covered(n, InHand')
  BY <1>2, <1>4, <1>5 DEF Covered
<1>7. ChildSide'
  <2>1. Covered(seqfile, InHand')
    BY <1>4, CoveredMore, Sizes DEF CopyInv, ChildSide, TypeOK
  <2>2. InHand' \cup InSeq(net') = InHand \cup InSeq(net)
    BY <1>2, <1>4
  <2>3. link' # "down" => Covered(pos' - 1, InHand' \cup InSeq(net'))
    BY <2>2 DEF Collect, CopyInv, ChildSide
  <2> QED
    BY <1>1, <1>5, <1>6, <2>1, <2>3 DEF ChildSide
<1>8. PipeSide'
  <2>1. Chained(pipe', Known')
    BY <1>1, <1>2, <1>3, <1>5, ChainedAppend DEF CopyInv, PipeSide, InHand
  <2> QED
    BY <1>1, <1>3, <2>1 DEF Collect, CopyInv, PipeSide, group, output
<1>9. TableSide'
  BY <1>3, TableSideStays DEF Collect, CopyInv, group, output
<1> QED
  BY <1>7, <1>8, <1>9 DEF CopyInv

\* The first record of the pipe is taken and is known afterwards.
LEMMA TakenFromPipe ==
  ASSUME TypeOK, CopyInv, pipe # <<>>, pipe' = Tail(pipe),
         Known' = Known \cup {Head(pipe)}
  PROVE  /\ Head(pipe) \in Rec /\ Head(pipe) \in Int
         /\ InHand' = InHand /\ Known \subseteq Known'
         /\ Chained(pipe', Known') /\ Covered(Head(pipe), Known')
<1>1. pipe \in Seq(Rec) /\ Head(pipe) \in Rec /\ Head(pipe) \in Int
  BY TakeFirst, Sizes DEF TypeOK, Rec
<1>2. InSeq(pipe) = {Head(pipe)} \cup InSeq(pipe')
  BY <1>1, TakeFirst
<1>3. Covered(Head(pipe) - 1, Known) /\ Chained(pipe', Known')
  BY <1>1, ChainedTail DEF CopyInv, PipeSide
<1>4. Covered(Head(pipe), Known')
  BY <1>1, <1>3 DEF Covered
<1> QED
  BY <1>1, <1>2, <1>3, <1>4 DEF InHand

\* The entry after a record that is passed on, or was to be passed on.
LEMMA EntryKnown ==
  ASSUME TypeOK, CopyInv, NEW i \in Rec, ~Drops(i), table' = EntryAfter(i),
         Covered(i, Known'), mode' = mode, proc # "none",
         last' = last \/ last' = i
  PROVE  /\ table' # NoEntry =>
              \E n \in Rec : Covered(n, Known') /\ table'.it \in {Start(n) + 1, Start(n + 1)}
         /\ Strict' => table' # NoEntry /\ table'.it > Start(last')
<1>1. mode.overlap = "full" => table'.it = Start(i) + 1
  BY DEF EntryAfter
<1>2. Start(i) \in Int
  BY TimesGrow, Sizes DEF Rec
<1>3. ASSUME Strict'
      PROVE  Start(last') <= Start(i)
  <2>1. CASE last' = i
    BY <1>2, <2>1
  <2>2. CASE last' = last
    BY <1>3, <2>2, AcceptedNotBefore DEF CopyInv, Strict
  <2> QED
    BY <2>1, <2>2
<1>4. ASSUME Strict'
      PROVE  table' # NoEntry /\ table'.it > Start(last')
  <2>1. mode.overlap = "full" /\ last' \in 0..MaxRec
    BY <1>4, Sizes DEF Strict, TypeOK, Rec
  <2>2. Start(last') \in Int
    BY <2>1, TimesGrow
  <2>3. table'.it > Start(last')
    BY <1>1, <1>2, <1>3, <1>4, <2>1, <2>2
  <2>4. table'.recno = (i + 1) % RecnoMod /\ i + 1 \in Nat
    BY <2>1 DEF EntryAfter, Rec
  <2>5. table'.recno \in 0..(RecnoMod - 1)
    BY <2>4, Remainder, Sizes
  <2> QED
    BY <2>3, <2>5 DEF NoEntry
<1>5. ASSUME table' # NoEntry
      PROVE  table'.it = Start(i) + 1
  BY <1>5 DEF EntryAfter
<1> QED
  BY <1>4, <1>5

LEMMA ReadCopies ==
  ASSUME TypeOK, CopyInv, Read
  PROVE  CopyInv'
<1> DEFINE n == Head(pipe)
<1>1. /\ pipe # <<>> /\ pipe' = Tail(pipe) /\ n \in Rec /\ parent_fd
      /\ proc # "none"
  BY TakeFirst DEF Read, TypeOK, CopyInv, PipeSide
<1>2. /\ Known' = Known \cup {n}
      /\ got' \in {got, got \cup {n}}
      /\ TableSide'
  <2>1. CASE Drops(n) /\ UNCHANGED output
    <3>1. n \in Known
      BY <1>1, <2>1, DroppedKnown DEF CopyInv
    <3>2. Known' = Known \cup {n} /\ got' = got
      BY <2>1, <3>1 DEF Read, Known, output
    <3>3. TableSide'
      BY <1>1, <2>1, <3>2, TableSideStays DEF Read, CopyInv, output
    <3> QED
      BY <3>2, <3>3
  <2>2. CASE ~Drops(n) /\ PassOn(n)
    <3>1. Known' = Known \cup {n} /\ got' = got \cup {n}
      BY <2>2 DEF Read, Known, PassOn
    <3>2. Covered(n, Known')
      BY <1>1, <3>1, TakenFromPipe
    <3>3. TableSide'
      <4>1. mode' = mode /\ last' = n /\ table' = EntryAfter(n)
        BY <2>2 DEF Read, PassOn
      <4> HIDE DEF n
      <4> QED
        BY <1>1, <2>2, <3>1, <3>2, <4>1, EntryKnown DEF TableSide
    <3> QED
      BY <3>1, <3>3
  <2> QED
    BY <2>1, <2>2 DEF Read
<1>3. /\ InHand' = InHand /\ Known \subseteq Known' /\ n \in Int
      /\ Chained(pipe', Known') /\ Covered(n, Known')
  BY <1>1, <1>2, TakenFromPipe
<1>4. ChildSide'
  BY <1>3, ChildSideStays, WholeOrNone DEF Read, CopyInv, TypeOK, socket, process, Alive
<1>5. PipeSide'
  <2>1. ASSUME NEW j \in got'
        PROVE  Covered(j, Known')
    <3>1. CASE j \in got
      BY <1>3, <3>1, CoveredMore, Sizes DEF CopyInv, PipeSide, TypeOK, Rec
    <3> QED
      BY <1>2, <1>3, <2>1, <3>1
  <2> QED
    BY <1>1, <1>3, <2>1 DEF Read, PipeSide, group
<1> QED
  BY <1>2, <1>4, <1>5 DEF CopyInv

LEMMA MainGoneCopies ==
  ASSUME TypeOK, CopyInv, MainGone
  PROVE  CopyInv'
<1>1. /\ Known' = Known \cup InSeq(pipe) /\ pipe' = <<>> /\ proc' = "none"
      /\ ~parent_fd' /\ InSeq(<<>>) = {}
  BY EmptySeq DEF MainGone, Known, output, InSeq
<1>2. InHand' = InHand /\ Known \subseteq Known'
  BY <1>1 DEF InHand
<1>3. ChildSide'
  <2>1. Alive' => Alive /\ seqnum' = seqnum
    BY DEF MainGone, Alive
  <2> QED
    BY <1>2, <2>1, ChildSideStays, WholeOrNone DEF MainGone, CopyInv, TypeOK, socket
<1>4. PipeSide'
  <2>1. Chained(pipe', Known')
    BY <1>1, EmptySeq DEF Chained
  <2>2. ASSUME NEW j \in got'
        PROVE  Covered(j, Known')
    BY <1>2, <2>2, CoveredMore, Sizes DEF MainGone, output, CopyInv, PipeSide, TypeOK, Rec
  <2> QED
    BY <1>1, <2>1, <2>2 DEF PipeSide
<1>5. TableSide'
  BY <1>1, <1>2, TableSideStays DEF MainGone, CopyInv, output
<1> QED
  BY <1>3, <1>4, <1>5 DEF CopyInv

LEMMA PassFailsCopies ==
  ASSUME TypeOK, CopyInv, PassFails
  PROVE  CopyInv'
<1> DEFINE n == Head(pipe)
<1>1. CASE MainGone
  BY <1>1, MainGoneCopies
<1>2. CASE /\ Shutdown /\ table' = EntryAfter(n)
           /\ pipe' = Tail(pipe) /\ spilled' = spilled \cup {n}
  <2>1. pipe # <<>> /\ n \in Rec /\ ~Drops(n) /\ proc = "run" /\ parent_fd
    BY <1>2, TakeFirst DEF PassFails, Shutdown, TypeOK
  <2>2. /\ Known' = Known \cup {n} /\ got' = got /\ last' = last /\ mode' = mode
        /\ proc' = "shutdown" /\ parent_fd' = parent_fd
    BY <1>2 DEF Shutdown, Known
  <2>3. /\ InHand' = InHand /\ Known \subseteq Known' /\ n \in Int
        /\ Chained(pipe', Known') /\ Covered(n, Known')
    BY <1>2, <2>1, <2>2, TakenFromPipe
  <2>4. ChildSide'
    <3>1. /\ Begins(net', net) /\ seqfile' = seqfile /\ seqnum' = seqnum
          /\ Alive' => Alive
          /\ link' # "down" => link # "down" /\ pos' = pos /\ net' = net
      <4>1. CASE CloseConnection
        BY <1>2, <4>1, PartOfNet DEF Shutdown, CloseConnection, Alive
      <4>2. CASE UNCHANGED <<sigterm_sent, child, link, net>>
        BY <1>2, <4>2, WholeOrNone DEF Shutdown, TypeOK, Alive
      <4> QED
        BY <1>2, <4>1, <4>2 DEF Shutdown
    <3> QED
      BY <2>3, <3>1, ChildSideStays DEF CopyInv
  <2>5. PipeSide'
    <3>1. ASSUME NEW j \in got'
          PROVE  Covered(j, Known')
      BY <2>2, <2>3, <3>1, CoveredMore, Sizes DEF CopyInv, PipeSide, TypeOK, Rec
    <3> QED
      BY <2>1, <2>2, <2>3, <3>1 DEF PipeSide
  <2>6. TableSide'
    <3> HIDE DEF n
    <3> QED
      BY <1>2, <2>1, <2>2, <2>3, EntryKnown DEF TableSide, CopyInv
  <2> QED
    BY <2>4, <2>5, <2>6 DEF CopyInv
<1> QED
  BY <1>1, <1>2 DEF PassFails

LEMMA MainStartsCopies ==
  ASSUME TypeOK, CopyInv, MainStarts
  PROVE  CopyInv'
<1>1. Known' = Known /\ InHand' = InHand /\ proc = "none" /\ ~parent_fd
  BY DEF MainStarts, Known, InHand, InSeq, CopyInv, PipeSide
<1>2. ChildSide'
  BY <1>1, ChildSideStays, WholeOrNone DEF MainStarts, CopyInv, TypeOK, socket, process, Alive
<1>3. PipeSide'
  BY <1>1, PipeSideStays DEF MainStarts, CopyInv, PipeSide
<1>4. TableSide'
  <2>1. CASE table' = NoEntry /\ ~(mode.timetable /\ mode.overlap # "none" /\ last # -1)
    BY <2>1 DEF MainStarts, TableSide, CopyInv, Strict
  <2>2. CASE table' = Timetable(last) /\ last # -1
    <3>1. last \in Rec /\ last \in got /\ Covered(last, Known)
      BY <2>2 DEF CopyInv, PipeSide, TableSide, TypeOK, Rec
    <3>2. last \in 0..MaxRec /\ last + 1 \in 0..MaxRec /\ last < last + 1 /\ last + 1 \in Nat
      BY <3>1, Sizes DEF Rec
    <3>3. Start(last) \in Int /\ Start(last + 1) \in Int /\ Start(last) < Start(last + 1)
      BY <3>2, TimesGrow, Sizes
    <3>4. table'.it = Start(last + 1) /\ table'.recno = (last + 1) % RecnoMod
      BY <2>2 DEF Timetable
    <3>5. table' # NoEntry
      BY <3>2, <3>4, Remainder, Sizes DEF NoEntry
    <3>6. last' = last /\ got' = got
      BY DEF MainStarts
    <3> QED
      BY <1>1, <3>1, <3>3, <3>4, <3>5, <3>6 DEF TableSide
  <2> QED
    BY <2>1, <2>2 DEF MainStarts
<1> QED
  BY <1>2, <1>3, <1>4 DEF CopyInv

LEMMA StepCopies ==
  ASSUME TypeOK, CopyInv, [Next]_vars
  PROVE  CopyInv'
<1>1. CASE Connect \/ ServerSends \/ Collect \/ Read \/ MainStarts \/ PassFails
  BY <1>1, ConnectCopies, ServerSendsCopies, CollectCopies, ReadCopies,
     MainStartsCopies, PassFailsCopies
<1>2. CASE MainKilled
  BY <1>2, MainGoneCopies DEF MainKilled
<1>3. CASE Produce
  BY <1>3, Stays, WholeOrNone DEF Produce, TypeOK, CopyInv, PipeSide, socket, process,
     group, output, Alive
<1>4. CASE ServerEnds \/ NetTimeout \/ LinkStalls
  BY <1>4, Stays, WholeOrNone DEF ServerEnds, NetTimeout, LinkStalls, TypeOK, CopyInv,
     PipeSide, process, group, output, Alive
<1>5. CASE ServerGone
  BY <1>5, Stays, WholeOrNone DEF ServerGone, TypeOK, CopyInv, PipeSide, socket,
     process, group, output, Alive
<1>6. CASE LinkFails
  BY <1>6, Stays, PartOfNet DEF LinkFails, CopyInv, PipeSide, process, group, output,
     Alive
<1>7. CASE BrokenPipe \/ WriteTimeout \/ ExitsAtEnd \/ ExitsOnTerm
  <2>1. /\ net' = <<>> /\ ~Alive' /\ link' = "down" /\ pipe' = pipe
        /\ UNCHANGED group /\ UNCHANGED output /\ UNCHANGED <<mode, passed, spilled>>
    BY <1>7 DEF BrokenPipe, WriteTimeout, WriteFails, ExitsAtEnd, ExitsOnTerm, Exits,
       Gone, Alive
  <2>2. seqfile' = seqfile \/ (Alive /\ seqfile' = seqnum)
    BY <1>7 DEF BrokenPipe, WriteTimeout, WriteFails, SavedAfterWrite, ExitsAtEnd,
       ExitsOnTerm, Exits, Alive
  <2> QED
    BY <2>1, <2>2, Stays, WholeOrNone DEF TypeOK, CopyInv, PipeSide, group, output
<1>8. CASE Crashes \/ KillConnection
  <2>1. /\ net' = <<>> /\ ~Alive' /\ link' = "down" /\ pipe' = pipe
        /\ seqfile' \in {seqfile, -1} /\ UNCHANGED <<proc, parent_fd>>
        /\ UNCHANGED output /\ UNCHANGED <<mode, passed, spilled>>
    BY <1>8 DEF Crashes, KillConnection, Killed, Gone, Alive, group
  <2> QED
    BY <2>1, Stays, WholeOrNone DEF TypeOK, CopyInv, PipeSide, output
<1>9. CASE OpenConnection
  <2>1. pipe = <<>> /\ seqnum' = seqfile
    BY <1>9 DEF OpenConnection, Recovered, CopyInv, PipeSide
  <2> QED
    BY <1>9, <2>1, Stays, WholeOrNone DEF OpenConnection, TypeOK, socket, output
<1>10. CASE UptimeOver
  <2>1. Begins(net', net) /\ (Alive' => Alive)
    BY <1>10, PartOfNet DEF UptimeOver, CloseConnection, Alive
  <2> QED
    BY <1>10, <2>1, Stays DEF UptimeOver, CloseConnection, CopyInv, PipeSide, output
<1>11. CASE Reap
  BY <1>11, Stays, WholeOrNone DEF Reap, TypeOK, CopyInv, PipeSide, socket, output, Alive
<1>12. CASE ConfirmShutdown
  BY <1>12, Stays, WholeOrNone DEF ConfirmShutdown, TypeOK, socket, process, output, Alive
<1>13. CASE Terminate
  <2>1. /\ Begins(net', net) /\ (Alive' => Alive)
        /\ link' # "down" => link # "down" /\ pos' = pos /\ net' = net
    <3>1. CASE CloseConnection
      BY <1>13, <3>1, PartOfNet DEF Terminate, Shutdown, CloseConnection, Alive
    <3>2. CASE UNCHANGED <<sigterm_sent, child, link, net>>
      BY <1>13, <3>2, WholeOrNone DEF Terminate, Shutdown, TypeOK, Alive
    <3> QED
      BY <1>13, <3>1, <3>2 DEF Terminate, Shutdown
  <2> QED
    BY <1>13, <2>1, Stays DEF Terminate, Shutdown, CopyInv, PipeSide
<1>14. CASE UNCHANGED vars
  BY <1>14, Stays, WholeOrNone DEF vars, TypeOK, CopyInv, PipeSide, socket, process,
     group, output, Alive
<1> QED
  BY <1>1, <1>2, <1>3, <1>4, <1>5, <1>6, <1>7, <1>8, <1>9, <1>10, <1>11, <1>12, <1>13,
     <1>14 DEF Next, Steps, Failures

\* Everything below rests on these two.
THEOREM CopyInvariant == Spec => [](TypeOK /\ CopyInv)
<1>1. Init => TypeOK /\ CopyInv
  BY InitTypes, InitCopy
<1>2. TypeOK /\ CopyInv /\ [Next]_vars => (TypeOK /\ CopyInv)'
  BY StepTypes, StepCopies
<1> QED
  BY <1>1, <1>2, PTL DEF Spec

\* What is missing before a record that was passed on is missing for a reason
\* that has a name, whatever fails and whenever the processes end.
THEOREM CopyHasNoGap == Spec => []NoGap
<1>1. CopyInv => NoGap
  BY DEF CopyInv, PipeSide, Covered, NoGap
<1> QED
  BY <1>1, CopyInvariant, PTL

\* The state file is never ahead of what is known or will be read: the child
\* that resumes from it leaves nothing out.
THEOREM StateFileIsBehind == Spec => []StateBehind
<1>1. CopyInv => StateBehind
  BY DEF CopyInv, ChildSide, Covered, InHand, StateBehind
<1> QED
  BY <1>1, CopyInvariant, PTL

\* Overlap removal with a timetable: a step that passes a record on does not
\* pass on one that is before the last, over all restarts of the processes.
THEOREM NoReturn == Spec => NeverBack
<1>1. ASSUME TypeOK, CopyInv, [Next]_vars, mode.overlap = "full" /\ mode.timetable
      PROVE  last' >= last
  <2>1. last \in Int
    <3>1. last \in -1..(MaxRec - 1)
      BY <1>1 DEF TypeOK
    <3> QED
      BY <3>1, Sizes
  <2>2. CASE last' = last
    BY <2>1, <2>2
  <2>3. CASE Read /\ last' # last
    <3>1. /\ ~Drops(Head(pipe)) /\ last' = Head(pipe)
          /\ parent_fd /\ pipe # <<>>
      BY <2>3 DEF Read, PassOn, output
    <3>2. Head(pipe) \in Rec
      BY <1>1, <3>1, TakeFirst DEF TypeOK
    <3>3. proc # "none"
      BY <1>1, <3>1 DEF CopyInv, PipeSide
    <3>4. CASE last = -1
      BY <3>1, <3>2, <3>4, Sizes DEF Rec
    <3>5. CASE last # -1
      <4>1. Strict /\ TableSide
        BY <1>1, <3>3, <3>5 DEF Strict, CopyInv
      <4>2. last <= Head(pipe)
        BY <1>1, <3>1, <3>2, <4>1, AcceptedNotBefore
      <4> QED
        BY <2>1, <3>1, <3>2, <4>2, Sizes DEF Rec
    <3> QED
      BY <3>4, <3>5
  <2>4. last' = last \/ Read
    BY <1>1 DEF Next, Steps, Failures, vars, output, Produce, Connect, ServerSends,
       ServerEnds, LinkFails, LinkStalls, NetTimeout, Collect, WriteTimeout, BrokenPipe,
       WriteFails, ExitsAtEnd, ExitsOnTerm, Exits, Crashes, Killed, KillConnection,
       Gone, OpenConnection, UptimeOver, Reap, ConfirmShutdown, Terminate, Shutdown,
       PassFails, MainKilled, MainGone, ServerGone, MainStarts
  <2> QED
    BY <2>2, <2>3, <2>4
<1>2. TypeOK /\ CopyInv /\ [Next]_vars =>
        [mode.overlap = "full" /\ mode.timetable => last' >= last]_vars
  BY <1>1
<1> QED
  BY <1>2, CopyInvariant, PTL DEF Spec, NeverBack

-----------------------------------------------------------------------------
(* A record is passed on again only after a loss of state.                 *)

Increasing(s) == \A j, k \in 1..Len(s) : j < k => s[j] < s[k]

LEMMA IncreasingTail ==
  ASSUME NEW s \in Seq(Rec), s # <<>>, Increasing(s)
  PROVE  /\ Increasing(Tail(s))
         /\ \A q \in InSeq(Tail(s)) : Head(s) < q
<1>1. \A k \in 1..Len(Tail(s)) : k + 1 \in 1..Len(s) /\ Tail(s)[k] = s[k + 1]
  BY TakeFirst
<1>2. 1 \in 1..Len(s) /\ Head(s) = s[1]
  BY TakeFirst
<1>3. ASSUME NEW j \in 1..Len(Tail(s)), NEW k \in 1..Len(Tail(s)), j < k
      PROVE  Tail(s)[j] < Tail(s)[k]
  <2>1. j + 1 < k + 1
    BY <1>3
  <2> QED
    BY <1>1, <2>1 DEF Increasing
<1>4. ASSUME NEW k \in 1..Len(Tail(s))
      PROVE  Head(s) < Tail(s)[k]
  <2>1. 1 < k + 1
    OBVIOUS
  <2> QED
    BY <1>1, <1>2, <2>1 DEF Increasing
<1> QED
  BY <1>3, <1>4 DEF Increasing, InSeq

LEMMA IncreasingAppend ==
  ASSUME NEW s \in Seq(Rec), NEW n \in Rec, Increasing(s), \A r \in InSeq(s) : r < n
  PROVE  Increasing(Append(s, n))
<1> SUFFICES ASSUME NEW j \in 1..Len(Append(s, n)), NEW k \in 1..Len(Append(s, n)), j < k
             PROVE  Append(s, n)[j] < Append(s, n)[k]
  BY DEF Increasing
<1>1. j \in 1..Len(s) /\ Append(s, n)[j] = s[j]
  BY PutLast
<1>2. CASE k \in 1..Len(s)
  BY <1>1, <1>2, PutLast DEF Increasing
<1>3. CASE k = Len(s) + 1
  BY <1>1, <1>3, PutLast DEF InSeq
<1> QED
  BY <1>2, <1>3, PutLast

LEMMA IncreasingPart ==
  ASSUME NEW s \in Seq(Rec), NEW t, Begins(t, s)
  PROVE  InSeq(t) \subseteq InSeq(s) /\ (Increasing(s) => Increasing(t))
<1>1. \A k \in 1..Len(t) : k \in 1..Len(s) /\ t[k] = s[k]
  BY Elements DEF Begins
<1> QED
  BY <1>1 DEF Increasing, InSeq

\* How far the copy has come, for the child or for the one that comes next.
Reached == IF Alive THEN seqnum ELSE seqfile

\* Numbers are numbers of records produced; only a child has a connection.
Ranges ==
  /\ seqnum < hi /\ seqfile < hi /\ \A r \in InSeq(net) : r < hi
  /\ ~Alive => net = <<>> /\ link = "down"

\* Everything is in the order in which it was produced.
InTurn ==
  /\ again = {}
  /\ \A r \in got \cup InSeq(pipe) : r <= Reached
  /\ \A r \in got, q \in InSeq(pipe) : r < q
  /\ Increasing(pipe) /\ Increasing(net)
  /\ \A r \in InSeq(net) : seqnum < r
  /\ link # "down" => seqnum < pos /\ \A r \in InSeq(net) : r < pos

OnceInv == Ranges /\ (unsaved \/ InTurn)

LEMMA InitOnce ==
  ASSUME Init
  PROVE  OnceInv
<1>1. InSeq(<<>>) = {} /\ Increasing(<<>>)
  BY EmptySeq DEF InSeq, Increasing
<1> QED
  BY <1>1 DEF Init, OnceInv, Ranges, InTurn

LEMMA RangesStay ==
  ASSUME TypeOK, Ranges, Begins(net', net), hi' = hi \/ hi' = hi + 1,
         seqnum' \in {seqnum, seqfile} \/ (net # <<>> /\ seqnum' = Head(net)),
         seqfile' \in {seqfile, seqnum, -1},
         ~Alive' => net' = <<>> /\ link' = "down"
  PROVE  Ranges'
<1>1. hi \in Nat /\ seqnum \in Int /\ seqfile \in Int /\ net \in Seq(Rec)
  BY Sizes DEF TypeOK
<1>2. \A r \in InSeq(net') : r < hi
  BY <1>1, IncreasingPart DEF Ranges
<1>3. seqnum' < hi /\ seqnum' \in Int
  <2>1. CASE net # <<>> /\ seqnum' = Head(net)
    <3>1. Head(net) \in InSeq(net) /\ Head(net) \in Rec
      BY <1>1, <2>1, TakeFirst
    <3> QED
      BY <2>1, <3>1, Sizes DEF Ranges, Rec
  <2>2. CASE seqnum' \in {seqnum, seqfile}
    BY <1>1, <2>2 DEF Ranges
  <2> QED
    BY <2>1, <2>2
<1>4. seqfile' < hi /\ seqfile' \in Int
  BY <1>1 DEF Ranges
<1>5. \A r \in InSeq(net') : r \in Int
  BY <1>1, Elements, Sizes DEF Begins, Rec
<1> QED
  BY <1>1, <1>2, <1>3, <1>4, <1>5 DEF Ranges

\* The actions that pass nothing on and take nothing from the connection.
LEMMA InTurnStays ==
  ASSUME TypeOK, InTurn, UNCHANGED <<got, again>>, Begins(net', net),
         InSeq(pipe') \subseteq InSeq(pipe), Increasing(pipe'),
         seqnum' = seqnum \/ (net' = <<>> /\ link' = "down"), Reached' = Reached,
         link' # "down" => link # "down" /\ pos' = pos /\ net' = net
  PROVE  InTurn'
<1>1. InSeq(net') \subseteq InSeq(net) /\ Increasing(net')
  BY IncreasingPart DEF TypeOK, InTurn
<1>2. \A r \in got' \cup InSeq(pipe') : r <= Reached'
  BY DEF InTurn
<1>3. \A r \in got', q \in InSeq(pipe') : r < q
  BY DEF InTurn
<1>4. \A r \in InSeq(net') : seqnum' < r
  <2>1. CASE seqnum' = seqnum
    BY <1>1, <2>1 DEF InTurn
  <2>2. CASE net' = <<>>
    BY <2>2, EmptySeq DEF InSeq
  <2> QED
    BY <2>1, <2>2
<1>5. link' # "down" => seqnum' < pos' /\ \A r \in InSeq(net') : r < pos'
  BY <1>1 DEF InTurn
<1> QED
  BY <1>1, <1>2, <1>3, <1>4, <1>5 DEF InTurn

LEMMA ConnectInTurn ==
  ASSUME TypeOK, Ranges, InTurn, Connect
  PROVE  InTurn'
<1>1. PICK n \in Requested(seqnum) : pos' = n
  BY DEF Connect
<1>2. n \in 0..hi /\ seqnum \in Int /\ lo \in Int /\ hi \in Int
  BY AnswersInRange, Sizes DEF TypeOK
<1>3. seqnum < n
  BY <1>1, <1>2 DEF Requested, Answers, Ranges
<1>4. InSeq(net') = {} /\ Increasing(net') /\ seqnum' = seqnum /\ Reached' = Reached
  BY EmptySeq DEF Connect, InSeq, Increasing, Reached, Alive, process
<1>5. InSeq(pipe') = InSeq(pipe) /\ Increasing(pipe')
  BY DEF Connect, InTurn, InSeq, Increasing
<1>6. got' = got /\ again' = again
  BY DEF Connect, output
<1> QED
  BY <1>1, <1>3, <1>4, <1>5, <1>6 DEF InTurn

LEMMA ServerSendsInTurn ==
  ASSUME TypeOK, Ranges, ServerSends
  PROVE  Ranges' /\ (InTurn => InTurn')
<1> DEFINE n == IF pos < lo THEN lo ELSE pos
<1>1. /\ net' = Append(net, n) /\ pos' = n + 1 /\ link # "down" /\ Alive' = Alive
      /\ UNCHANGED <<seqnum, seqfile, hi, pipe, got, again, link>>
  BY DEF ServerSends, process, remote, output, Alive
<1>2. /\ n \in Rec /\ n \in Int /\ n < hi /\ pos <= n
      /\ pos \in Int /\ hi \in Int /\ seqnum \in Int /\ net \in Seq(Rec)
  BY Sizes DEF ServerSends, TypeOK, Rec
<1> HIDE DEF n
<1>3. InSeq(net') = InSeq(net) \cup {n}
  BY <1>1, <1>2, PutLast
<1>4. \A r \in InSeq(net) : r \in Int
  BY <1>2, Elements, Sizes DEF Rec
<1>5. Ranges'
  <2>1. Alive
    BY <1>1 DEF Ranges
  <2> QED
    BY <1>1, <1>2, <1>3, <2>1 DEF Ranges
<1>6. ASSUME InTurn
      PROVE  InTurn'
  <2>1. \A r \in InSeq(net) : r < pos /\ seqnum < r
    BY <1>1, <1>6 DEF InTurn
  <2>2. seqnum < pos
    BY <1>1, <1>6 DEF InTurn
  <2>3. Increasing(net')
    BY <1>1, <1>2, <1>4, <1>6, <2>1, IncreasingAppend DEF InTurn
  <2>4. \A r \in InSeq(net') : seqnum < r /\ r < n + 1
    BY <1>2, <1>3, <1>4, <2>1, <2>2
  <2>5. seqnum < n + 1
    BY <1>2, <2>2
  <2>6. InSeq(pipe') = InSeq(pipe) /\ Increasing(pipe') /\ Reached' = Reached
    BY <1>1, <1>6 DEF InTurn, InSeq, Increasing, Reached
  <2> QED
    BY <1>1, <1>6, <2>3, <2>4, <2>5, <2>6 DEF InTurn
<1> QED
  BY <1>5, <1>6

LEMMA CollectInTurn ==
  ASSUME TypeOK, Ranges, Collect
  PROVE  Ranges' /\ (InTurn => InTurn')
<1> DEFINE n == Head(net)
<1>1. /\ Alive /\ Alive' /\ net' = Tail(net) /\ seqnum' = n
      /\ pipe' = Append(pipe, n) /\ seqfile' \in {seqfile, n}
      /\ net # <<>> /\ net \in Seq(Rec) /\ pipe \in Seq(Rec)
      /\ UNCHANGED <<link, pos, hi, got, again>>
  BY DEF Collect, Saves, TypeOK, remote, output, Alive
<1>2. /\ n \in Rec /\ n \in Int /\ n \in InSeq(net) /\ InSeq(net) = {n} \cup InSeq(net')
      /\ seqnum \in Int
  BY <1>1, TakeFirst, Sizes DEF Rec, TypeOK
<1>3. Ranges'
  BY <1>1, <1>2 DEF Ranges
<1>4. ASSUME InTurn
      PROVE  InTurn'
  <2>1. Increasing(net') /\ \A q \in InSeq(net') : n < q
    BY <1>1, <1>4, IncreasingTail DEF InTurn
  <2>2. seqnum < n /\ Reached = seqnum /\ Reached' = n
    BY <1>1, <1>2, <1>4 DEF InTurn, Reached
  <2>3. \A r \in got \cup InSeq(pipe) : r < n
    <3>1. \A r \in got \cup InSeq(pipe) : r \in Int /\ r <= seqnum
      BY <1>1, <1>4, <2>2, Elements, Sizes DEF InTurn, TypeOK, Rec
    <3> QED
      BY <1>2, <2>2, <3>1
  <2> HIDE DEF n
  <2>4. InSeq(pipe') = InSeq(pipe) \cup {n} /\ Increasing(pipe')
    BY <1>1, <1>2, <1>4, <2>3, PutLast, IncreasingAppend DEF InTurn
  <2>5. \A r \in got' \cup InSeq(pipe') : r <= n
    <3>1. \A r \in got \cup InSeq(pipe) : r \in Int
      BY <1>1, Elements, Sizes DEF TypeOK, Rec
    <3> QED
      BY <1>1, <1>2, <2>3, <2>4, <3>1
  <2>6. \A r \in got', q \in InSeq(pipe') : r < q
    BY <1>1, <1>4, <2>3, <2>4 DEF InTurn
  <2>7. link' # "down" => seqnum' < pos' /\ \A r \in InSeq(net') : r < pos'
    BY <1>1, <1>2, <1>4 DEF InTurn
  <2> QED
    BY <1>1, <1>4, <2>1, <2>2, <2>4, <2>5, <2>6, <2>7 DEF InTurn
<1> QED
  BY <1>3, <1>4

LEMMA ReadInTurn ==
  ASSUME TypeOK, InTurn, Read
  PROVE  InTurn'
<1> DEFINE n == Head(pipe)
<1>1. /\ pipe # <<>> /\ pipe' = Tail(pipe) /\ pipe \in Seq(Rec)
      /\ UNCHANGED <<seqnum, seqfile, net, link, pos, child>>
  BY DEF Read, TypeOK, socket, process
<1>2. InSeq(pipe) = {n} \cup InSeq(pipe')
  BY <1>1, TakeFirst
<1>3. Increasing(pipe') /\ \A q \in InSeq(pipe') : n < q
  BY <1>1, IncreasingTail DEF InTurn
<1>4. \A r \in got : r \in Int /\ r < n
  BY <1>2, Sizes DEF InTurn, TypeOK, Rec
<1>5. n \notin got
  BY <1>4
<1>6. got' \subseteq got \cup {n} /\ again' = again
  BY <1>5 DEF Read, PassOn, output
<1> HIDE DEF n
<1>7. Reached' = Reached /\ InSeq(net') = InSeq(net) /\ Increasing(net')
  BY <1>1 DEF Reached, Alive, InSeq, Increasing, InTurn
<1>8. \A r \in got', q \in InSeq(pipe') : r < q
  BY <1>2, <1>3, <1>6 DEF InTurn
<1>9. \A r \in got' \cup InSeq(pipe') : r <= Reached'
  BY <1>2, <1>6, <1>7 DEF InTurn
<1> QED
  BY <1>1, <1>3, <1>6, <1>7, <1>8, <1>9 DEF InTurn

\* The pipe, or nothing, or what follows its first record.
LEMMA PipeLeft ==
  ASSUME TypeOK, InTurn,
         pipe' = pipe \/ pipe' = <<>> \/ (pipe # <<>> /\ pipe' = Tail(pipe))
  PROVE  InSeq(pipe') \subseteq InSeq(pipe) /\ Increasing(pipe')
<1>1. CASE pipe' = pipe
  BY <1>1 DEF InTurn, InSeq, Increasing
<1>2. CASE pipe' = <<>>
  BY <1>2, EmptySeq DEF InSeq, Increasing
<1>3. CASE pipe # <<>> /\ pipe' = Tail(pipe)
  BY <1>3, TakeFirst, IncreasingTail DEF InTurn, TypeOK
<1> QED
  BY <1>1, <1>2, <1>3

LEMMA StepOnce ==
  ASSUME TypeOK, CopyInv, OnceInv, [Next]_vars
  PROVE  OnceInv'
<1>1. CASE Connect
  <2>1. Ranges'
    BY <1>1, RangesStay, WholeOrNone DEF Connect, OnceInv, TypeOK, remote, process, Alive
  <2> QED
    BY <1>1, <2>1, ConnectInTurn DEF Connect, OnceInv
<1>2. CASE ServerSends
  BY <1>2, ServerSendsInTurn DEF ServerSends, OnceInv
<1>3. CASE Collect
  BY <1>3, CollectInTurn DEF Collect, OnceInv
<1>4. CASE Read
  <2>1. Ranges'
    BY <1>4, RangesStay, WholeOrNone DEF Read, OnceInv, Ranges, TypeOK, remote, socket,
       process, Alive
  <2> QED
    BY <1>4, <2>1, ReadInTurn DEF Read, OnceInv
<1>5. CASE BrokenPipe \/ WriteTimeout \/ Crashes \/ KillConnection
  <2>1. /\ net' = <<>> /\ ~Alive' /\ link' = "down" /\ hi' = hi /\ unsaved'
        /\ seqnum' = seqnum \/ (net # <<>> /\ seqnum' = Head(net))
        /\ seqfile' \in {seqfile, -1}
    BY <1>5 DEF BrokenPipe, WriteTimeout, WriteFails, SavedAfterWrite, Crashes,
       KillConnection, Killed, Gone, Alive, remote
  <2>2. Ranges'
    BY <2>1, RangesStay, WholeOrNone DEF OnceInv, TypeOK
  <2> QED
    BY <2>1, <2>2 DEF OnceInv
<1>6. CASE ExitsAtEnd \/ ExitsOnTerm
  <2>1. /\ net' = <<>> /\ Alive /\ ~Alive' /\ link' = "down" /\ hi' = hi
        /\ seqnum' = seqnum /\ seqfile' = seqnum /\ pipe' = pipe /\ unsaved' = unsaved
        /\ got' = got /\ again' = again
    BY <1>6 DEF ExitsAtEnd, ExitsOnTerm, Exits, Gone, Alive, remote, output
  <2>2. Ranges'
    BY <2>1, RangesStay, WholeOrNone DEF OnceInv, TypeOK
  <2>3. Reached' = Reached
    BY <2>1 DEF Reached
  <2>4. InTurn => InTurn'
    BY <2>1, <2>3, InTurnStays, PipeLeft, WholeOrNone DEF TypeOK
  <2> QED
    BY <2>1, <2>2, <2>4 DEF OnceInv
<1>7. CASE OpenConnection
  <2>1. /\ net = <<>> /\ link = "down" /\ ~Alive
        /\ Alive' /\ seqnum' = seqfile /\ seqfile' = seqfile /\ pipe' = <<>>
        /\ hi' = hi /\ unsaved' = unsaved /\ got' = got /\ again' = again
        /\ net' = net /\ link' = link
    BY <1>7 DEF OpenConnection, Recovered, OnceInv, Ranges, Alive, remote, socket, output
  <2>2. Ranges'
    BY <2>1, RangesStay, WholeOrNone DEF OnceInv, TypeOK
  <2>3. Reached' = Reached
    BY <2>1 DEF Reached
  <2>4. InTurn => InTurn'
    BY <2>1, <2>3, InTurnStays, PipeLeft, WholeOrNone DEF TypeOK
  <2> QED
    BY <2>1, <2>2, <2>4 DEF OnceInv
<1>8. CASE UptimeOver \/ Terminate \/ LinkFails
  <2>1. /\ Begins(net', net) /\ Alive' = Alive
        /\ link' # "down" => link # "down" /\ pos' = pos /\ net' = net
    <3>1. CASE CloseConnection
      BY <3>1, PartOfNet DEF CloseConnection, Alive
    <3>2. CASE UNCHANGED <<child, link, net>> /\ pos' = pos
      BY <3>2, WholeOrNone DEF TypeOK, Alive
    <3>3. CASE LinkFails
      BY <3>3, PartOfNet DEF LinkFails, process, Alive
    <3> QED
      BY <1>8, <3>1, <3>2, <3>3 DEF UptimeOver, Terminate, Shutdown
  <2>2. UNCHANGED <<hi, seqnum, seqfile, pipe, got, again, unsaved>>
    BY <1>8 DEF UptimeOver, Terminate, Shutdown, LinkFails, remote, process, output
  <2>3. ~Alive' => net' = <<>> /\ link' = "down"
    BY <2>1, EmptySeq, LenProperties DEF OnceInv, Ranges, Begins
  <2>4. Ranges'
    BY <2>1, <2>2, <2>3, RangesStay DEF OnceInv
  <2>5. Reached' = Reached
    BY <2>1, <2>2 DEF Reached
  <2>6. InTurn => InTurn'
    BY <2>1, <2>2, <2>5, InTurnStays, PipeLeft
  <2> QED
    BY <2>2, <2>4, <2>6 DEF OnceInv
<1>9. CASE PassFails \/ MainKilled
  <2>1. /\ Begins(net', net) /\ Alive' = Alive
        /\ link' # "down" => link # "down" /\ pos' = pos /\ net' = net
    <3>1. CASE CloseConnection /\ pos' = pos
      BY <3>1, PartOfNet DEF CloseConnection, Alive
    <3>2. CASE UNCHANGED <<child, link, net>> /\ pos' = pos
      BY <3>2, WholeOrNone DEF TypeOK, Alive
    <3>3. CASE MainGone
      BY <3>3, WholeOrNone DEF MainGone, TypeOK, Alive, socket
    <3> QED
      BY <1>9, <3>1, <3>2, <3>3 DEF PassFails, MainKilled, Shutdown
  <2>2. /\ UNCHANGED <<hi, seqnum, seqfile, got, again, unsaved>>
        /\ pipe' = <<>> \/ (pipe # <<>> /\ pipe' = Tail(pipe))
    BY <1>9 DEF PassFails, MainKilled, Shutdown, MainGone, remote, output
  <2>3. ~Alive' => net' = <<>> /\ link' = "down"
    BY <2>1, EmptySeq, LenProperties DEF OnceInv, Ranges, Begins
  <2>4. Ranges'
    BY <2>1, <2>2, <2>3, RangesStay DEF OnceInv
  <2>5. Reached' = Reached
    BY <2>1, <2>2 DEF Reached
  <2>6. InTurn => InTurn'
    BY <2>1, <2>2, <2>5, InTurnStays, PipeLeft
  <2> QED
    BY <2>2, <2>4, <2>6 DEF OnceInv
<1>10. CASE \/ Produce \/ ServerEnds \/ NetTimeout \/ LinkStalls \/ ServerGone
            \/ Reap \/ ConfirmShutdown \/ MainStarts \/ UNCHANGED vars
  <2>1. /\ net' = net /\ pos' = pos /\ hi' \in {hi, hi + 1} /\ Alive' = Alive
        /\ link' # "down" => link # "down"
    BY <1>10 DEF Produce, ServerEnds, NetTimeout, LinkStalls, ServerGone, Reap,
       ConfirmShutdown, MainStarts, vars, socket, process, remote, Alive
  <2>2. UNCHANGED <<seqnum, seqfile, pipe, got, again, unsaved>>
    BY <1>10 DEF Produce, ServerEnds, NetTimeout, LinkStalls, ServerGone, Reap,
       ConfirmShutdown, MainStarts, vars, process, output
  <2>3. ~Alive' => net' = <<>> /\ link' = "down"
    BY <2>1 DEF OnceInv, Ranges, TypeOK
  <2>4. Ranges'
    BY <2>1, <2>2, <2>3, RangesStay, WholeOrNone DEF OnceInv, TypeOK
  <2>5. Reached' = Reached
    BY <2>1, <2>2 DEF Reached
  <2>6. InTurn => InTurn'
    BY <2>1, <2>2, <2>5, InTurnStays, PipeLeft, WholeOrNone DEF TypeOK
  <2> QED
    BY <2>2, <2>4, <2>6 DEF OnceInv
<1> QED
  BY <1>1, <1>2, <1>3, <1>4, <1>5, <1>6, <1>7, <1>8, <1>9, <1>10
     DEF Next, Steps, Failures

\* As long as no child ended without saving its state, each record is passed on
\* at most once, whatever else fails and is started again.
THEOREM OnceOnly == Spec => []AgainOnlyAfterLoss
<1>1. Init => OnceInv
  BY InitOnce
<1>2. (TypeOK /\ CopyInv) /\ OnceInv /\ [Next]_vars => OnceInv'
  BY StepOnce
<1>3. OnceInv => AgainOnlyAfterLoss
  BY DEF OnceInv, InTurn, AgainOnlyAfterLoss
<1> QED
  BY <1>1, <1>2, <1>3, CopyInvariant, PTL DEF Spec

-----------------------------------------------------------------------------
(* The state that an orderly end leaves.                                   *)

\* The record that is passed on last when s is read to its end.
Newest(s, l) == IF s = <<>> THEN l ELSE s[Len(s)]

LEMMA NewestRead ==
  ASSUME NEW s \in Seq(Rec), s # <<>>, NEW l
  PROVE  Newest(s, l) = Newest(Tail(s), Head(s))
<1>1. /\ Tail(s) \in Seq(Rec) /\ Len(s) \in Nat \ {0} /\ Len(Tail(s)) = Len(s) - 1
      /\ Head(s) = s[1] /\ \A k \in 1..Len(Tail(s)) : Tail(s)[k] = s[k + 1]
  BY TakeFirst
<1>2. CASE Tail(s) = <<>>
  <2>1. Len(s) = 1
    BY <1>1, <1>2, EmptySeq
  <2> QED
    BY <1>1, <1>2, <2>1 DEF Newest
<1>3. CASE Tail(s) # <<>>
  <2>1. Len(Tail(s)) \in 1..Len(Tail(s)) /\ Len(Tail(s)) + 1 = Len(s)
    BY <1>1, <1>3, EmptySeq
  <2> QED
    BY <1>1, <1>3, <2>1 DEF Newest
<1> QED
  BY <1>2, <1>3

LEMMA NewestWritten ==
  ASSUME NEW s \in Seq(Rec), NEW n \in Rec, NEW l
  PROVE  Newest(Append(s, n), l) = n
<1>1. /\ Append(s, n) \in Seq(Rec) /\ Len(s) \in Nat /\ Len(Append(s, n)) = Len(s) + 1
      /\ Append(s, n)[Len(s) + 1] = n
  BY PutLast
<1>2. Append(s, n) # <<>>
  BY <1>1, EmptySeq
<1> QED
  BY <1>1, <1>2 DEF Newest

\* The entry is the end of the last record passed on.
EntryOfLast ==
  table # NoEntry => last # -1 /\ table.it \in {Start(last) + 1, Start(last + 1)}

\* As long as no state and no record was lost, the child's number, or the state
\* file, is that of the last record in the pipe, or passed on.
Followed == EntryOfLast /\ Reached = Newest(pipe, last)

SavedInv == unsaved \/ spilled # {} \/ Followed

LEMMA InitSaved == Init => SavedInv
BY DEF Init, SavedInv, Followed, EntryOfLast, Reached, Alive, Newest

\* Nothing is dropped as long as everything is in the order of production.
LEMMA NothingDropped ==
  ASSUME TypeOK, CopyInv, InTurn, EntryOfLast, pipe # <<>>
  PROVE  ~Drops(Head(pipe))
<1> DEFINE n == Head(pipe)
<1>1. n \in Rec /\ n \in InSeq(pipe)
  BY TakeFirst DEF TypeOK
<1>2. SUFFICES ASSUME table # NoEntry PROVE Later(n)
  BY DEF Drops
<1>3. last \in Rec /\ last < n
  <2>1. last # -1 /\ last \in got
    BY <1>2 DEF EntryOfLast, CopyInv, TableSide
  <2> QED
    BY <1>1, <2>1, Sizes DEF InTurn, TypeOK, Rec
<1> HIDE DEF n
<1>4. /\ last \in 0..MaxRec /\ n \in 0..MaxRec /\ last + 1 \in 0..MaxRec
      /\ last + 1 < n \/ last + 1 = n
  BY <1>1, <1>3, Sizes DEF Rec
<1>5. /\ Start(last) + Second <= Start(n) /\ Start(last) \in Int /\ Start(n) \in Int
      /\ Start(last + 1) \in Int
  BY <1>3, <1>4, ChainAssumption
<1>6. Start(last + 1) <= Start(n)
  <2>1. CASE last + 1 < n
    <3>1. Start(last + 1) + Second <= Start(n)
      BY <1>4, <2>1, ChainAssumption
    <3> QED
      BY <1>5, <3>1, Sizes
  <2>2. CASE last + 1 = n
    BY <1>5, <2>2
  <2> QED
    BY <1>4, <2>1, <2>2
<1>7. table.it \in {Start(last) + 1, Start(last + 1)}
  BY <1>2 DEF EntryOfLast
<1>8. Start(n) - table.it > -100
  BY <1>5, <1>6, <1>7, Sizes
<1> QED
  BY <1>8 DEF Later

LEMMA ReadFollows ==
  ASSUME TypeOK, CopyInv, InTurn, Followed, Read
  PROVE  Followed'
<1> DEFINE n == Head(pipe)
<1>1. /\ pipe # <<>> /\ pipe \in Seq(Rec) /\ pipe' = Tail(pipe) /\ ~Drops(n)
  BY NothingDropped DEF Read, TypeOK, Followed
<1>2. n \in Rec /\ n # -1
  BY <1>1, TakeFirst, Sizes DEF Rec
<1>3. last' = n /\ table' = EntryAfter(n)
  BY <1>1 DEF Read, PassOn
<1>4. Reached' = Reached
  BY DEF Read, Reached, Alive, process
<1>5. Newest(pipe', last') = Newest(pipe, last)
  BY <1>1, <1>3, NewestRead
<1>6. EntryOfLast'
  <2> HIDE DEF n
  <2>1. table' # NoEntry => table'.it = Start(n) + 1
    BY <1>3 DEF EntryAfter
  <2> QED
    BY <1>2, <1>3, <2>1 DEF EntryOfLast
<1> QED
  BY <1>4, <1>5, <1>6 DEF Followed

LEMMA StepSaved ==
  ASSUME TypeOK, CopyInv, OnceInv, SavedInv, [Next]_vars
  PROVE  SavedInv'
<1>1. ASSUME Followed, UNCHANGED <<table, last>>, Reached' = Reached, pipe' = pipe
      PROVE  Followed'
  BY <1>1 DEF Followed, EntryOfLast, Newest
<1>2. CASE Collect
  <2> DEFINE n == Head(net)
  <2>1. /\ net \in Seq(Rec) /\ pipe \in Seq(Rec) /\ n \in Rec
        /\ pipe' = Append(pipe, n) /\ seqnum' = n /\ Alive'
        /\ UNCHANGED <<table, last, unsaved, spilled>>
    BY <1>2, TakeFirst DEF Collect, TypeOK, output, Alive
  <2>2. Newest(pipe', last') = n /\ Reached' = n
    BY <2>1, NewestWritten DEF Reached
  <2>3. Followed => Followed'
    BY <2>1, <2>2 DEF Followed, EntryOfLast
  <2> QED
    BY <2>1, <2>3 DEF SavedInv
<1>3. CASE Read
  <2>1. unsaved' = unsaved /\ spilled' = spilled
    BY <1>3 DEF Read
  <2> QED
    BY <1>3, <2>1, ReadFollows DEF SavedInv, OnceInv
<1>4. CASE BrokenPipe \/ WriteTimeout \/ Crashes \/ KillConnection
  BY <1>4 DEF BrokenPipe, WriteTimeout, WriteFails, Crashes, KillConnection, Killed,
     SavedInv
<1>5. CASE ExitsAtEnd \/ ExitsOnTerm
  <2>1. /\ Alive /\ ~Alive' /\ seqfile' = seqnum
        /\ UNCHANGED <<table, last, pipe, unsaved, spilled>>
    BY <1>5 DEF ExitsAtEnd, ExitsOnTerm, Exits, Gone, Alive, output
  <2>2. Reached' = Reached
    BY <2>1 DEF Reached
  <2> QED
    BY <1>1, <2>1, <2>2 DEF SavedInv
<1>6. CASE OpenConnection
  <2>1. /\ ~Alive /\ Alive' /\ seqnum' = seqfile /\ pipe = <<>> /\ pipe' = pipe
        /\ UNCHANGED <<table, last, unsaved, spilled>>
    BY <1>6 DEF OpenConnection, Recovered, CopyInv, PipeSide, Alive, output
  <2>2. Reached' = Reached
    BY <2>1 DEF Reached
  <2> QED
    BY <1>1, <2>1, <2>2 DEF SavedInv
<1>7. CASE PassFails
  <2>1. pipe # <<>> /\ Head(pipe) \in InSeq(pipe)
    BY <1>7, TakeFirst DEF PassFails, TypeOK
  <2>2. spilled' # {}
    BY <1>7, <2>1 DEF PassFails, MainGone
  <2> QED
    BY <2>2 DEF SavedInv
<1>8. CASE MainKilled
  <2>1. /\ unsaved' = unsaved /\ spilled' = spilled \cup InSeq(pipe) /\ pipe' = <<>>
        /\ UNCHANGED <<table, last, seqnum, seqfile>> /\ Alive' = Alive
    BY <1>8 DEF MainKilled, MainGone, output, Alive
  <2>2. pipe # <<>> => spilled' # {}
    <3>1. pipe # <<>> => Head(pipe) \in InSeq(pipe)
      BY TakeFirst DEF TypeOK
    <3> QED
      BY <2>1, <3>1
  <2>3. Reached' = Reached
    BY <2>1 DEF Reached
  <2>4. pipe = <<>> /\ Followed => Followed'
    BY <1>1, <2>1, <2>3
  <2> QED
    BY <2>1, <2>2, <2>4 DEF SavedInv
<1>9. CASE MainStarts
  <2>1. /\ UNCHANGED <<pipe, last, unsaved, spilled>> /\ Reached' = Reached
        /\ table' = NoEntry \/ (last # -1 /\ table' = Timetable(last))
    BY <1>9 DEF MainStarts, process, Reached, Alive
  <2>2. EntryOfLast'
    BY <2>1 DEF EntryOfLast, Timetable
  <2>3. Followed => Followed'
    BY <2>1, <2>2 DEF Followed
  <2> QED
    BY <2>1, <2>3 DEF SavedInv
<1>10. CASE UptimeOver \/ Terminate
  <2>1. /\ UNCHANGED <<pipe, last, table, unsaved, spilled, seqnum, seqfile>>
        /\ Alive' = Alive
    BY <1>10 DEF UptimeOver, Terminate, Shutdown, CloseConnection, output, Alive
  <2>2. Reached' = Reached
    BY <2>1 DEF Reached
  <2> QED
    BY <1>1, <2>1, <2>2 DEF SavedInv
<1>11. CASE ConfirmShutdown
  <2>1. pipe' = pipe /\ UNCHANGED <<last, table, unsaved, spilled>> /\ Reached' = Reached
    BY <1>11 DEF ConfirmShutdown, process, output, Reached, Alive
  <2> QED
    BY <1>1, <2>1 DEF SavedInv
<1>12. CASE \/ Produce \/ Connect \/ ServerSends \/ ServerEnds \/ NetTimeout \/ LinkFails
            \/ LinkStalls \/ ServerGone \/ Reap \/ UNCHANGED vars
  <2>1. /\ UNCHANGED <<pipe, last, table, unsaved, spilled, seqnum, seqfile>>
        /\ Alive' = Alive
    BY <1>12 DEF Produce, Connect, ServerSends, ServerEnds, NetTimeout, LinkFails,
       LinkStalls, ServerGone, Reap, vars, process, output, Alive
  <2>2. Reached' = Reached
    BY <2>1 DEF Reached
  <2> QED
    BY <1>1, <2>1, <2>2 DEF SavedInv
<1> QED
  BY <1>2, <1>3, <1>4, <1>5, <1>6, <1>7, <1>8, <1>9, <1>10, <1>11, <1>12
     DEF Next, Steps, Failures

\* When the plugin has ended, with no state and no record lost, the state file
\* has the number of the last record passed on (sl_savestate when sl_collect
\* returns SLTERMINATE): the next child asks for exactly what follows.
THEOREM SavedWhenEnded == Spec => []SavedAtEnd
<1>1. CopyInv /\ SavedInv => SavedAtEnd
  BY DEF CopyInv, PipeSide, SavedInv, Followed, Reached, Alive, Newest, SavedAtEnd
<1>2. TypeOK /\ CopyInv /\ OnceInv /\ SavedInv /\ [Next]_vars => SavedInv'
  BY StepSaved
<1>3. TypeOK /\ CopyInv /\ OnceInv /\ [Next]_vars => OnceInv'
  BY StepOnce
<1> QED
  BY InitOnce, InitSaved, <1>1, <1>2, <1>3, CopyInvariant, PTL DEF Spec

=============================================================================
