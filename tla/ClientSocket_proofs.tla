------------------------- MODULE ClientSocket_proofs -------------------------
(***************************************************************************)
(* Proofs about ClientSocket, for any buffer, any lengths of lines that    *)
(* fit twice into it, and any number of lines; and about the flags of the  *)
(* reports (ClientReports), of which MCClient has an instance.             *)
(*                                                                         *)
(* What the client has not unpacked yet, in the buffer or on the way, is   *)
(* one sequence of bytes (Unread).  The invariant says how its bytes       *)
(* follow each other; the daemon lengthens it at its end, recv() only      *)
(* moves the limit between its two parts, and a line taken from the buffer *)
(* is exactly its beginning.                                               *)
(***************************************************************************)
EXTENDS MCClient, SequenceTheorems, FiniteSetTheorems, TLAPS

USE CapAssumption, MaxLinesAssumption

-----------------------------------------------------------------------------
(* The invariant. *)

Byte == Nat \X Int

\* The bytes of lines with the lengths ls, and what comes after one.
IsByteOf(b, ls) ==
    b \in Byte /\ b[1] \in 1..Len(ls) /\ b[2] \in 0..(ls[b[1]] - 1)
After(b, ls) ==
    IF b[2] = 0 THEN <<b[1] + 1, 1>>
    ELSE <<b[1], IF b[2] < ls[b[1]] - 1 THEN b[2] + 1 ELSE 0>>

\* u is what is left of those lines when h of them were unpacked ...
Flow(u, ls, h) ==
    /\ u \in Seq(Byte) /\ h \in 0..Len(ls)
    /\ u # <<>> => u[1] = <<h + 1, 1>>
    /\ \A i \in 1..Len(u) : IsByteOf(u[i], ls)
    /\ \A i \in 1..(Len(u) - 1) : u[i + 1] = After(u[i], ls)

\* ... and they were written whole.
Ends(u, ls, h) ==
    IF u = <<>> THEN h = Len(ls) ELSE u[Len(u)] = Newline(Len(ls))

AsReceived(bytes, n) == [i \in 1..n |-> bytes[i - 1]]
Received == AsReceived(buffer, waiting)
Unread == Received \o stream

\* Behind the bytes received are only newlines that malloc() left, as long as no
\* two lines were moved together.
OnlyOldNewlines ==
    \A i \in waiting..(Cap - 1) : IsNewline(buffer[i]) => buffer[i] = Newline(0)

SocketInv ==
    /\ TypeOK /\ stream \in Seq(Byte) /\ buffer \in [0..(Cap - 1) -> Byte]
    /\ handled \in Seq(Seq(Byte)) /\ LinesAreWhole
    /\ ~overrun => Flow(Unread, lines, Len(handled))
    /\ ~overrun /\ ~closed => Ends(Unread, lines, Len(handled))
    /\ ~overrun /\ ~crowded => OnlyOldNewlines
    /\ OverrunNeedsOldNewline

-----------------------------------------------------------------------------
(* Sequences and numbers. *)

\* A set of numbers that is not empty has a least one: the least of the intervals from 0.
LEMMA HasLeast ==
  ASSUME NEW T \in SUBSET Nat, T # {}
  PROVE  \E x \in T : \A y \in T : x <= y
<1> DEFINE R == StrictSubsetOrdering(Nat)
           I == {0..x : x \in T}
<1>1. IsWellFoundedOn(R, FiniteSubsetsOf(Nat))
  BY FS_StrictSubsetOrderingWellFounded
<1>2. I \subseteq FiniteSubsetsOf(Nat) /\ I # {}
  <2>1. \A x \in T : 0..x \in SUBSET Nat /\ IsFiniteSet(0..x)
    BY FS_Interval
  <2>2. \A x \in T : 0..x \in FiniteSubsetsOf(Nat)
    BY <2>1 DEF FiniteSubsetsOf
  <2> QED
    BY <2>2
<1>3. PICK i \in I : \A j \in I : <<j, i>> \notin R
  <2> HIDE DEF I, R
  <2> QED BY <1>1, <1>2, WFMin
<1>4. PICK x \in T : i = 0..x
  OBVIOUS
<1>5. ASSUME NEW y \in T, y < x PROVE FALSE
  <2>1. 0..y \in I /\ 0..y \subseteq 0..x /\ x \in 0..x /\ x \notin 0..y
    BY <1>5
  <2>2. <<0..y, 0..x>> \in R
    BY <2>1 DEF StrictSubsetOrdering
  <2> QED
    BY <1>3, <1>4, <2>1, <2>2
<1> QED
  BY <1>5

\* A line fits twice into the buffer.
LEMMA LengthIs ==
  ASSUME NEW len \in Lengths
  PROVE  len \in Nat /\ len >= 2 /\ 2 * len <= Cap
<1>1. len \in 2..(Cap \div 2)
  BY LengthsAssumption
<1>2. Cap \div 2 \in Int /\ 2 * (Cap \div 2) <= Cap
  OBVIOUS
<1> QED
  BY <1>1, <1>2

LEMMA LenIs ==
  ASSUME NEW u, u \in Seq(Byte)
  PROVE  Len(u) \in Nat /\ (u = <<>> <=> Len(u) = 0)
OBVIOUS

\* Where the search for the end of a line stops.
LEMMA EolFinds ==
  ASSUME NEW bytes \in [0..(Cap - 1) -> Byte], NEW n \in 0..Cap
  PROVE  /\ Eol(bytes, n) = -1 => \A i \in 0..n : i < Cap => ~IsNewline(bytes[i])
         /\ Eol(bytes, n) # -1 =>
              /\ Eol(bytes, n) \in 0..n /\ Eol(bytes, n) < Cap
              /\ IsNewline(bytes[Eol(bytes, n)])
              /\ \A i \in 0..(Eol(bytes, n) - 1) : ~IsNewline(bytes[i])
<1> DEFINE found == {i \in 0..n : i < Cap /\ IsNewline(bytes[i])}
           e == CHOOSE i \in found : \A j \in found : i <= j
<1>1. Eol(bytes, n) = IF found = {} THEN -1 ELSE e
  BY DEF Eol
<1>2. CASE found = {}
  BY <1>1, <1>2
<1>3. CASE found # {}
  <2>1. e \in found /\ \A j \in found : e <= j
    <3>1. found \in SUBSET Nat
      OBVIOUS
    <3> HIDE DEF found
    <3> QED BY <3>1, <1>3, HasLeast
  <2>2. e \in 0..n /\ e < Cap /\ IsNewline(bytes[e])
    BY <2>1
  <2>3. ASSUME NEW i \in 0..(e - 1) PROVE ~IsNewline(bytes[i])
    <3>1. i \in 0..n /\ i < Cap /\ ~(e <= i)
      <4> HIDE DEF e
      <4> QED BY <2>2
    <3>2. i \notin found
      <4> HIDE DEF e, found
      <4> QED BY <2>1, <3>1
    <3> QED
      BY <3>1, <3>2
  <2> HIDE DEF e
  <2> QED
    BY <1>1, <1>3, <2>2, <2>3
<1> QED
  BY <1>2, <1>3

\* What is still to be unpacked, byte by byte.
Consists(u, b, n, s) ==
  /\ u \in Seq(Byte) /\ Len(u) = n + Len(s)
  /\ \A i \in 1..(n + Len(s)) : u[i] = IF i <= n THEN b[i - 1] ELSE s[i - n]

LEMMA UnreadIs ==
  ASSUME NEW u, NEW b, NEW n, NEW s,
         b \in [0..(Cap - 1) -> Byte], s \in Seq(Byte), n \in 0..Cap, u = AsReceived(b, n) \o s
  PROVE  Consists(u, b, n, s)
<1> DEFINE r == [i \in 1..n |-> b[i - 1]]
<1>1. r \in Seq(Byte) /\ Len(r) = n /\ \A i \in 1..n : r[i] = b[i - 1]
  <2>1. \A i \in 1..n : b[i - 1] \in Byte
    OBVIOUS
  <2> QED
    BY <2>1
<1> HIDE DEF r
<1>2. u = r \o s
  BY DEF r, AsReceived
<1> QED
  BY <1>1, <1>2, ConcatProperties DEF Consists

-----------------------------------------------------------------------------
(* The flow of bytes. *)

\* The daemon writes a line, or its beginning.
LEMMA FlowGrows ==
  ASSUME NEW u, NEW ls \in Seq(Lengths), NEW h, Flow(u, ls, h), Ends(u, ls, h),
         NEW len \in Lengths, NEW k \in 1..len, NEW s \in Seq(Byte), Len(s) = k,
         \A i \in 1..k : s[i] = <<Len(ls) + 1, IF i < len THEN i ELSE 0>>,
         NEW v, v = u \o s, NEW ks, ks = Append(ls, len)
  PROVE  /\ Flow(v, ks, h)
         /\ k = len => Ends(v, ks, h)
<1>1. /\ ks \in Seq(Lengths) /\ Len(ks) = Len(ls) + 1 /\ ks[Len(ls) + 1] = len
      /\ \A n \in 1..Len(ls) : ks[n] = ls[n]
  BY AppendProperties
<1>3. /\ u \in Seq(Byte) /\ Len(u) \in Nat /\ Len(ls) \in Nat /\ h \in Nat /\ h <= Len(ls)
      /\ len \in Nat /\ len >= 2 /\ k \in Nat /\ k <= len /\ k >= 1
  BY LengthIs DEF Flow
<1>2. /\ v \in Seq(Byte) /\ Len(v) = Len(u) + k
      /\ \A i \in 1..Len(u) : v[i] = u[i]
      /\ \A i \in (Len(u) + 1)..(Len(u) + k) : v[i] = s[i - Len(u)]
  <2>1. /\ v \in Seq(Byte) /\ Len(v) = Len(u) + k
        /\ \A i \in 1..(Len(u) + k) : v[i] = IF i <= Len(u) THEN u[i] ELSE s[i - Len(u)]
    <3>1. /\ u \o s \in Seq(Byte) /\ Len(u \o s) = Len(u) + Len(s)
          /\ \A i \in 1..(Len(u) + Len(s)) : (u \o s)[i] = IF i <= Len(u) THEN u[i] ELSE s[i - Len(u)]
      BY ONLY <1>3, s \in Seq(Byte), ConcatProperties
    <3> QED
      BY <3>1
  <2> QED
    BY <2>1, <1>3
<1>4. \A i \in 1..Len(u) : IsByteOf(v[i], ks)
  BY <1>1, <1>2, <1>3 DEF Flow, IsByteOf
<1>5. ASSUME NEW i \in (Len(u) + 1)..(Len(u) + k) PROVE IsByteOf(v[i], ks)
  <2>1. v[i] = <<Len(ls) + 1, IF i - Len(u) < len THEN i - Len(u) ELSE 0>>
    BY <1>2, <1>3
  <2> DEFINE j == IF i - Len(u) < len THEN i - Len(u) ELSE 0
  <2>2. j \in 0..(len - 1) /\ j \in Int
    BY <1>3
  <2> HIDE DEF j
  <2>3. v[i] = <<Len(ls) + 1, j>>
    BY <2>1 DEF j
  <2> QED
    BY SMTT(20), <2>2, <2>3, <1>1, <1>3 DEF IsByteOf, Byte
<1>6. v # <<>> /\ v[1] = <<h + 1, 1>>
  <2>1. CASE u = <<>>
    BY <2>1, <1>2, <1>3 DEF Ends
  <2>2. CASE u # <<>>
    BY <2>2, <1>2, <1>3, LenIs DEF Flow
  <2> QED
    BY <2>1, <2>2
<1>7. ASSUME NEW i \in 1..(Len(u) + k - 1) PROVE v[i + 1] = After(v[i], ks)
  <2>1. CASE i < Len(u)
    <3>1. u[i + 1] = After(u[i], ls) /\ IsByteOf(u[i], ls)
      BY SMTT(20), <2>1, <1>3 DEF Flow
    <3>2. v[i + 1] = u[i + 1] /\ v[i] = u[i]
      BY <2>1, <1>2, <1>3
    <3> QED
      BY <3>1, <3>2, <1>1 DEF After, IsByteOf
  <2>2. CASE i = Len(u)
    <3>1. u[i] = Newline(Len(ls)) /\ v[i] = u[i]
      BY <2>2, <1>2, <1>3 DEF Ends
    <3>2. v[i + 1] = <<Len(ls) + 1, 1>>
      BY SMTT(20), <2>2, <1>2, <1>3
    <3> QED
      BY <3>1, <3>2 DEF After, Newline
  <2>3. CASE i > Len(u)
    <3>1. i - Len(u) \in 1..(k - 1) /\ i + 1 - Len(u) \in 1..k /\ i - Len(u) < len
      BY <2>3, <1>3
    <3>2. v[i] = s[i - Len(u)] /\ v[i + 1] = s[i + 1 - Len(u)]
      BY <2>3, <1>2, <1>3
    <3>3. /\ v[i] = <<Len(ls) + 1, i - Len(u)>>
          /\ v[i + 1] = <<Len(ls) + 1, IF i + 1 - Len(u) < len THEN i + 1 - Len(u) ELSE 0>>
      BY <3>1, <3>2
    <3> DEFINE j == i - Len(u)
    <3>4. j \in Int /\ j # 0 /\ v[i] = <<Len(ls) + 1, j>>
          /\ v[i + 1] = <<Len(ls) + 1, IF j < len - 1 THEN j + 1 ELSE 0>>
      BY <3>1, <3>3, <1>3
    <3> HIDE DEF j
    <3> QED
      BY <3>4, <1>1 DEF After
  <2>4. i < Len(u) \/ i = Len(u) \/ i > Len(u)
    BY <1>3
  <2> QED
    BY <2>1, <2>2, <2>3, <2>4
<1>8. Flow(v, ks, h)
  <2>1. h \in 0..Len(ks)
    BY <1>1, <1>3 DEF Flow
  <2>2. ASSUME NEW i \in 1..Len(v) PROVE IsByteOf(v[i], ks)
    <3>1. i \in 1..Len(u) \/ i \in (Len(u) + 1)..(Len(u) + k)
      BY <1>2, <1>3
    <3> QED
      BY <3>1, <1>4, <1>5
  <2>3. \A i \in 1..(Len(v) - 1) : v[i + 1] = After(v[i], ks)
    BY <1>2, <1>7
  <2>4. v \in Seq(Byte)
    BY <1>2
  <2> QED
    BY ONLY <2>1, <2>2, <2>3, <2>4, <1>6 DEF Flow
<1>9. k = len => Ends(v, ks, h)
  BY <1>1, <1>2, <1>3, <1>6 DEF Ends, Newline
<1> QED
  BY <1>8, <1>9

\* The bytes before the first newline are those of one line.
LEMMA FirstLine ==
  ASSUME NEW u, NEW ls \in Seq(Lengths), NEW h, Flow(u, ls, h),
         NEW m, m \in Nat, m <= Len(u), \A i \in 1..m : u[i][2] # 0
  PROVE  \A i \in 1..m : u[i] = <<h + 1, i>> /\ i < ls[h + 1] /\ h < Len(ls)
<1> DEFINE Wrong == {i \in 1..m : ~(u[i] = <<h + 1, i>> /\ i < ls[h + 1] /\ h < Len(ls))}
<1>1. Wrong = {}
  <2> SUFFICES ASSUME Wrong # {} PROVE FALSE
    OBVIOUS
  <2>1. Wrong \in SUBSET Nat
    OBVIOUS
  <2>2. PICK i \in Wrong : \A j \in Wrong : i <= j
    <3> HIDE DEF Wrong
    <3> QED BY <2>1, HasLeast
  <2>3. i \in 1..m /\ i \in 1..Len(u) /\ Len(u) \in Nat /\ m \in Nat /\ h \in Nat /\ Len(ls) \in Nat
    BY <2>2 DEF Flow
  <2>4. IsByteOf(u[i], ls) /\ u[i][2] # 0
    BY <2>3 DEF Flow
  <2>5. u[i] = <<h + 1, i>>
    <3>1. CASE i = 1
      <4>1. u # <<>>
        BY <2>3, LenIs DEF Flow
      <4> QED
        BY <3>1, <4>1 DEF Flow
    <3>2. CASE i # 1
      <4>1. i - 1 \in 1..m /\ i - 1 \notin Wrong /\ i - 1 \in 1..(Len(u) - 1)
        BY SMTT(20), <3>2, <2>2, <2>3
      <4>2. u[i - 1] = <<h + 1, i - 1>> /\ i - 1 < ls[h + 1]
        BY <4>1
      <4>3. u[i] = After(u[i - 1], ls)
        BY <4>1, <2>3 DEF Flow
      <4> QED
        BY <4>1, <4>2, <4>3, <2>3, <2>4 DEF After
    <3> QED
      BY <3>1, <3>2
  <2>6. i < ls[h + 1] /\ h < Len(ls)
    BY SMTT(20), <2>3, <2>4, <2>5, LengthsAssumption DEF IsByteOf
  <2> QED
    BY <2>2, <2>5, <2>6
<1> QED
  BY <1>1

\* The first line ends where the first newline is ...
LEMMA LineEnds ==
  ASSUME NEW u, NEW ls \in Seq(Lengths), NEW h, Flow(u, ls, h),
         NEW m, m \in 1..Len(u), \A i \in 1..(m - 1) : u[i][2] # 0, u[m][2] = 0
  PROVE  /\ \A i \in 1..(m - 1) : u[i] = <<h + 1, i>>
         /\ h + 1 \in 1..Len(ls) /\ m = ls[h + 1] /\ u[m] = <<h + 1, 0>>
<1>1. /\ Len(u) \in Nat /\ Len(ls) \in Nat /\ h \in Nat /\ h <= Len(ls)
      /\ u # <<>> /\ u \in Seq(Byte)
  BY LenIs DEF Flow
<1>2. \A i \in 1..(m - 1) : u[i] = <<h + 1, i>> /\ i < ls[h + 1] /\ h < Len(ls)
  <2> DEFINE n == m - 1
  <2>1. n \in Nat /\ n <= Len(u) /\ \A i \in 1..n : u[i][2] # 0
    BY <1>1
  <2> HIDE DEF n
  <2>2. \A i \in 1..n : u[i] = <<h + 1, i>> /\ i < ls[h + 1] /\ h < Len(ls)
    BY <2>1, FirstLine
  <2> QED
    BY <2>2 DEF n
<1>3. m # 1
  BY <1>1 DEF Flow
<1>4. u[m] = After(u[m - 1], ls) /\ IsByteOf(u[m], ls)
  <2>1. m - 1 \in 1..(Len(u) - 1) /\ (m - 1) + 1 = m
    BY <1>1, <1>3
  <2> QED
    BY <2>1 DEF Flow
<1>5. h + 1 \in 1..Len(ls) /\ ls[h + 1] \in Nat
  <2>1. h < Len(ls)
    BY <1>1, <1>2, <1>3
  <2> QED
    BY <2>1, <1>1, LengthsAssumption
<1>6. u[m - 1] = <<h + 1, m - 1>> /\ m - 1 < ls[h + 1]
  BY <1>2, <1>3, <1>1
<1>7. m = ls[h + 1] /\ u[m] = <<h + 1, 0>>
  BY <1>3, <1>4, <1>5, <1>6, <1>1 DEF After
<1> QED
  BY <1>2, <1>5, <1>7

LEMMA RestIs ==
  ASSUME NEW u, u \in Seq(Byte), NEW m, m \in Nat, m <= Len(u), NEW v, v = SubSeq(u, m + 1, Len(u))
  PROVE  /\ v \in Seq(Byte) /\ Len(v) = Len(u) - m
         /\ \A i \in 1..(Len(u) - m) : v[i] = u[i + m]
<1>1. Len(u) \in Nat
  BY LenIs
<1>2. v \in Seq(Byte)
  BY <1>1, SubSeqProperties
<1>3. Len(v) = Len(u) - m
  BY <1>1, SubSeqProperties
<1>4. \A i \in 1..(Len(u) - m) : v[i] = u[i + m]
  BY <1>1, SubSeqProperties
<1> QED
  BY <1>2, <1>3, <1>4

\* ... and without it the rest flows on.
LEMMA FlowIsTaken ==
  ASSUME NEW u, NEW ls, ls \in Seq(Lengths), NEW h, Flow(u, ls, h),
         NEW m, m \in 1..Len(u), \A i \in 1..(m - 1) : u[i][2] # 0, u[m][2] = 0,
         NEW v, v = SubSeq(u, m + 1, Len(u))
  PROVE  /\ Flow(v, ls, h + 1)
         /\ Ends(u, ls, h) => Ends(v, ls, h + 1)
<1>1. /\ Len(u) \in Nat /\ Len(ls) \in Nat /\ h \in Nat /\ h <= Len(ls)
      /\ u # <<>> /\ u \in Seq(Byte)
  BY LenIs DEF Flow
<1>2. h + 1 \in 1..Len(ls)
  BY LineEnds
<1>3. u[m] = <<h + 1, 0>>
  BY LineEnds
<1>4. /\ v \in Seq(Byte) /\ Len(v) = Len(u) - m
      /\ \A i \in 1..(Len(u) - m) : v[i] = u[i + m]
  <2>1. m \in Nat /\ m <= Len(u)
    BY <1>1
  <2> QED
    BY <2>1, <1>1, RestIs
<1>5. v = <<>> <=> Len(v) = 0
  BY <1>4, LenIs
<1>6. m \in Nat /\ m <= Len(u) /\ m >= 1
  BY <1>1
<1>7. /\ \A i \in 1..Len(u) : IsByteOf(u[i], ls)
      /\ \A i \in 1..(Len(u) - 1) : u[i + 1] = After(u[i], ls)
  BY DEF Flow
<1>8. Flow(v, ls, h + 1)
  <2>1. ASSUME v # <<>> PROVE v[1] = <<h + 1 + 1, 1>>
    <3>1. m + 1 = 1 + m /\ 1 \in 1..(Len(u) - m) /\ m \in 1..(Len(u) - 1)
      BY ONLY <2>1, <1>1, <1>4, <1>5, <1>6
    <3>2. v[1] = After(u[m], ls)
      BY ONLY <3>1, <1>4, <1>7
    <3> QED
      BY ONLY <3>2, <1>3, <1>1 DEF After
  <2>2. ASSUME NEW i \in 1..Len(v) PROVE IsByteOf(v[i], ls)
    <3>1. i \in 1..(Len(u) - m) /\ i + m \in 1..Len(u)
      BY ONLY <1>1, <1>4, <1>6, i \in 1..Len(v)
    <3> QED
      BY ONLY <3>1, <1>4, <1>7
  <2>3. ASSUME NEW i \in 1..(Len(v) - 1) PROVE v[i + 1] = After(v[i], ls)
    <3>1. /\ i \in 1..(Len(u) - m) /\ i + 1 \in 1..(Len(u) - m)
          /\ i + m \in 1..(Len(u) - 1) /\ (i + 1) + m = (i + m) + 1
      BY ONLY <1>1, <1>4, <1>6, i \in 1..(Len(v) - 1)
    <3>2. v[i] = u[i + m] /\ v[i + 1] = u[(i + m) + 1]
      BY ONLY <3>1, <1>4
    <3> QED
      BY ONLY <3>1, <3>2, <1>7
  <2> QED
    BY ONLY <2>1, <2>2, <2>3, <1>2, <1>4 DEF Flow
<1>9. ASSUME Ends(u, ls, h) PROVE Ends(v, ls, h + 1)
  <2>1. u[Len(u)] = Newline(Len(ls))
    BY ONLY <1>1, <1>9 DEF Ends
  <2>2. CASE v = <<>>
    <3>1. m = Len(u)
      BY ONLY <2>2, <1>1, <1>4, <1>5, <1>6
    <3>2. <<Len(ls), 0>> = <<h + 1, 0>>
      BY ONLY <3>1, <2>1, <1>3 DEF Newline
    <3> QED
      BY ONLY <3>2, <2>2 DEF Ends
  <2>3. CASE v # <<>>
    <3>1. Len(u) - m \in 1..(Len(u) - m) /\ (Len(u) - m) + m = Len(u)
      BY ONLY <2>3, <1>1, <1>4, <1>5, <1>6
    <3>2. v[Len(v)] = u[Len(u)]
      BY ONLY <3>1, <1>4
    <3> QED
      BY ONLY <3>2, <2>1, <2>3 DEF Ends
  <2> QED
    BY <2>2, <2>3
<1> QED
  BY <1>8, <1>9

-----------------------------------------------------------------------------
(* The invariant holds at first and through every step. *)

LEMMA SocketFacts ==
  ASSUME SocketInv
  PROVE  /\ TypeOK /\ waiting \in -1..Cap /\ (waiting = -1 <=> overrun)
         /\ lines \in Seq(Lengths) /\ Len(lines) \in Nat
         /\ handled \in Seq(Seq(Byte)) /\ Len(handled) \in Nat
         /\ stream \in Seq(Byte) /\ buffer \in [0..(Cap - 1) -> Byte]
         /\ \A n \in 1..Len(lines) : lines[n] \in Lengths
BY DEF SocketInv, TypeOK

\* What was unpacked stays unpacked, and its lines keep their lengths.
LEMMA WholeStays ==
  ASSUME SocketInv, handled' = handled, overrun' = overrun,
         Len(lines') >= Len(lines), Len(lines') \in Nat, \A n \in 1..Len(lines) : lines'[n] = lines[n]
  PROVE  LinesAreWhole'
<1> DEFINE sound == IF overrun THEN Len(handled) - 1 ELSE Len(handled)
<1>1. sound <= Len(lines) /\ \A n \in 1..sound : handled[n] = Text(n)
  BY DEF SocketInv, LinesAreWhole
<1>2. sound \in Int /\ Len(lines) \in Nat
  BY SocketFacts
<1> HIDE DEF sound
<1>3. ASSUME NEW n \in 1..sound PROVE handled[n] = Text(n)'
  <2>1. n \in 1..Len(lines)
    BY <1>1, <1>2
  <2> QED
    BY <1>1, <2>1 DEF Text
<1>4. sound <= Len(lines')
  BY <1>1, <1>2
<1> QED
  BY <1>3, <1>4 DEF LinesAreWhole, sound

LEMMA InitSocket == ASSUME Init PROVE SocketInv
<1>1. /\ lines = <<>> /\ stream = <<>> /\ handled = <<>> /\ waiting = 0
      /\ ~overrun /\ ~crowded /\ closed = FALSE /\ quit = FALSE /\ loop = "wait"
  BY DEF Init
<1>2. /\ buffer \in [0..(Cap - 1) -> Byte]
      /\ \A i \in 0..(Cap - 1) : buffer[i] \in {Newline(0), Blank}
  <2>1. PICK old \in -1..(Cap - 1) : buffer = [i \in 0..(Cap - 1) |-> IF i = old THEN Newline(0) ELSE Blank]
    BY DEF Init
  <2>2. Newline(0) \in Byte /\ Blank \in Byte
    BY DEF Newline, Blank, Byte
  <2>3. \A i \in 0..(Cap - 1) : (IF i = old THEN Newline(0) ELSE Blank) \in Byte
    BY ONLY <2>2
  <2>4. buffer \in [0..(Cap - 1) -> Byte]
    BY ONLY <2>1, <2>3
  <2>5. \A i \in 0..(Cap - 1) : buffer[i] \in {Newline(0), Blank}
    BY ONLY <2>1
  <2> QED
    BY <2>4, <2>5
<1>3. TypeOK
  <2>1. <<>> \in Seq(Lengths) /\ Len(<<>>) = 0
    OBVIOUS
  <2>2. overrun = FALSE /\ crowded = FALSE
    BY DEF Init
  <2> QED
    BY ONLY <2>1, <2>2, <1>1, <1>2, CapAssumption, MaxLinesAssumption DEF TypeOK
<1>4. stream \in Seq(Byte) /\ handled \in Seq(Seq(Byte)) /\ Len(handled) = 0 /\ Len(lines) = 0
  BY <1>1
<1>5. Unread = <<>>
  <2>1. PICK u : u = Unread
    OBVIOUS
  <2>2. u = AsReceived(buffer, 0) \o stream /\ 0 \in 0..Cap
    BY <2>1, <1>1 DEF Unread, Received
  <2>3. Consists(u, buffer, 0, stream)
    BY ONLY <2>2, <1>2, <1>4, UnreadIs
  <2>4. u \in Seq(Byte) /\ Len(u) = 0
    BY <2>3, <1>1, <1>4 DEF Consists
  <2> QED
    BY <2>1, <2>4, LenIs
<1>6. Flow(Unread, lines, Len(handled)) /\ Ends(Unread, lines, Len(handled))
  BY <1>4, <1>5 DEF Flow, Ends
<1>7. OnlyOldNewlines
  BY <1>1, <1>2 DEF OnlyOldNewlines, IsNewline, Blank
<1>8. LinesAreWhole
  BY <1>1, <1>4 DEF LinesAreWhole
<1> QED
  BY <1>1, <1>2, <1>3, <1>4, <1>6, <1>7, <1>8 DEF SocketInv, OverrunNeedsOldNewline

\* Steps that move no byte.
LEMMA NothingMoves ==
  ASSUME SocketInv, UNCHANGED <<lines, stream, client>>, closed => closed',
         closed' \in BOOLEAN, quit' \in BOOLEAN, loop' \in {"wait", "keys", "ended"}
  PROVE  SocketInv'
<1>1. /\ TypeOK' /\ Unread' = Unread
      /\ OnlyOldNewlines' = OnlyOldNewlines /\ LinesAreWhole' = LinesAreWhole
      /\ OverrunNeedsOldNewline' = OverrunNeedsOldNewline
  BY DEF client, SocketInv, TypeOK, Unread, Received, OnlyOldNewlines, LinesAreWhole, Text,
         OverrunNeedsOldNewline
<1> QED
  BY <1>1 DEF SocketInv, client

\* The bytes of a line, and of its beginning.
LEMMA BytesAre ==
  ASSUME NEW n, NEW len, NEW k, NEW s, n \in Nat, len \in Lengths, k \in 1..len,
         s = SubSeq(Bytes(n, len), 1, k)
  PROVE  /\ s \in Seq(Byte) /\ Len(s) = k
         /\ \A i \in 1..k : s[i] = <<n, IF i < len THEN i ELSE 0>>
         /\ k = len => s = Bytes(n, len)
<1>1. len \in Nat /\ len >= 2
  BY LengthIs
<1> DEFINE body == [i \in 1..(len - 1) |-> <<n, i>>]
           b == Bytes(n, len)
<1>2. body \in Seq(Byte) /\ Len(body) = len - 1 /\ \A i \in 1..(len - 1) : body[i] = <<n, i>>
  BY <1>1 DEF Byte
<1>3. b = Append(body, Newline(n)) /\ Newline(n) \in Byte
  BY DEF Bytes, Newline, Byte
<1> HIDE DEF body
<1>4. b \in Seq(Byte) /\ Len(b) = len /\ \A i \in 1..len : b[i] = <<n, IF i < len THEN i ELSE 0>>
  <2>1. /\ Append(body, Newline(n)) \in Seq(Byte)
        /\ Len(Append(body, Newline(n))) = Len(body) + 1
        /\ \A i \in 1..Len(body) : Append(body, Newline(n))[i] = body[i]
        /\ Append(body, Newline(n))[Len(body) + 1] = Newline(n)
    BY ONLY <1>2, <1>3, AppendProperties
  <2> QED
    BY <2>1, <1>1, <1>2, <1>3 DEF Newline
<1> HIDE DEF b
<1>5. /\ s \in Seq(Byte) /\ Len(s) = k /\ \A i \in 1..k : s[i] = b[i]
  <2>1. s = SubSeq(b, 1, k)
    BY DEF b
  <2> QED
    BY <2>1, <1>1, <1>4, SubSeqProperties
<1>6. k = len => s = b
  BY <1>4, <1>5, SeqEqual
<1> QED
  BY <1>1, <1>4, <1>5, <1>6 DEF b

\* The daemon writes k bytes of a line.
LEMMA LineIsWritten ==
  ASSUME SocketInv, NEW len \in Lengths, NEW k \in 1..len, ~closed, Len(lines) < MaxLines,
         lines' = Append(lines, len), stream' = stream \o SubSeq(Bytes(Len(lines) + 1, len), 1, k),
         UNCHANGED <<client, loop, quit>>, closed' = closed \/ (closed' = TRUE /\ k < len),
         k < len => closed'
  PROVE  SocketInv'
<1> DEFINE s == SubSeq(Bytes(Len(lines) + 1, len), 1, k)
<1>1. /\ s \in Seq(Byte) /\ Len(s) = k
      /\ \A i \in 1..k : s[i] = <<Len(lines) + 1, IF i < len THEN i ELSE 0>>
  <2>1. PICK n \in Nat : n = Len(lines) + 1
    BY SocketFacts
  <2>2. PICK t : t = SubSeq(Bytes(n, len), 1, k)
    OBVIOUS
  <2>3. t \in Seq(Byte) /\ Len(t) = k /\ \A i \in 1..k : t[i] = <<n, IF i < len THEN i ELSE 0>>
    <3>1. t \in Seq(Byte)
      BY ONLY <2>2, n \in Nat, len \in Lengths, k \in 1..len, BytesAre
    <3>2. Len(t) = k
      BY ONLY <2>2, n \in Nat, len \in Lengths, k \in 1..len, BytesAre
    <3>3. \A i \in 1..k : t[i] = <<n, IF i < len THEN i ELSE 0>>
      BY ONLY <2>2, n \in Nat, len \in Lengths, k \in 1..len, BytesAre
    <3> QED
      BY <3>1, <3>2, <3>3
  <2> QED
    BY <2>1, <2>2, <2>3
<1>2. stream' = stream \o s
  OBVIOUS
<1> HIDE DEF s
<1>3. stream' \in Seq(Byte)
  BY ZenonT(30), <1>1, <1>2, SocketFacts, ConcatProperties
<1>4. /\ lines' \in Seq(Lengths) /\ Len(lines') = Len(lines) + 1 /\ Len(lines') \in Nat
      /\ \A n \in 1..Len(lines) : lines'[n] = lines[n]
  BY SocketFacts, AppendProperties
<1>5. /\ waiting' = waiting /\ buffer' = buffer /\ handled' = handled
      /\ overrun' = overrun /\ crowded' = crowded
  BY DEF client
<1>6. TypeOK'
  <2>1. closed' \in BOOLEAN
    BY SocketFacts DEF TypeOK
  <2> QED
    BY <2>1, <1>4, <1>5, SocketFacts DEF TypeOK
<1>7. LinesAreWhole'
  <2>1. Len(lines') >= Len(lines)
    BY <1>4, SocketFacts
  <2> QED
    BY <2>1, <1>4, <1>5, WholeStays
<1>8. ASSUME ~overrun PROVE Flow(Unread', lines', Len(handled)) /\ (k = len => Ends(Unread', lines', Len(handled)))
  <2>1. Received \in Seq(Byte)
    <3>1. \A i \in 1..waiting : buffer[i - 1] \in Byte
      BY SocketFacts
    <3>2. waiting \in Nat
      BY <1>8, SocketFacts
    <3> QED
      BY <3>1, <3>2 DEF Received, AsReceived
  <2>2. Received' = Received
    BY <1>5 DEF Received
  <2> DEFINE u == Unread
             v == Unread'
             h == Len(handled)
             ks == Append(lines, len)
  <2>3. v = u \o s
    <3> DEFINE r == Received
    <3>1. r \in Seq(Byte) /\ stream \in Seq(Byte) /\ s \in Seq(Byte)
      BY <2>1, <1>1, SocketFacts
    <3> HIDE DEF r
    <3>2. r \o (stream \o s) = (r \o stream) \o s
      BY ONLY SMTT(20), <3>1, ConcatAssociative
    <3>3. Received \o (stream \o s) = (Received \o stream) \o s
      BY <3>2 DEF r
    <3> QED
      BY <3>3, <2>2, <1>2 DEF Unread
  <2>4. Flow(u, lines, h) /\ Ends(u, lines, h)
    BY <1>8 DEF SocketInv
  <2>5. ks = Append(lines, len) /\ lines \in Seq(Lengths)
    BY SocketFacts
  <2> HIDE DEF u, v, h, ks
  <2>6. Flow(v, ks, h) /\ (k = len => Ends(v, ks, h))
    BY <2>3, <2>4, <2>5, <1>1, FlowGrows
  <2> QED
    BY <2>6 DEF v, ks, h
<1>9. OnlyOldNewlines' = OnlyOldNewlines /\ OverrunNeedsOldNewline' = OverrunNeedsOldNewline
  BY <1>5 DEF OnlyOldNewlines, OverrunNeedsOldNewline
<1>10. ~closed' => k = len
  BY LengthIs
<1> QED
  BY <1>3, <1>5, <1>6, <1>7, <1>8, <1>9, <1>10, SocketFacts DEF SocketInv

LEMMA DaemonWrites ==
  ASSUME SocketInv, NEW len \in Lengths, Write(len) \/ \E taken \in 1..Cap : ShortWrite(len, taken)
  PROVE  SocketInv'
<1>1. len \in Nat /\ len >= 2 /\ Len(lines) + 1 \in Nat
  BY LengthIs, SocketFacts
<1>2. CASE Write(len)
  <2>1. len \in 1..len
    BY <1>1
  <2> DEFINE n == Len(lines) + 1
             s == SubSeq(Bytes(n, len), 1, len)
  <2>2. n \in Nat /\ s = SubSeq(Bytes(n, len), 1, len)
    BY <1>1
  <2>3. s = Bytes(n, len)
    <3> HIDE DEF n, s
    <3> QED BY <2>1, <2>2, BytesAre
  <2>4. /\ stream' = stream \o SubSeq(Bytes(Len(lines) + 1, len), 1, len)
        /\ ~closed /\ closed' = closed /\ Len(lines) < MaxLines
        /\ lines' = Append(lines, len) /\ UNCHANGED <<client, loop, quit>>
    BY <1>2, <2>3 DEF Write
  <2>5. ~(len < len)
    BY <1>1
  <2> HIDE DEF n, s
  <2> QED
    BY <2>1, <2>4, <2>5, LineIsWritten
<1>3. CASE \E taken \in 1..Cap : ShortWrite(len, taken)
  <2>1. PICK taken \in 1..Cap : ShortWrite(len, taken)
    BY <1>3
  <2>2. taken \in 1..len /\ taken < len
    BY <2>1, <1>1 DEF ShortWrite
  <2> QED
    BY <2>1, <2>2, LineIsWritten DEF ShortWrite
<1> QED
  BY <1>2, <1>3

-----------------------------------------------------------------------------
(* A line is taken from bytes of which n were received, s being still to come. *)

\* The buffer and the stream before a line is taken from them.
Holds(bytes, n, s) ==
  /\ bytes \in [0..(Cap - 1) -> Byte] /\ n \in 0..Cap /\ s \in Seq(Byte)
  /\ Flow(AsReceived(bytes, n) \o s, lines, Len(handled))
  /\ ~closed => Ends(AsReceived(bytes, n) \o s, lines, Len(handled))
  /\ ~crowded => \A i \in n..(Cap - 1) : IsNewline(bytes[i]) => bytes[i] = Newline(0)

\* The line is appended to what was unpacked before.
LEMMA LineIsHandled ==
  ASSUME SocketInv, NEW bytes, NEW e, bytes \in [0..(Cap - 1) -> Byte], e \in 0..(Cap - 1),
         handled' = Append(handled, [i \in 1..e |-> bytes[i - 1]])
  PROVE  /\ handled' \in Seq(Seq(Byte)) /\ Len(handled') = Len(handled) + 1
         /\ \A n \in 1..Len(handled) : handled'[n] = handled[n]
         /\ handled'[Len(handled) + 1] = [i \in 1..e |-> bytes[i - 1]]
<1> DEFINE text == [i \in 1..e |-> bytes[i - 1]]
<1>1. text \in Seq(Byte)
  <2>1. \A i \in 1..e : bytes[i - 1] \in Byte
    OBVIOUS
  <2> QED
    BY <2>1
<1>2. handled' = Append(handled, text) /\ handled \in Seq(Seq(Byte))
  BY SocketFacts
<1> HIDE DEF text
<1>3. handled' \in Seq(Seq(Byte)) /\ Len(handled') = Len(handled) + 1
  BY <1>1, <1>2, AppendProperties
<1>4. \A n \in 1..Len(handled) : handled'[n] = handled[n]
  BY <1>1, <1>2, AppendProperties
<1>5. handled'[Len(handled) + 1] = text
  BY <1>1, <1>2, AppendProperties
<1> QED
  BY <1>3, <1>4, <1>5 DEF text

\* A newline among the bytes received ends the line there.
LEMMA LineIsTaken ==
  ASSUME SocketInv, ~overrun, NEW bytes, NEW n, NEW s, NEW e,
         Holds(bytes, n, s), e \in 0..(n - 1), e < Cap, IsNewline(bytes[e]),
         \A i \in 0..(e - 1) : ~IsNewline(bytes[i]),
         Take(bytes, n, e), stream' = s, UNCHANGED <<lines, cut, closed, quit>>,
         loop' \in {"wait", "keys", "ended"}
  PROVE  SocketInv'
<1> DEFINE m == e + 1
           u == AsReceived(bytes, n) \o s
           v == SubSeq(u, m + 1, Len(u))
           h == Len(handled)
<1>1. /\ bytes \in [0..(Cap - 1) -> Byte] /\ n \in 0..Cap /\ s \in Seq(Byte)
      /\ Flow(u, lines, h) /\ (~closed => Ends(u, lines, h))
      /\ (~crowded => \A i \in n..(Cap - 1) : IsNewline(bytes[i]) => bytes[i] = Newline(0))
  BY DEF Holds
<1>2. /\ u \in Seq(Byte) /\ Len(u) = n + Len(s) /\ Len(s) \in Nat
      /\ \A i \in 1..(n + Len(s)) : u[i] = IF i <= n THEN bytes[i - 1] ELSE s[i - n]
  <2>1. u = AsReceived(bytes, n) \o s
    OBVIOUS
  <2> HIDE DEF u
  <2>2. Consists(u, bytes, n, s)
    BY <2>1, <1>1, UnreadIs
  <2> QED
    BY <2>2, <1>1, LenIs DEF Consists
<1>3. /\ handled' = Append(handled, [i \in 1..e |-> bytes[i - 1]])
      /\ waiting' = n - m /\ overrun' = FALSE
      /\ buffer' = Moved(Ended(bytes, e), n, m)
      /\ crowded' = (crowded \/ \E i \in (e + 1)..(n - 1) : IsNewline(bytes[i]))
  <2>1. ~(n < m) /\ (n < m) = FALSE
    BY <1>1
  <2> QED
    BY <2>1, <1>1 DEF Take
<1> HIDE DEF u
<1>4. /\ m \in Nat /\ m >= 1 /\ m <= n /\ m \in 1..Len(u) /\ h \in Nat
  BY <1>1, <1>2, SocketFacts
<1>5. u[m][2] = 0 /\ \A i \in 1..(m - 1) : u[i][2] # 0
  <2>1. u[m] = bytes[e]
    BY <1>1, <1>2, <1>4
  <2>2. ASSUME NEW i \in 1..(m - 1) PROVE u[i][2] # 0
    <3>1. i <= n /\ i \in 1..(n + Len(s)) /\ i - 1 \in 0..(e - 1)
      BY <1>1, <1>2, <1>4
    <3> QED
      BY <3>1, <1>2 DEF IsNewline
  <2> QED
    BY <2>1, <2>2 DEF IsNewline
<1>6. lines \in Seq(Lengths)
  BY SocketFacts
<1> HIDE DEF v, m, h
<1>7. v = SubSeq(u, m + 1, Len(u))
  BY DEF v
<1>8. /\ \A i \in 1..(m - 1) : u[i] = <<h + 1, i>>
      /\ h + 1 \in 1..Len(lines) /\ m = lines[h + 1]
      /\ Flow(v, lines, h + 1)
      /\ Ends(u, lines, h) => Ends(v, lines, h + 1)
  <2>1. m \in 1..Len(u)
    BY <1>4
  <2>2. \A i \in 1..(m - 1) : u[i] = <<h + 1, i>>
    BY ONLY <2>1, <1>1, <1>5, <1>6, LineEnds
  <2>3. h + 1 \in 1..Len(lines)
    BY ONLY <2>1, <1>1, <1>5, <1>6, LineEnds
  <2>4. m = lines[h + 1]
    BY ONLY SMTT(60), <2>1, <1>1, <1>5, <1>6, LineEnds
  <2>5. Flow(v, lines, h + 1)
    BY ONLY <2>1, <1>1, <1>5, <1>6, <1>7, FlowIsTaken
  <2>6. Ends(u, lines, h) => Ends(v, lines, h + 1)
    BY ONLY <2>1, <1>1, <1>5, <1>6, <1>7, FlowIsTaken
  <2> QED
    BY <2>2, <2>3, <2>4, <2>5, <2>6
<1>9. /\ buffer' \in [0..(Cap - 1) -> Byte]
      /\ \A i \in 0..(Cap - 1) : i < n - m => buffer'[i] = bytes[i + m]
      /\ \A i \in 0..(Cap - 1) : i >= n - m => buffer'[i] = IF i = e THEN Nul ELSE bytes[i]
  <2> DEFINE x == Ended(bytes, e)
  <2>1. /\ x \in [0..(Cap - 1) -> Byte]
        /\ \A i \in 0..(Cap - 1) : x[i] = IF i = e THEN Nul ELSE bytes[i]
    <3>1. Nul \in Byte
      BY DEF Nul, Byte
    <3> QED
      BY <3>1, <1>1 DEF Ended
  <2>2. buffer' = [i \in 0..(Cap - 1) |-> IF i < n - m THEN x[i + m] ELSE x[i]]
    BY <1>3 DEF Moved, m
  <2> HIDE DEF x
  <2>3. \A i \in 0..(Cap - 1) : i < n - m => i + m \in 0..(Cap - 1) /\ i + m # e
    BY <1>1, <1>4 DEF m
  <2>4. \A i \in 0..(Cap - 1) : (IF i < n - m THEN x[i + m] ELSE x[i]) \in Byte
    BY <2>1, <2>3
  <2>5. buffer' \in [0..(Cap - 1) -> Byte]
    BY <2>2, <2>4
  <2>6. \A i \in 0..(Cap - 1) : i < n - m => buffer'[i] = bytes[i + m]
    BY <2>1, <2>2, <2>3
  <2>7. \A i \in 0..(Cap - 1) : i >= n - m => buffer'[i] = IF i = e THEN Nul ELSE bytes[i]
    BY <2>1, <2>2, <1>1, <1>4
  <2> QED
    BY <2>5, <2>6, <2>7
<1>10. waiting' = n - m /\ n - m \in 0..Cap /\ e \in Int
  BY <1>1, <1>3, <1>4 DEF m
<1>11. Unread' = v
  <2>10. PICK b : b = buffer'
    OBVIOUS
  <2>11. PICK k : k = n - m
    OBVIOUS
  <2>12. PICK w : w = Unread'
    OBVIOUS
  <2>1. w = AsReceived(b, k) \o s
    BY <2>10, <2>11, <2>12, <1>10 DEF Unread, Received
  <2>2. b \in [0..(Cap - 1) -> Byte] /\ k \in 0..Cap
    BY <2>10, <2>11, <1>9, <1>10
  <2>3. Consists(w, b, k, s)
    BY ONLY <2>1, <2>2, <1>1, UnreadIs
  <2>4. w \in Seq(Byte) /\ Len(w) = k + Len(s)
    BY <2>3 DEF Consists
  <2>5. \A i \in 1..(k + Len(s)) : w[i] = IF i <= k THEN b[i - 1] ELSE s[i - k]
    BY <2>3 DEF Consists
  <2>13. k + Len(s) = Len(u) - m
    BY <1>1, <1>2, <1>4, <2>11
  <2>14. Len(v) = Len(u) - m
    BY ONLY <1>2, <1>4, <1>7, RestIs
  <2>6. v \in Seq(Byte) /\ Len(v) = k + Len(s)
    BY <2>13, <2>14, <1>8 DEF Flow
  <2>15. \A i \in 1..(Len(u) - m) : v[i] = u[i + m]
    BY ONLY <1>2, <1>4, <1>7, RestIs
  <2>7. \A i \in 1..(k + Len(s)) : v[i] = u[i + m]
    BY <2>13, <2>15
  <2>8. ASSUME NEW i \in 1..(k + Len(s)) PROVE w[i] = v[i]
    <3>1. CASE i <= k
      <4>1. i - 1 \in 0..(Cap - 1) /\ i - 1 < n - m /\ (i - 1) + m = (i + m) - 1
            /\ i + m <= n /\ i + m \in 1..(n + Len(s))
        BY <3>1, <1>1, <1>2, <1>4, <2>11
      <4>2. b[i - 1] = bytes[(i + m) - 1]
        BY <4>1, <1>9, <2>10
      <4> QED
        BY <4>1, <4>2, <3>1, <2>5, <2>7, <1>2
    <3>2. CASE ~(i <= k)
      <4>1. i + m \in 1..(n + Len(s)) /\ ~(i + m <= n) /\ (i + m) - n = i - k
        BY <3>2, <1>1, <1>2, <1>4, <2>11
      <4> QED
        BY <4>1, <3>2, <2>5, <2>7, <1>2
    <3> QED
      BY <3>1, <3>2
  <2>9. w = v
    BY <2>4, <2>6, <2>8, SeqEqual
  <2> QED
    BY <2>9, <2>12
<1>12. /\ handled' \in Seq(Seq(Byte)) /\ Len(handled') = h + 1
       /\ \A i \in 1..h : handled'[i] = handled[i]
       /\ handled'[h + 1] = [i \in 1..e |-> bytes[i - 1]]
  <2>1. e \in 0..(Cap - 1)
    BY <1>1
  <2> QED
    BY <2>1, <1>1, <1>3, LineIsHandled DEF h
<1>13. handled'[h + 1] = Text(h + 1)
  <2>1. e = lines[h + 1] - 1 /\ e = m - 1
    BY <1>8, <1>10 DEF m
  <2>2. ASSUME NEW i \in 1..e PROVE bytes[i - 1] = <<h + 1, i>>
    <3>1. i \in 1..(m - 1) /\ i <= n /\ i \in 1..(n + Len(s))
      BY <2>1, <1>1, <1>2, <1>4
    <3> QED
      BY <3>1, <1>2, <1>8
  <2> QED
    BY <2>1, <2>2, <1>12 DEF Text
<1>14. LinesAreWhole'
  <2>1. ~overrun' /\ lines' = lines
    BY <1>3
  <2>2. \A i \in 1..h : handled[i] = Text(i)
    BY DEF SocketInv, LinesAreWhole, h
  <2>3. ASSUME NEW i \in 1..(h + 1) PROVE handled'[i] = Text(i)
    <3>1. i \in 1..h \/ i = h + 1
      BY <1>4
    <3> QED
      BY <3>1, <2>2, <1>12, <1>13
  <2>4. h + 1 <= Len(lines)
    BY <1>8
  <2> QED
    BY <2>1, <2>3, <2>4, <1>12 DEF LinesAreWhole, Text
<1>15. ASSUME ~crowded' PROVE OnlyOldNewlines'
  <2>1. ~crowded /\ \A i \in (e + 1)..(n - 1) : ~IsNewline(bytes[i])
    BY <1>3, <1>15
  <2>2. ASSUME NEW i \in (n - m)..(Cap - 1), IsNewline(buffer'[i]) PROVE buffer'[i] = Newline(0)
    <3>1. i \in 0..(Cap - 1) /\ i >= n - m
      BY <1>10
    <3>2. buffer'[i] = IF i = e THEN Nul ELSE bytes[i]
      BY <3>1, <1>9
    <3>3. i # e
      BY <3>2, <2>2 DEF IsNewline, Nul
    <3>4. i \notin 0..(e - 1) /\ i \notin (e + 1)..(n - 1)
      BY <3>2, <3>3, <2>1, <2>2
    <3>5. i \in n..(Cap - 1)
      BY <3>1, <3>3, <3>4, <1>1, <1>10
    <3> QED
      BY <3>2, <3>3, <3>5, <2>1, <2>2, <1>1
  <2> QED
    BY <2>2, <1>10 DEF OnlyOldNewlines
<1>16. TypeOK'
  <2>1. DOMAIN buffer' = 0..(Cap - 1)
    BY <1>9
  <2>2. crowded' \in BOOLEAN
    BY <1>3, SocketFacts DEF TypeOK
  <2>3. waiting' \in -1..Cap /\ waiting' # -1
    BY <1>10
  <2> QED
    BY <2>1, <2>2, <2>3, <1>3, SocketFacts DEF TypeOK
<1>17. Flow(Unread', lines, h + 1) /\ (~closed => Ends(Unread', lines, h + 1))
  BY <1>1, <1>8, <1>11
<1>18. stream' \in Seq(Byte) /\ OverrunNeedsOldNewline'
  BY <1>1, <1>3 DEF OverrunNeedsOldNewline
<1> QED
  BY <1>9, <1>12, <1>14, <1>15, <1>16, <1>17, <1>18 DEF SocketInv

\* A newline just behind the bytes received overruns the buffer.
LEMMA BufferIsOverrun ==
  ASSUME SocketInv, ~overrun, NEW bytes, NEW n, NEW s, NEW e,
         Holds(bytes, n, s), e = n, e < Cap, IsNewline(bytes[e]),
         Take(bytes, n, e), stream' = s, UNCHANGED <<lines, cut, closed, quit>>,
         loop' \in {"wait", "keys", "ended"}
  PROVE  SocketInv'
<1>1. /\ bytes \in [0..(Cap - 1) -> Byte] /\ n \in 0..Cap /\ s \in Seq(Byte)
      /\ (~crowded => \A i \in n..(Cap - 1) : IsNewline(bytes[i]) => bytes[i] = Newline(0))
  BY DEF Holds
<1>2. n < e + 1 /\ n - (e + 1) = -1
  BY <1>1
<1>3. /\ handled' = Append(handled, [i \in 1..e |-> bytes[i - 1]])
      /\ waiting' = -1 /\ overrun' = TRUE /\ buffer' = bytes
      /\ crowded' = (crowded \/ \E i \in (e + 1)..(n - 1) : IsNewline(bytes[i]))
  BY <1>2 DEF Take
<1>4. /\ handled' \in Seq(Seq(Byte)) /\ Len(handled') = Len(handled) + 1
      /\ \A i \in 1..Len(handled) : handled'[i] = handled[i]
  <2>1. e \in 0..(Cap - 1)
    BY <1>1
  <2> QED
    BY <2>1, <1>1, <1>3, LineIsHandled
<1>5. LinesAreWhole'
  <2>1. Len(handled) <= Len(lines) /\ \A i \in 1..Len(handled) : handled[i] = Text(i)
    BY DEF SocketInv, LinesAreWhole
  <2>2. Len(handled') - 1 = Len(handled)
    BY <1>4, SocketFacts
  <2> QED
    BY <2>1, <2>2, <1>3, <1>4 DEF LinesAreWhole, Text
<1>6. OverrunNeedsOldNewline'
  <2>1. n \in n..(Cap - 1) /\ n \in 0..(Cap - 1)
    BY <1>1
  <2> QED
    BY <2>1, <1>1, <1>3 DEF OverrunNeedsOldNewline
<1>7. TypeOK'
  <2>1. crowded' \in BOOLEAN
    BY <1>3, SocketFacts DEF TypeOK
  <2> QED
    BY <2>1, <1>1, <1>3, SocketFacts DEF TypeOK
<1> QED
  BY <1>1, <1>3, <1>4, <1>5, <1>6, <1>7 DEF SocketInv

\* gps_sock_read() takes the line that ends at the first newline.
LEMMA ReadTakes ==
  ASSUME SocketInv, ~overrun, NEW bytes, NEW n, NEW s, Holds(bytes, n, s),
         Eol(bytes, n) # -1, Take(bytes, n, Eol(bytes, n)), stream' = s,
         UNCHANGED <<lines, cut, closed, quit>>, loop' \in {"wait", "keys", "ended"}
  PROVE  SocketInv'
<1>1. PICK e : e = Eol(bytes, n)
  OBVIOUS
<1>2. bytes \in [0..(Cap - 1) -> Byte] /\ n \in 0..Cap
  BY DEF Holds
<1>3. /\ e \in 0..n /\ e < Cap /\ IsNewline(bytes[e])
      /\ \A i \in 0..(e - 1) : ~IsNewline(bytes[i])
  BY <1>1, <1>2, EolFinds
<1>4. Take(bytes, n, e)
  BY <1>1
<1>5. CASE e = n
  BY <1>3, <1>4, <1>5, BufferIsOverrun
<1>6. CASE e # n
  <2>1. e \in 0..(n - 1)
    BY <1>2, <1>3, <1>6
  <2> QED
    BY <2>1, <1>3, <1>4, LineIsTaken
<1> QED
  BY <1>5, <1>6

LEMMA BufferHolds ==
  ASSUME SocketInv, ~overrun
  PROVE  Holds(buffer, waiting, stream)
<1>1. Unread = AsReceived(buffer, waiting) \o stream
  BY DEF Unread, Received
<1>2. waiting \in 0..Cap
  BY SocketFacts
<1> QED
  BY <1>1, <1>2, SocketFacts DEF SocketInv, Holds, OnlyOldNewlines

LEMMA BufferedIsRead ==
  ASSUME SocketInv, ReadBuffered
  PROVE  SocketInv'
<1>1. /\ ~overrun /\ Eol(buffer, waiting) # -1 /\ Take(buffer, waiting, Eol(buffer, waiting))
      /\ stream' = stream /\ UNCHANGED <<lines, cut, closed, quit>> /\ loop' \in {"wait", "keys", "ended"}
  BY DEF ReadBuffered, daemon
<1> QED
  BY <1>1, BufferHolds, ReadTakes

SameBytes(b, n, s, c, m, t) == AsReceived(c, m) \o t = AsReceived(b, n) \o s

\* recv() puts bytes into the buffer that were on their way.
LEMMA BytesAreReceived ==
  ASSUME NEW b, NEW s, NEW n, NEW k, b \in [0..(Cap - 1) -> Byte], s \in Seq(Byte), n \in Nat,
         k \in 1..Len(s), NEW m, m = n + k, m <= Cap,
         NEW c, c = [i \in 0..(Cap - 1) |-> IF i \in n..(m - 1) THEN s[i - n + 1] ELSE b[i]],
         NEW t, t = SubSeq(s, k + 1, Len(s))
  PROVE  /\ c \in [0..(Cap - 1) -> Byte] /\ t \in Seq(Byte)
         /\ SameBytes(b, n, s, c, m, t)
<1>1. Len(s) \in Nat /\ k \in Nat /\ k >= 1 /\ k <= Len(s)
  BY LenIs
<1>2. /\ c \in [0..(Cap - 1) -> Byte]
      /\ \A i \in 0..(Cap - 1) : c[i] = IF i \in n..(m - 1) THEN s[i - n + 1] ELSE b[i]
  <2>1. ASSUME NEW i \in 0..(Cap - 1)
        PROVE  (IF i \in n..(m - 1) THEN s[i - n + 1] ELSE b[i]) \in Byte
    <3>1. CASE i \in n..(m - 1)
      <4>1. i - n + 1 \in 1..Len(s)
        BY <3>1, <1>1
      <4> QED
        BY <3>1, <4>1, ElementOfSeq
    <3>2. CASE i \notin n..(m - 1)
      BY <3>2
    <3> QED
      BY <3>1, <3>2
  <2> QED
    BY <2>1
<1>3. t \in Seq(Byte)
  BY ONLY <1>1, s \in Seq(Byte), t = SubSeq(s, k + 1, Len(s)), RestIs
<1>4. Len(t) = Len(s) - k
  BY ONLY <1>1, s \in Seq(Byte), t = SubSeq(s, k + 1, Len(s)), RestIs
<1>5. \A i \in 1..(Len(s) - k) : t[i] = s[i + k]
  BY ONLY <1>1, s \in Seq(Byte), t = SubSeq(s, k + 1, Len(s)), RestIs
<1>6. PICK u : u = AsReceived(b, n) \o s
  OBVIOUS
<1>7. PICK v : v = AsReceived(c, m) \o t
  OBVIOUS
<1>8. m \in 0..Cap /\ m = n + k
  BY <1>1
<1>9. n \in 0..Cap
  BY <1>1
<1>10. u = AsReceived(b, n) \o s
  BY <1>6
<1>11. v = AsReceived(c, m) \o t
  BY <1>7
<1>12. Consists(u, b, n, s)
  BY ONLY <1>9, <1>10, b \in [0..(Cap - 1) -> Byte], s \in Seq(Byte), UnreadIs
<1>13. Consists(v, c, m, t)
  <2>1. c \in [0..(Cap - 1) -> Byte] /\ m \in 0..Cap
    BY <1>2, <1>8
  <2> QED
    BY ONLY <2>1, <1>3, <1>11, UnreadIs
<1>14. \A i \in 1..(n + Len(s)) : u[i] = IF i <= n THEN b[i - 1] ELSE s[i - n]
  BY <1>12 DEF Consists
<1>15. \A i \in 1..(m + Len(t)) : v[i] = IF i <= m THEN c[i - 1] ELSE t[i - m]
  BY <1>13 DEF Consists
<1>16. u \in Seq(Byte) /\ Len(u) = n + Len(s)
  BY <1>12 DEF Consists
<1>17. v \in Seq(Byte) /\ Len(v) = m + Len(t)
  BY <1>13 DEF Consists
<1>18. m + Len(t) = n + Len(s)
  <2>1. m = n + k /\ n \in Nat
    OBVIOUS
  <2> QED
    BY ONLY <2>1, <1>1, <1>4
<1>19. ASSUME NEW i \in 1..(n + Len(s)) PROVE v[i] = u[i]
  <2>1. v[i] = IF i <= m THEN c[i - 1] ELSE t[i - m]
    BY <1>15, <1>18
  <2>2. u[i] = IF i <= n THEN b[i - 1] ELSE s[i - n]
    BY <1>14
  <2>3. CASE i <= n
    <3>1. i <= m /\ i - 1 \in 0..(Cap - 1) /\ i - 1 \notin n..(m - 1)
      BY <2>3, <1>1, <1>8
    <3> QED
      BY <3>1, <2>1, <2>2, <2>3, <1>2
  <2>4. CASE ~(i <= n) /\ i <= m
    <3>1. i - 1 \in 0..(Cap - 1) /\ i - 1 \in n..(m - 1) /\ (i - 1) - n + 1 = i - n
      BY <2>4, <1>1, <1>8
    <3> QED
      BY <3>1, <2>1, <2>2, <2>4, <1>2
  <2>5. CASE ~(i <= m)
    <3>1. i - m \in 1..(Len(s) - k) /\ (i - m) + k = i - n /\ ~(i <= n)
      BY <2>5, <1>1, <1>8
    <3> QED
      BY <3>1, <2>1, <2>2, <2>5, <1>5
  <2> QED
    BY <2>3, <2>4, <2>5
<1>20. v = u
  BY ONLY <1>16, <1>17, <1>18, <1>19, SeqEqual
<1> QED
  BY <1>2, <1>3, <1>6, <1>7, <1>20 DEF SameBytes

LEMMA SocketIsReceived ==
  ASSUME SocketInv, NEW count, ReadSocket(count)
  PROVE  SocketInv'
<1>1. PICK n : n = waiting + count
  OBVIOUS
<1>2. PICK bytes : bytes = [i \in 0..(Cap - 1) |-> 
                                    IF i \in waiting..(n - 1) THEN stream[i - waiting + 1] ELSE buffer[i]]
  OBVIOUS
<1>3. PICK s : s = SubSeq(stream, count + 1, Len(stream))
  OBVIOUS
<1>4. /\ ~overrun /\ count \in 1..Len(stream) /\ count <= Cap - waiting /\ stream' = s
      /\ UNCHANGED <<lines, cut, closed, quit>> /\ loop' \in {"wait", "keys", "ended"}
  BY <1>3 DEF ReadSocket
<1>15. IF Eol(bytes, n) = -1
       THEN buffer' = bytes /\ waiting' = n /\ UNCHANGED <<handled, overrun, crowded>>
       ELSE Take(bytes, n, Eol(bytes, n))
  <2> DEFINE N == waiting + count
             B == [i \in 0..(Cap - 1) |-> IF i \in waiting..(N - 1) THEN stream[i - waiting + 1] ELSE buffer[i]]
  <2>1. IF Eol(B, N) = -1
        THEN buffer' = B /\ waiting' = N /\ UNCHANGED <<handled, overrun, crowded>>
        ELSE Take(B, N, Eol(B, N))
    BY DEF ReadSocket
  <2>2. N = n
    BY <1>1
  <2>3. B = bytes
    <3> HIDE DEF N
    <3> QED BY <2>2, <1>2
  <2> HIDE DEF N, B
  <2> QED
    BY <2>1, <2>2, <2>3
<1>5. waiting \in Nat /\ waiting <= Cap /\ Len(stream) \in Nat /\ n \in 0..Cap /\ n > waiting
  <2>1. waiting \in 0..Cap /\ Len(stream) \in Nat
    BY <1>4, SocketFacts, LenIs
  <2> QED
    BY <2>1, <1>1, <1>4
<1>6. buffer \in [0..(Cap - 1) -> Byte] /\ stream \in Seq(Byte)
  BY SocketFacts
<1>7. n = waiting + count /\ n <= Cap
  BY <1>1, <1>5
<1>8. bytes \in [0..(Cap - 1) -> Byte]
  BY ONLY <1>2, <1>3, <1>4, <1>5, <1>6, <1>7, BytesAreReceived
<1>9. s \in Seq(Byte)
  BY ONLY <1>2, <1>3, <1>4, <1>5, <1>6, <1>7, BytesAreReceived
<1>10. AsReceived(bytes, n) \o s = AsReceived(buffer, waiting) \o stream
  <2>1. SameBytes(buffer, waiting, stream, bytes, n, s)
    BY ONLY <1>2, <1>3, <1>4, <1>5, <1>6, <1>7, BytesAreReceived
  <2> QED
    BY <2>1 DEF SameBytes
<1>11. \A i \in n..(Cap - 1) : bytes[i] = buffer[i]
  BY <1>1, <1>2, <1>4, <1>5
<1>12. Holds(bytes, n, s)
  <2>1. Holds(buffer, waiting, stream)
    BY <1>4, BufferHolds
  <2>2. \A i \in n..(Cap - 1) : i \in waiting..(Cap - 1)
    BY <1>5
  <2> QED
    BY <2>1, <2>2, <1>5, <1>8, <1>9, <1>10, <1>11 DEF Holds
<1>13. CASE Eol(bytes, n) # -1
  BY <1>4, <1>15, <1>12, <1>13, ReadTakes
<1>14. CASE Eol(bytes, n) = -1
  <2>1. buffer' = bytes /\ waiting' = n /\ UNCHANGED <<handled, overrun, crowded>>
    BY <1>15, <1>14
  <2>2. Unread' = AsReceived(bytes, n) \o s
    BY <2>1, <1>4 DEF Unread, Received
  <2>3. TypeOK'
    <3>1. n \in -1..Cap /\ n # -1 /\ DOMAIN bytes = 0..(Cap - 1)
      BY <1>2, <1>5
    <3> QED
      BY <3>1, <2>1, <1>4, SocketFacts DEF TypeOK
  <2>4. LinesAreWhole'
    BY <2>1, <1>4 DEF SocketInv, LinesAreWhole, Text
  <2>5. ~crowded => OnlyOldNewlines'
    BY <2>1, <1>12 DEF Holds, OnlyOldNewlines
  <2>6. /\ Flow(Unread', lines, Len(handled))
        /\ ~closed => Ends(Unread', lines, Len(handled))
    BY <2>2, <1>12 DEF Holds
  <2> QED
    BY <2>1, <2>3, <2>4, <2>5, <2>6, <1>4, <1>8, <1>9, SocketFacts DEF SocketInv, OverrunNeedsOldNewline
<1> QED
  BY <1>13, <1>14

LEMMA SocketStep ==
  ASSUME SocketInv, [Next]_vars
  PROVE  SocketInv'
<1>1. CASE \E len \in Lengths : Write(len) \/ \E taken \in 1..Cap : ShortWrite(len, taken)
  BY <1>1, DaemonWrites
<1>2. CASE Detach \/ Type \/ Keys \/ ReadClosed
  <2>1. UNCHANGED <<lines, stream, client>>
    BY <1>2 DEF Detach, Type, Keys, ReadClosed, daemon
  <2>2. closed => closed'
    BY <1>2 DEF Detach, Type, Keys, ReadClosed, daemon
  <2>3. closed' \in BOOLEAN /\ quit' \in BOOLEAN
    BY <1>2, SocketFacts DEF Detach, Type, Keys, ReadClosed, daemon, TypeOK
  <2>4. loop' \in {"wait", "keys", "ended"}
    BY <1>2, SocketFacts DEF Detach, Type, Keys, ReadClosed, daemon, TypeOK
  <2> QED
    BY <2>1, <2>2, <2>3, <2>4, NothingMoves
<1>3. CASE ReadBuffered \/ \E count \in 1..Cap : ReadSocket(count)
  BY <1>3, BufferedIsRead, SocketIsReceived
<1>4. CASE UNCHANGED vars
  BY <1>4, SocketFacts, NothingMoves DEF vars, daemon, TypeOK
<1> QED
  BY <1>1, <1>2, <1>3, <1>4 DEF Next, Read

LEMMA SocketAlways == Spec => []SocketInv
<1>1. Init => SocketInv
  BY InitSocket
<1>2. SocketInv /\ [Next]_vars => SocketInv'
  BY SocketStep
<1> QED
  BY <1>1, <1>2, PTL DEF Spec

-----------------------------------------------------------------------------
(* The properties. *)

\* A buffer without a newline holds the beginning of one line, which is shorter than it.
LEMMA RoomIsLeft ==
  ASSUME SocketInv
  PROVE  NeverFull
<1> SUFFICES ASSUME Eol(buffer, waiting) = -1, ~(waiting < Cap) PROVE FALSE
  BY DEF NeverFull
<1>1. waiting = Cap /\ ~overrun /\ buffer \in [0..(Cap - 1) -> Byte] /\ stream \in Seq(Byte)
  BY SocketFacts
<1>2. PICK u : u = Unread
  OBVIOUS
<1>3. u = AsReceived(buffer, Cap) \o stream /\ Cap \in 0..Cap
  BY <1>1, <1>2 DEF Unread, Received
<1>17. Consists(u, buffer, Cap, stream)
  BY ONLY <1>1, <1>3, UnreadIs
<1>4. Len(u) = Cap + Len(stream)
  BY <1>17 DEF Consists
<1>5. \A i \in 1..(Cap + Len(stream)) : u[i] = IF i <= Cap THEN buffer[i - 1] ELSE stream[i - Cap]
  BY <1>17 DEF Consists
<1>6. Len(stream) \in Nat
  BY <1>1, LenIs
<1>7. \A i \in 0..(Cap - 1) : ~IsNewline(buffer[i])
  <2>1. \A i \in 0..Cap : i < Cap => ~IsNewline(buffer[i])
    BY <1>1, <1>3, EolFinds
  <2> QED
    BY <2>1
<1>8. \A i \in 1..Cap : u[i][2] # 0
  <2>1. \A i \in 1..Cap : i - 1 \in 0..(Cap - 1) /\ i \in 1..(Cap + Len(stream))
    BY <1>6
  <2> QED
    BY <2>1, <1>5, <1>7 DEF IsNewline
<1>9. Cap \in Nat /\ Cap <= Len(u)
  BY <1>4, <1>6
<1>10. PICK h : h = Len(handled)
  OBVIOUS
<1>11. Flow(u, lines, h) /\ lines \in Seq(Lengths)
  BY <1>1, <1>2, <1>10, SocketFacts DEF SocketInv
<1>12. \A i \in 1..Cap : u[i] = <<h + 1, i>> /\ i < lines[h + 1] /\ h < Len(lines)
  BY ONLY <1>8, <1>9, <1>11, FirstLine
<1>13. Cap \in 1..Cap
  OBVIOUS
<1>14. Cap < lines[h + 1] /\ h < Len(lines)
  BY <1>12, <1>13
<1>15. h + 1 \in 1..Len(lines)
  BY <1>10, <1>14, SocketFacts
<1>16. lines[h + 1] \in Lengths
  BY <1>15, SocketFacts
<1> QED
  BY <1>14, <1>16, LengthIs

\* The receive buffer of libgps and its count stay together however the socket cuts the
\* lines: recv() always has room for a byte, and the count falls below zero only over an
\* old newline (gps_sock_read(), libgps_sock.c).
THEOREM BufferKept == Spec => []BufferIsKept
<1>1. SocketInv => BufferIsKept
  BY RoomIsLeft DEF SocketInv, BufferIsKept
<1> QED
  BY <1>1, SocketAlways, PTL

\* gps_unpack() is given every line of the daemon whole, once and in the order in which
\* gpsd wrote them, up to the moment the buffer is overrun (gps_sock_read()).
THEOREM LinesWhole == Spec => []LinesAreWhole
<1>1. SocketInv => LinesAreWhole
  BY DEF SocketInv
<1> QED
  BY <1>1, SocketAlways, PTL

-----------------------------------------------------------------------------
(* The flags of the reports. *)

\* What is read of a line leaves the line, the session and the last report of a type.
LEMMA TakenIs ==
    ASSUME NEW m, Reports!Taken(m)
    PROVE  /\ line' \in {Reports!Nothing, Reports!Rest} /\ session' = session
           /\ last'.class = m.class /\ last'.read = Reports!ReadOK(m) /\ last'.read \in BOOLEAN
           /\ last'.wrong # {} => last'.read
<1>1. Reports!ReadOK(m) \in BOOLEAN
    BY DEF Reports!ReadOK
<1>2. line' \in {Reports!Nothing, Reports!Rest} /\ session' = session
    BY DEF Reports!Taken
<1>3. last' = [class |-> m.class, kind |-> m.kind, read |-> Reports!ReadOK(m),
               wrong |-> IF Reports!ReadOK(m) THEN Reports!Wrong(m, line.stale) ELSE {}]
    BY DEF Reports!Taken
<1> QED BY <1>1, <1>2, <1>3

LEMMA ReportsInit == Reports!Init => FlagsAreRight
BY DEF Reports!Init, FlagsAreRight, Reports!FlagsAreRight, Reports!TypeOK, Reports!NoPacket,
       Reports!FlagTellsContents, Reports!FlagIsOfTheLine

LEMMA ReportsStep == FlagsAreRight /\ [Reports!Next]_reportVars => FlagsAreRight'
<1> SUFFICES ASSUME FlagsAreRight, [Reports!Next]_reportVars PROVE FlagsAreRight'
    OBVIOUS
<1> USE DEF FlagsAreRight, Reports!FlagsAreRight, Reports!TypeOK,
            Reports!FlagTellsContents, Reports!FlagIsOfTheLine
<1>1. ASSUME NEW m \in Reports!Messages, Reports!Report(m) PROVE FlagsAreRight'
    <2>1. line'.message = m /\ session' \in Reports!SessionUnion \cup {"none"} /\ last' = Reports!NoPacket
        BY <1>1 DEF Reports!Report
    <2>2. set' = set /\ memory' = memory
        BY <1>1 DEF Reports!Report
    <2> QED BY <2>1, <2>2 DEF Reports!NoPacket
<1>2. ASSUME NEW m, Reports!ReadFix(m) PROVE FlagsAreRight'
    <2>1. Reports!Taken(m) /\ set' = {} /\ memory' = memory
        BY <1>2 DEF Reports!ReadFix
    <2> QED BY <2>1, TakenIs
<1>3. ASSUME NEW m, Reports!ReadShared(m) PROVE FlagsAreRight'
    <2>1. m.class \in Reports!ClientUnion
        BY <1>3 DEF Reports!ReadShared
    <2>2. memory' = [class |-> m.class, whole |-> Reports!ReadOK(m)] /\ Reports!ReadOK(m) \in BOOLEAN
        BY <1>3 DEF Reports!ReadShared, Reports!ReadOK
    <2>3. set' = IF Reports!ReadOK(m) THEN {m.class} ELSE set
        BY <1>3 DEF Reports!ReadShared
    <2>4. Reports!Taken(m)
        BY <1>3 DEF Reports!ReadShared
    <2> QED BY <2>1, <2>2, <2>3, <2>4, TakenIs
<1>4. ASSUME NEW m, Reports!ReadOwn(m) PROVE FlagsAreRight'
    <2>1. /\ m.class \in {"SKY", "DEVICE", "WATCH"} /\ Reports!Taken(m) /\ memory' = memory
          /\ set' = IF m.class = "WATCH" /\ Reports!ReadOK(m) THEN {} ELSE set
        BY <1>4 DEF Reports!ReadOwn
    <2> QED BY <2>1, TakenIs
\* A class that is not known is not read.
<1>5. ASSUME NEW m, Reports!Ignore(m) PROVE FlagsAreRight'
    BY <1>5, TakenIs DEF Reports!Ignore, Reports!ReadOK
<1>6. CASE Reports!SkipRest
    BY <1>6 DEF Reports!SkipRest, Reports!NoPacket
<1>7. CASE UNCHANGED reportVars
    BY <1>7 DEF reportVars
<1> QED BY <1>1, <1>2, <1>3, <1>4, <1>5, <1>6, <1>7 DEF Reports!Next, Reports!Read

\* At most one flag of the union is up, it names what the union holds unless a report broke
\* off, and after a line that was accepted it is that line's, but for reports about the sky
\* and the devices (libgps_json_unpack, libgps_json.c).
THEOREM FlagsRight == ClientSpec => []FlagsAreRight
<1>1. ClientInit => FlagsAreRight
    BY ReportsInit DEF ClientInit
<1>2. FlagsAreRight /\ [ClientNext]_clientVars => FlagsAreRight'
    BY ReportsStep DEF ClientNext, clientVars
<1> QED BY <1>1, <1>2, PTL DEF ClientSpec
=============================================================================
