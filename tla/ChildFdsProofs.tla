--------------------------- MODULE ChildFdsProofs ---------------------------
(***************************************************************************)
(* Theorems about the child's descriptor table, for every Files the caller *)
(* may give, every table it starts from and every limit: FdsInv is         *)
(* inductive, and the properties of ChildFds follow from it.               *)
(***************************************************************************)
EXTENDS ChildFds, TLAPS

\* The child starts in the invariant (spawn.go:310-319).
LEMMA FdsInvInit == Init => FdsInv
<1>1. SUFFICES ASSUME Init PROVE FdsInv
  OBVIOUS
<1>2. /\ MaxFiles \in Nat /\ Limit \in Nat /\ Sources \subseteq Int
      /\ Opened \subseteq Fd /\ Fd \subseteq Int
      /\ n \in Nat /\ n <= MaxFiles /\ errFd \in Fd /\ errFd >= 2 * MaxFiles
      /\ errFd >= n /\ next = errFd + 1 /\ errFd >= 0 /\ errFd < Limit
  BY <1>1, ChildFdsAssumption DEF Init, Fd
<1>3. /\ \A f \in Fd :
           file[f] = IF f \in Opened \cup {errFd} THEN f ELSE NoFile
      /\ errFd \in cloexec /\ cloexec \subseteq Opened \cup {errFd}
      /\ NoFile \notin Fd
  BY <1>1, <1>2 DEF Init, Fd, NoFile
<1>4. TypeOK
  <2>1. fds \in [0 .. n - 1 -> Int]
    BY <1>1, <1>2, Zenon DEF Init
  <2>2. file \in [Fd -> Fd \cup {NoFile}]
    BY <1>1, <1>2 DEF Init
  <2>3. i \in 0 .. n /\ next \in Nat /\ n \in 0 .. MaxFiles
    BY <1>1, <1>2 DEF Init
  <2>4. cloexec \in SUBSET Fd /\ \A f \in cloexec : file[f] # NoFile
    BY <1>2, <1>3
  <2> QED  BY <1>1, <1>2, <2>1, <2>2, <2>3, <2>4, Zenon DEF Init, TypeOK
<1>5. Needed(0)
  <2>1. SUFFICES ASSUME NEW j \in 0 .. n - 1
                 PROVE  fds[j] = want[j] /\ Held(want[j]) = Before(want[j])
    BY DEF Needed
  <2>2. fds[j] = want[j]
    BY <1>1 DEF Init
  <2> QED  BY <1>2, <1>3, <2>2, Zenon DEF Held, Before
<1>6. PipeApart
  BY <1>1, <1>2, <1>3 DEF Init, PipeApart, NoFile
<1>7. Progress /\ Swept /\ Room
  BY <1>1, <1>2, <1>5 DEF Init, Progress, Above, Swept, Room, Headroom
<1>8. QED
  BY <1>4, <1>6, <1>7 DEF FdsInv
-----------------------------------------------------------------------------
\* Every step of the rebuild, the sweep and the exec keeps the invariant.
\* Under each action stand the parts of the invariant it can disturb.
LEMMA FdsInvStep == FdsInv /\ [Next]_vars => FdsInv'
<1>i. SUFFICES ASSUME FdsInv, [Next]_vars
               PROVE  FdsInv'
  OBVIOUS
<1>p. PipeApart
  BY <1>i DEF FdsInv
<1>g. Progress
  BY <1>i DEF FdsInv
<1>s. Swept
  BY <1>i DEF FdsInv
<1>r. Room
  BY <1>i DEF FdsInv
<1>t. TypeOK
  BY <1>i DEF FdsInv
<1>a. /\ MaxFiles \in Nat /\ Limit \in Nat /\ n \in Nat /\ errFd \in Int
      /\ i \in Int /\ 0 <= i /\ i <= n /\ next \in Int /\ next >= 0
      /\ fds \in [0 .. n - 1 -> Int] /\ want \in [0 .. n - 1 -> Int]
      /\ file \in [Fd -> Fd \cup {NoFile}] /\ cloexec \subseteq Fd
      /\ \A f \in Fd : f \in Int /\ 0 <= f /\ f < Limit
      /\ \A f \in Int : 0 <= f /\ f < Limit => f \in Fd
      /\ NoFile \in Int /\ NoFile \notin Fd
      /\ errFd \in Fd /\ n <= errFd
  <2>1. /\ MaxFiles \in Nat /\ Limit \in Nat /\ n \in Nat /\ errFd \in Int
        /\ i \in Int /\ 0 <= i /\ i <= n /\ next \in Int /\ next >= 0
        /\ errFd \in Fd /\ n <= errFd
    BY <1>t, <1>p, ChildFdsAssumption DEF TypeOK, PipeApart, Fd
  <2>2. want \in [0 .. n - 1 -> Int]
    BY <1>t, ChildFdsAssumption, Zenon DEF TypeOK
  <2>3. NoFile \in Int /\ NoFile \notin Fd
    BY <2>1 DEF Fd, NoFile
  <2>4. /\ \A f \in Fd : f \in Int /\ 0 <= f /\ f < Limit
        /\ \A f \in Int : 0 <= f /\ f < Limit => f \in Fd
    BY <2>1 DEF Fd
  <2> QED  BY <1>t, <2>1, <2>2, <2>3, <2>4 DEF TypeOK
<1>b. \A j \in 0 .. n - 1 : j \in Fd /\ j # errFd
  BY <1>a
<1>1. CASE RaiseNext
  <2>1. TypeOK'
    <3>1. i < n /\ i' = i + 1
          /\ next' = IF fds[i] >= next THEN fds[i] + 1 ELSE next
      BY <1>1 DEF RaiseNext
    <3>2. i \in 0 .. n - 1 /\ fds[i] \in Int
      BY <3>1, <1>a
    <3>3. i' \in 0 .. n /\ next' \in Nat
      BY <3>1, <3>2, <1>a
    <3> QED  BY <1>1, <3>3, <1>t DEF RaiseNext, request, TypeOK, Fd
  <2>2. PipeApart'
    BY <1>1, <1>p, <1>g, <1>a, <1>b
       DEF RaiseNext, request, PipeApart, Progress, Needed
  <2>3. Progress'
    <3>1. Needed(0)'
      BY <1>1, <1>g, <1>a
         DEF RaiseNext, request, Progress, Needed, Held, Before
    <3>a. /\ fds' = fds /\ i' = i + 1 /\ i \in 0 .. n - 1
          /\ next' \in Int /\ next' >= next /\ fds[i] < next'
      BY <1>1, <1>a DEF RaiseNext
    <3>2. fds' = want' /\ Above(i)'
      <4>1. fds' = want' /\ Above(i)
        BY <1>1, <1>g DEF RaiseNext, request, Progress
      <4>2. ASSUME NEW j \in 0 .. i' - 1  PROVE fds'[j] < next'
        <5>1. j = i \/ j \in 0 .. i - 1
          BY <3>a, <1>a
        <5>2. j \in 0 .. n - 1 /\ fds[j] \in Int
          BY <5>1, <3>a, <1>a
        <5> QED  BY <5>1, <5>2, <4>1, <3>a, <1>a DEF Above
      <4> QED  BY <4>1, <4>2 DEF Above
    <3> QED  BY <1>1, <3>1, <3>2 DEF RaiseNext, request, Progress
  <2>4. Swept'
    BY <1>1, <1>s, <1>a, <1>b DEF RaiseNext, request, Swept
  <2>5. Room'
    <3>1. fds = want /\ i \in 0 .. n - 1
      BY <1>1, <1>g, <1>a DEF RaiseNext, Progress
    <3>2. ASSUME Headroom
          PROVE  next + n <= Limit + 1 /\ (fds[i] >= 0 => fds[i] + n <= Limit)
      BY <1>1, <3>1, <3>2, <1>r DEF RaiseNext, Room, Headroom
    <3>3. ASSUME Headroom  PROVE next' + n <= Limit + 1
      <4>1. fds[i] \in Int /\ n \in Int /\ Limit \in Int
        BY <3>1, <1>a
      <4>2. CASE fds[i] >= next
        <5>1. next' = fds[i] + 1 /\ fds[i] >= 0
          BY <1>1, <4>1, <4>2, <1>a DEF RaiseNext
        <5>2. fds[i] + n <= Limit
          BY <5>1, <3>2, <3>3
        <5> QED  BY <5>1, <5>2, <4>1
      <4>3. CASE ~(fds[i] >= next)
        BY <1>1, <4>3, <3>2, <3>3 DEF RaiseNext
      <4> QED  BY <4>2, <4>3
    <3> QED  BY <1>1, <3>3, <1>r DEF RaiseNext, request, Room, Headroom
  <2> QED  BY <2>1, <2>2, <2>3, <2>4, <2>5 DEF FdsInv
<1>2. CASE EndLoop("raise", "move")
  <2>1. TypeOK'
    BY <1>2, <1>t, <1>a, <1>b DEF EndLoop, request, TypeOK
  <2>2. PipeApart'
    BY <1>2, <1>p, <1>g, <1>a, <1>b
       DEF EndLoop, request, PipeApart, Progress, Needed
  <2>3. Progress'
    BY <1>2, <1>p, <1>g, <1>a, <1>b
       DEF EndLoop, request, PipeApart, Progress, Needed, Built, Above, Held,
           Before
  <2>4. Swept'
    BY <1>2, <1>s, <1>a, <1>b DEF EndLoop, request, Swept
  <2>5. Room'
    BY <1>2, <1>r, <1>g, <1>a, <1>b
       DEF EndLoop, request, Room, Headroom, Progress, Needed, Held, Before
  <2> QED  BY <2>1, <2>2, <2>3, <2>4, <2>5 DEF FdsInv
<1>3. CASE MoveAside
  <2>1. TypeOK'
    BY <1>3, <1>t, <1>a, <1>b, SMTT(30)
       DEF MoveAside, MustMove, CanDup, Dup3, request, TypeOK
  <2>2. PipeApart'
    BY <1>3, <1>p, <1>g, <1>a, <1>b
       DEF MoveAside, MustMove, CanDup, Dup3, request, PipeApart, Progress,
           Needed
  <2>3. Progress'
    <3>1. /\ next \in Fd /\ fds[i] \in Fd /\ i \in 0 .. n - 1
          /\ fds' = [fds EXCEPT ![i] = next] /\ next' = next + 1 /\ i' = i + 1
          /\ file' = [file EXCEPT ![next] = file[fds[i]]]
          /\ UNCHANGED <<n, errFd, want, pc>>
      BY <1>3, <1>a DEF MoveAside, CanDup, Dup3, request
    <3>2. /\ Needed(0) /\ Above(n) /\ errFd < next /\ next >= n
          /\ \A j \in 0 .. i - 1 : fds[j] < 0 \/ fds[j] >= j
      BY <1>3, <1>g, <1>p, <1>a DEF MoveAside, Progress, PipeApart
    <3>3. Needed(0)'
      <4>1. ASSUME NEW j \in 0 .. n - 1
            PROVE  /\ Held(fds[j])' = Held(fds[j])
                   /\ fds'[j] < 0 <=> fds[j] < 0
        <5>1. CASE j # i
          BY <3>1, <3>2, <5>1, <1>a DEF Above, Held, Needed
        <5>2. CASE j = i
          BY <3>1, <3>2, <5>2, <1>a DEF Held
        <5> QED  BY <5>1, <5>2
      <4> QED  BY <3>1, <3>2, <4>1 DEF Needed, Before
    <3>4. Above(n)'
      BY <3>1, <3>2, <1>a DEF Above
    <3>5. \A j \in 0 .. i' - 1 : fds'[j] < 0 \/ fds'[j] >= j
      BY <3>1, <3>2, <1>a
    <3> QED  BY <1>3, <3>1, <3>3, <3>4, <3>5 DEF MoveAside, Progress
  <2>4. Swept'
    BY <1>3, <1>s, <1>a, <1>b
       DEF MoveAside, MustMove, CanDup, Dup3, request, Swept
  <2>5. Room'
    BY <1>3, <1>r, <1>g, <1>a, <1>b
       DEF MoveAside, MustMove, CanDup, Dup3, request, Room, Headroom,
           Progress, Needed, Held, Before
  <2> QED  BY <2>1, <2>2, <2>3, <2>4, <2>5 DEF FdsInv
<1>4. CASE MoveFails
  <2>1. TypeOK'
    BY <1>4, <1>t, <1>a, <1>b, SMTT(30)
       DEF MoveFails, MustMove, CanDup, Fail, request, TypeOK
  <2>2. PipeApart'
    BY <1>4, <1>p, <1>g, <1>a, <1>b
       DEF MoveFails, MustMove, CanDup, Fail, request, PipeApart, Progress,
           Needed
  <2>3. Progress'
    BY <1>4, <1>p, <1>g, <1>a, <1>b
       DEF MoveFails, MustMove, CanDup, Fail, request, PipeApart, Progress,
           Needed, Built, Above, Held, Before
  <2>4. Swept'
    BY <1>4, <1>s, <1>a, <1>b
       DEF MoveFails, MustMove, CanDup, Fail, request, Swept
  <2>5. Room'
    <3>1. ASSUME Headroom  PROVE FALSE
      <4>1. i \in 1 .. n - 1 /\ next + n - i <= Limit
        BY <1>4, <3>1, <1>r, <1>a DEF MoveFails, MustMove, Room
      <4>2. next \in Fd
        BY <4>1, <1>a
      <4>3. Held(fds[i]) # NoFile
        <5>1. /\ fds[i] >= 0 /\ i \in 0 .. n - 1 /\ want[i] \in Int
              /\ want[i] < 0 <=> fds[i] < 0
              /\ want[i] >= 0 => Held(fds[i]) = Before(want[i])
          BY <1>4, <4>1, <1>g, <1>a DEF MoveFails, MustMove, Progress, Needed
        <5>2. want[i] \in Opened
          BY <3>1, <5>1, <1>a DEF Headroom
        <5> QED  BY <5>1, <5>2, <1>a DEF Before, NoFile
      <4> QED  BY <1>4, <4>2, <4>3 DEF MoveFails, CanDup, Held
    <3> QED  BY <1>4, <3>1 DEF MoveFails, Fail, request, Room, Headroom
  <2> QED  BY <2>1, <2>2, <2>3, <2>4, <2>5 DEF FdsInv
<1>5. CASE MoveNot
  <2>1. TypeOK'
    BY <1>5, <1>t, <1>a, <1>b DEF MoveNot, MustMove, request, TypeOK
  <2>2. PipeApart'
    BY <1>5, <1>p, <1>g, <1>a, <1>b
       DEF MoveNot, MustMove, request, PipeApart, Progress, Needed
  <2>3. Progress'
    <3>1. Needed(0)'
      BY <1>5, <1>g, <1>a
         DEF MoveNot, MustMove, request, Progress, Needed, Held, Before
    <3>2. Above(n)'
      BY <1>5, <1>g DEF MoveNot, request, Progress, Above
    <3>3. \A j \in 0 .. i' - 1 : fds'[j] < 0 \/ fds'[j] >= j
      <4>1. /\ fds' = fds /\ i' = i + 1 /\ i \in 0 .. n - 1
            /\ fds[i] < 0 \/ fds[i] >= i
            /\ \A j \in 0 .. i - 1 : fds[j] < 0 \/ fds[j] >= j
        BY <1>5, <1>g, <1>a DEF MoveNot, MustMove, Progress
      <4>2. ASSUME NEW j \in 0 .. i' - 1  PROVE j = i \/ j \in 0 .. i - 1
        BY <4>1, <1>a
      <4> QED  BY <4>1, <4>2
    <3> QED  BY <1>5, <3>1, <3>2, <3>3 DEF MoveNot, MustMove, request, Progress
  <2>4. Swept'
    BY <1>5, <1>s, <1>a, <1>b DEF MoveNot, MustMove, request, Swept
  <2>5. Room'
    BY <1>5, <1>r, <1>g, <1>a, <1>b
       DEF MoveNot, MustMove, request, Room, Headroom, Progress, Needed, Held,
           Before
  <2> QED  BY <2>1, <2>2, <2>3, <2>4, <2>5 DEF FdsInv
<1>6. CASE EndLoop("move", "fill")
  <2>1. TypeOK'
    BY <1>6, <1>t, <1>a, <1>b DEF EndLoop, request, TypeOK
  <2>2. PipeApart'
    BY <1>6, <1>p, <1>g, <1>a, <1>b
       DEF EndLoop, request, PipeApart, Progress, Needed
  <2>3. Progress'
    BY <1>6, <1>p, <1>g, <1>a, <1>b
       DEF EndLoop, request, PipeApart, Progress, Needed, Built, Above, Held,
           Before
  <2>4. Swept'
    BY <1>6, <1>s, <1>a, <1>b DEF EndLoop, request, Swept
  <2>5. Room'
    BY <1>6, <1>r, <1>g, <1>a, <1>b
       DEF EndLoop, request, Room, Headroom, Progress, Needed, Held, Before
  <2> QED  BY <2>1, <2>2, <2>3, <2>4, <2>5 DEF FdsInv
<1>7. CASE FillClosed
  <2>1. TypeOK'
    BY <1>7, <1>t, <1>a, <1>b DEF FillClosed, Close, request, TypeOK
  <2>2. PipeApart'
    BY <1>7, <1>p, <1>g, <1>a, <1>b
       DEF FillClosed, Close, request, PipeApart, Progress, Needed
  <2>3. Progress'
    BY <1>7, <1>p, <1>g, <1>a, <1>b
       DEF FillClosed, Close, request, PipeApart, Progress, Needed, Built,
           Above, Held, Before
  <2>4. Swept'
    BY <1>7, <1>s, <1>a, <1>b DEF FillClosed, Close, request, Swept
  <2>5. Room'
    BY <1>7, <1>r, <1>g, <1>a, <1>b
       DEF FillClosed, Close, request, Room, Headroom, Progress, Needed, Held,
           Before
  <2> QED  BY <2>1, <2>2, <2>3, <2>4, <2>5 DEF FdsInv
<1>8. CASE FillSame
  <2>1. TypeOK'
    BY <1>8, <1>t, <1>a, <1>b DEF FillSame, request, TypeOK
  <2>2. PipeApart'
    BY <1>8, <1>p, <1>g, <1>a, <1>b
       DEF FillSame, request, PipeApart, Progress, Needed
  <2>3. Progress'
    BY <1>8, <1>p, <1>g, <1>a, <1>b
       DEF FillSame, request, PipeApart, Progress, Needed, Built, Above, Held,
           Before
  <2>4. Swept'
    BY <1>8, <1>s, <1>a, <1>b DEF FillSame, request, Swept
  <2>5. Room'
    BY <1>8, <1>r, <1>g, <1>a, <1>b
       DEF FillSame, request, Room, Headroom, Progress, Needed, Held, Before
  <2> QED  BY <2>1, <2>2, <2>3, <2>4, <2>5 DEF FdsInv
<1>9. CASE FillDup
  <2>1. TypeOK'
    BY <1>9, <1>t, <1>a, <1>b DEF FillDup, CanDup, Dup3, request, TypeOK
  <2>a. /\ pc = "fill" /\ pc' = "fill" /\ i \in 0 .. n - 1 /\ i' = i + 1
        /\ n' = n /\ errFd' = errFd /\ want' = want /\ fds' = fds
        /\ fds[i] \in Fd /\ file[fds[i]] # NoFile
        /\ file' = [file EXCEPT ![i] = file[fds[i]]]
        /\ cloexec' = cloexec \ {i} /\ next' = next
    BY <1>9, <1>a DEF FillDup, CanDup, Dup3, request
  <2>b. /\ Needed(i) /\ Built(i)
        /\ \A j \in 0 .. n - 1 : fds[j] < 0 \/ fds[j] >= j
    BY <2>a, <1>g DEF Progress
  <2>c. want[i] >= 0 /\ file[fds[i]] = want[i]
    BY <2>a, <2>b, <1>a DEF Needed, Held, Before
  <2>2. PipeApart'
    BY <2>a, <2>c, <1>p, <1>a, <1>b DEF PipeApart
  <2>3. Progress'
    <3>1. Needed(i)'
      BY <2>a, <2>b, <1>a, <1>b DEF Needed, Held, Before
    <3>2. Built(i)'
      BY <2>a, <2>b, <2>c, <1>a, <1>b DEF Built
    <3> QED  BY <2>a, <2>b, <3>1, <3>2 DEF Progress
  <2>4. Swept'
    BY <1>9, <1>s, <1>a, <1>b DEF FillDup, CanDup, Dup3, request, Swept
  <2>5. Room'
    BY <1>9, <1>r, <1>g, <1>a, <1>b
       DEF FillDup, CanDup, Dup3, request, Room, Headroom, Progress, Needed,
           Held, Before
  <2> QED  BY <2>1, <2>2, <2>3, <2>4, <2>5 DEF FdsInv
<1>10. CASE FillFails
  <2>1. TypeOK'
    BY <1>10, <1>t, <1>a, <1>b DEF FillFails, CanDup, Fail, request, TypeOK
  <2>2. PipeApart'
    BY <1>10, <1>p, <1>g, <1>a, <1>b
       DEF FillFails, CanDup, Fail, request, PipeApart, Progress, Needed
  <2>3. Progress'
    BY <1>10, <1>p, <1>g, <1>a, <1>b
       DEF FillFails, CanDup, Fail, request, PipeApart, Progress, Needed,
           Built, Above, Held, Before
  <2>4. Swept'
    BY <1>10, <1>s, <1>a, <1>b DEF FillFails, CanDup, Fail, request, Swept
  <2>5. Room'
    BY <1>10, <1>r, <1>g, <1>a, <1>b
       DEF FillFails, CanDup, Fail, request, Room, Headroom, Progress, Needed,
           Held, Before
  <2> QED  BY <2>1, <2>2, <2>3, <2>4, <2>5 DEF FdsInv
<1>11. CASE EndLoop("fill", "low")
  <2>1. TypeOK'
    BY <1>11, <1>t, <1>a, <1>b DEF EndLoop, request, TypeOK
  <2>2. PipeApart'
    BY <1>11, <1>p, <1>g, <1>a, <1>b
       DEF EndLoop, request, PipeApart, Progress, Needed
  <2>3. Progress'
    BY <1>11, <1>p, <1>g, <1>a, <1>b
       DEF EndLoop, request, PipeApart, Progress, Needed, Built, Above, Held,
           Before
  <2>4. Swept'
    BY <1>11, <1>s, <1>a, <1>b DEF EndLoop, request, Swept
  <2>5. Room'
    BY <1>11, <1>r, <1>g, <1>a, <1>b
       DEF EndLoop, request, Room, Headroom, Progress, Needed, Held, Before
  <2> QED  BY <2>1, <2>2, <2>3, <2>4, <2>5 DEF FdsInv
<1>12. CASE CloseLow
  <2>1. TypeOK'
    BY <1>12, <1>t, <1>a, <1>b, Zenon DEF CloseLow, Close, request, TypeOK
  <2>2. PipeApart'
    BY <1>12, <1>p, <1>g, <1>a, <1>b
       DEF CloseLow, Close, request, PipeApart, Progress, Needed
  <2>3. Progress'
    BY <1>12, <1>p, <1>g, <1>a, <1>b
       DEF CloseLow, Close, request, PipeApart, Progress, Needed, Built,
           Above, Held, Before
  <2>4. Swept'
    BY <1>12, <1>s, <1>a, <1>b DEF CloseLow, Close, request, Swept
  <2>5. Room'
    BY <1>12, <1>r, <1>g, <1>a, <1>b
       DEF CloseLow, Close, request, Room, Headroom, Progress, Needed, Held,
           Before
  <2> QED  BY <2>1, <2>2, <2>3, <2>4, <2>5 DEF FdsInv
<1>13. CASE CloseHigh
  <2>1. TypeOK'
    BY <1>13, <1>t, <1>a, <1>b, Zenon DEF CloseHigh, Close, request, TypeOK
  <2>2. PipeApart'
    BY <1>13, <1>p, <1>g, <1>a, <1>b
       DEF CloseHigh, Close, request, PipeApart, Progress, Needed
  <2>3. Progress'
    BY <1>13, <1>p, <1>g, <1>a, <1>b
       DEF CloseHigh, Close, request, PipeApart, Progress, Needed, Built,
           Above, Held, Before
  <2>4. Swept'
    BY <1>13, <1>s, <1>a, <1>b DEF CloseHigh, Close, request, Swept
  <2>5. Room'
    BY <1>13, <1>r, <1>g, <1>a, <1>b
       DEF CloseHigh, Close, request, Room, Headroom, Progress, Needed, Held,
           Before
  <2> QED  BY <2>1, <2>2, <2>3, <2>4, <2>5 DEF FdsInv
<1>14. CASE Exec
  <2>1. TypeOK'
    BY <1>14, <1>t, <1>a, <1>b DEF Exec, Close, request, TypeOK
  <2>2. PipeApart'
    BY <1>14, <1>p, <1>g, <1>a, <1>b
       DEF Exec, Close, request, PipeApart, Progress, Needed
  <2>3. Progress'
    BY <1>14, <1>p, <1>g, <1>a, <1>b
       DEF Exec, Close, request, PipeApart, Progress, Needed, Built, Above,
           Held, Before
  <2>4. Swept'
    BY <1>14, <1>p, <1>s, <1>a, <1>b DEF Exec, Close, request, PipeApart, Swept
  <2>5. Room'
    BY <1>14, <1>r, SMTT(30) DEF Exec, request, Room, Headroom
  <2> QED  BY <2>1, <2>2, <2>3, <2>4, <2>5 DEF FdsInv
<1>15. CASE UNCHANGED vars
  BY <1>i, <1>15
     DEF vars, FdsInv, TypeOK, PipeApart, Progress, Swept, Room, Headroom,
         Needed, Built, Above, Held, Before
<1>16. QED
  BY <1>i, <1>1, <1>2, <1>3, <1>4, <1>5, <1>6, <1>7, <1>8, <1>9, <1>10, <1>11,
     <1>12, <1>13, <1>14, <1>15, Zenon
     DEF Next

\* FdsInv is an invariant of the rebuild.
THEOREM FdsInvariance == Spec => []FdsInv
  BY FdsInvInit, FdsInvStep, PTL DEF Spec
-----------------------------------------------------------------------------
(* What follows from it. *)

\* The loops stay inside a.fds and the table keeps its type.
THEOREM FdsTypeCorrect == Spec => []TypeOK
<1>1. FdsInv => TypeOK
  BY DEF FdsInv
<1>2. QED
  BY <1>1, FdsInvariance, PTL

\* Child descriptor i is a duplicate of Files[i], or closed (spawn.go:60).
THEOREM ChildTableHolds == Spec => []ChildTable
<1>1. FdsInv => ChildTable
  BY DEF FdsInv, Progress, Built, ChildTable
<1>2. QED
  BY <1>1, FdsInvariance, PTL

\* With close_range, every other descriptor is closed (spawn.go:61).
THEOREM EveryOtherClosedHolds ==
  ASSUME CloseRange  PROVE Spec => []EveryOtherClosed
<1>1. FdsInv => EveryOtherClosed
  BY ChildFdsAssumption DEF FdsInv, TypeOK, Swept, EveryOtherClosed, Fd
<1>2. QED
  BY <1>1, FdsInvariance, PTL

\* The error pipe survives the rebuild and the sweep, whatever Files lists, and
\* the exec only as the targets that Files gave the number of the pipe.
THEOREM ErrorPipeKeptHolds == Spec => []ErrorPipeKept
<1>1. FdsInv => ErrorPipeKept
  BY DEF FdsInv, PipeApart, ErrorPipeKept
<1>2. QED
  BY <1>1, FdsInvariance, PTL

\* With its sources open and n numbers to spare the rebuild does not fail.
THEOREM NoSpuriousFailureHolds == Spec => []NoSpuriousFailure
<1>1. FdsInv => NoSpuriousFailure
  BY DEF FdsInv, Room, NoSpuriousFailure
<1>2. QED
  BY <1>1, FdsInvariance, PTL
=============================================================================
