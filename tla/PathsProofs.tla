---------------------------- MODULE PathsProofs ----------------------------
(***************************************************************************)
(* ToUnixPath for strings of every length.  The library converts most      *)
(* paths twice, in the operation the caller names and again in the wrapper *)
(* below it (fs.go:167 and 267, vfs_ops.go:60 and 91, dirfs.go:70 and      *)
(* 92), so the second conversion must change nothing.                      *)
(***************************************************************************)
EXTENDS Paths, SequenceTheorems, TLAPS

\* What a converted path looks like: no backslash, and nothing in front that
\* would be taken for a drive.
Normal(q) ==
  /\ \A k \in 1 .. Len(q) : q[k] # Backslash
  /\ q # <<>> => q[1] = Slash \/ ~(Len(q) >= 2 /\ q[2] = ":")

\* A sequence with an element is not the empty one.
LEMMA LongIsNotEmpty ==
  ASSUME NEW S, NEW s \in Seq(S), Len(s) >= 1
  PROVE  s # <<>>
<1>1. Len(<<>>) = 0
  OBVIOUS
<1> QED  BY <1>1

\* Forward changes backslashes and nothing else.
LEMMA ForwardFacts ==
  ASSUME NEW Chars, Slash \in Chars, NEW p \in Seq(Chars)
  PROVE  /\ Forward(p) \in Seq(Chars)
         /\ Len(Forward(p)) = Len(p)
         /\ \A k \in 1 .. Len(p) :
              Forward(p)[k] = IF p[k] = Backslash THEN Slash ELSE p[k]
<1> DEFINE f(k) == IF p[k] = Backslash THEN Slash ELSE p[k]
<1>1. Len(p) \in Nat /\ \A k \in 1 .. Len(p) : p[k] \in Chars
  OBVIOUS
<1>2. \A k \in 1 .. Len(p) : f(k) \in Chars
  BY <1>1
<1>3. Forward(p) = [k \in 1 .. Len(p) |-> f(k)]
  BY DEF Forward
<1> HIDE DEF f
<1>4. Forward(p) \in Seq(Chars) /\ Len(Forward(p)) = Len(p)
  BY <1>1, <1>2, <1>3
<1>5. \A k \in 1 .. Len(p) : Forward(p)[k] = f(k)
  BY <1>3
<1> QED  BY <1>4, <1>5 DEF f

\* Without a backslash Forward is the identity.
LEMMA ForwardSame ==
  ASSUME NEW Chars, Slash \in Chars, NEW p \in Seq(Chars),
         \A k \in 1 .. Len(p) : p[k] # Backslash
  PROVE  Forward(p) = p
<1>1. /\ Forward(p) \in Seq(Chars) /\ Len(Forward(p)) = Len(p)
      /\ \A k \in 1 .. Len(p) : Forward(p)[k] = p[k]
  BY ForwardFacts
<1> QED  BY <1>1, SeqEqual

\* A path that loses a prefix is rooted, and what is left begins with a slash
\* of either kind.
LEMMA StripFacts ==
  ASSUME NEW Chars, Slash \in Chars, NEW p \in Seq(Chars)
  PROVE  /\ StripPrefix(p) \in Seq(Chars)
         /\ StripPrefix(p) # p =>
              /\ WasRooted(p)
              /\ StripPrefix(p) # <<>>
              /\ StripPrefix(p)[1] \in Slashes
<1>1. CASE HasNtPrefix(p)
  <2>1. Len(p) >= 9 /\ p[9] \in Slashes
    BY <1>1 DEF HasNtPrefix
  <2>2. PICK x \in {Backslash, "?"} :
          SubSeq(p, 1, 8)
            = <<Backslash, x, "?", Backslash, "u", "n", "i", "x">>
    BY <1>1 DEF HasNtPrefix, NtPrefixes
  <2>3. SubSeq(p, 1, 8)[1] = p[1]
    BY <2>1
  <2>4. p[1] = Backslash
    <3>1. <<Backslash, x, "?", Backslash, "u", "n", "i", "x">>[1] = Backslash
      OBVIOUS
    <3> QED  BY <2>2, <2>3, <3>1
  <2>5. StripPrefix(p) = SubSeq(p, 9, Len(p))
    BY <1>1 DEF StripPrefix
  <2>6. /\ SubSeq(p, 9, Len(p)) \in Seq(Chars)
        /\ Len(SubSeq(p, 9, Len(p))) = Len(p) - 8
        /\ SubSeq(p, 9, Len(p))[1] = p[9]
    BY <2>1
  <2>7. WasRooted(p)
    BY <2>1, <2>4 DEF WasRooted, Slashes
  <2>8. SubSeq(p, 9, Len(p)) # <<>>
    <3>1. Len(SubSeq(p, 9, Len(p))) >= 1
      BY <2>1, <2>6
    <3> QED  BY <2>6, <3>1, LongIsNotEmpty, Zenon
  <2> QED  BY <2>1, <2>5, <2>6, <2>7, <2>8
<1>2. CASE ~HasNtPrefix(p) /\ HasDriveZ(p)
  <2>1. Len(p) >= 3 /\ p[2] = ":" /\ p[3] \in Slashes
    BY <1>2 DEF HasDriveZ
  <2>2. StripPrefix(p) = SubSeq(p, 3, Len(p))
    BY <1>2 DEF StripPrefix
  <2>3. /\ SubSeq(p, 3, Len(p)) \in Seq(Chars)
        /\ Len(SubSeq(p, 3, Len(p))) = Len(p) - 2
        /\ SubSeq(p, 3, Len(p))[1] = p[3]
    BY <2>1
  <2>4. WasRooted(p)
    BY <2>1 DEF WasRooted
  <2>5. SubSeq(p, 3, Len(p)) # <<>>
    <3>1. Len(SubSeq(p, 3, Len(p))) >= 1
      BY <2>1, <2>3
    <3> QED  BY <2>3, <3>1, LongIsNotEmpty, Zenon
  <2> QED  BY <2>1, <2>2, <2>3, <2>4, <2>5
<1>3. CASE ~HasNtPrefix(p) /\ ~HasDriveZ(p)
  BY <1>3 DEF StripPrefix
<1> QED  BY <1>1, <1>2, <1>3

\* ToUnixPath gives a sequence of characters again, which begins with a slash
\* if the path was rooted and is as long as the path if it was not.
LEMMA ResultShape ==
  ASSUME NEW Chars, Slash \in Chars, NEW p \in Seq(Chars)
  PROVE  /\ ToUnixPath(p) \in Seq(Chars)
         /\ \A k \in 1 .. Len(ToUnixPath(p)) : ToUnixPath(p)[k] # Backslash
         /\ WasRooted(p) =>
              ToUnixPath(p) # <<>> /\ ToUnixPath(p)[1] = Slash
         /\ ~WasRooted(p) => ToUnixPath(p) = Forward(p)
<1> DEFINE s == StripPrefix(p)
           res == Forward(s)
<1>1. s \in Seq(Chars) /\ (s = p \/ (WasRooted(p) /\ s # <<>>))
  BY StripFacts
<1>2. /\ res \in Seq(Chars) /\ Len(res) = Len(s)
      /\ \A k \in 1 .. Len(res) : res[k] # Backslash
  BY <1>1, ForwardFacts DEF Slash, Backslash
<1>3. WasRooted(p) => res # <<>>
  BY <1>1, <1>2 DEF WasRooted
<1>4. ToUnixPath(p) = IF res # <<>> /\ res[1] # Slash /\ WasRooted(p)
                      THEN <<Slash>> \o res ELSE res
  BY DEF ToUnixPath
<1> HIDE DEF res, s
<1>5. CASE res # <<>> /\ res[1] # Slash /\ WasRooted(p)
  <2>1. /\ <<Slash>> \o res \in Seq(Chars)
        /\ Len(<<Slash>> \o res) = 1 + Len(res)
        /\ (<<Slash>> \o res)[1] = Slash
        /\ \A k \in 2 .. 1 + Len(res) : (<<Slash>> \o res)[k] = res[k - 1]
    <3>1. <<Slash>> \in Seq(Chars) /\ Len(<<Slash>>) = 1
      OBVIOUS
    <3>2. /\ <<Slash>> \o res \in Seq(Chars)
          /\ Len(<<Slash>> \o res) = 1 + Len(res)
          /\ \A k \in 1 .. 1 + Len(res) : (<<Slash>> \o res)[k] =
               IF k <= 1 THEN <<Slash>>[k] ELSE res[k - 1]
      BY <1>2, <3>1, ConcatProperties
    <3>3. Len(res) \in Nat
      BY <1>2
    <3> QED  BY <3>2, <3>3
  <2>2. \A k \in 1 .. 1 + Len(res) : (<<Slash>> \o res)[k] # Backslash
    BY <2>1, <1>2 DEF Slash, Backslash
  <2> QED  BY <1>4, <1>5, <2>1, <2>2
<1>6. CASE ~(res # <<>> /\ res[1] # Slash /\ WasRooted(p))
  <2>1. ToUnixPath(p) = res
    BY <1>4, <1>6
  <2>2. WasRooted(p) => res # <<>> /\ res[1] = Slash
    BY <1>3, <1>6
  <2>3. ~WasRooted(p) => res = Forward(p)
    BY <1>1 DEF res
  <2> QED  BY <1>2, <2>1, <2>2, <2>3
<1> QED  BY <1>5, <1>6

\* Every converted path is normal.
LEMMA ResultNormal ==
  ASSUME NEW Chars, Slash \in Chars, NEW p \in Seq(Chars)
  PROVE  Normal(ToUnixPath(p))
<1>1. CASE WasRooted(p)
  BY <1>1, ResultShape DEF Normal
<1>2. CASE ~WasRooted(p)
  <2>1. ToUnixPath(p) = Forward(p)
    BY <1>2, ResultShape
  <2>2. p = <<>> \/ ~(Len(p) >= 2 /\ p[2] = ":")
    BY <1>2 DEF WasRooted
  <2>3. /\ Len(Forward(p)) = Len(p)
        /\ Len(p) >= 2 => (Forward(p)[2] = ":" => p[2] = ":")
    BY ForwardFacts DEF Slash, Backslash
  <2>4. ~(Len(Forward(p)) >= 2 /\ Forward(p)[2] = ":")
    BY <2>2, <2>3
  <2> QED  BY <2>1, <2>4, ResultShape DEF Normal
<1> QED  BY <1>1, <1>2

\* A normal path has no prefix to lose and is left alone.
LEMMA NormalIsFixed ==
  ASSUME NEW Chars, Slash \in Chars, NEW q \in Seq(Chars), Normal(q)
  PROVE  ToUnixPath(q) = q
<1>1. Forward(q) = q
  BY ForwardSame DEF Normal
<1>2. ~HasNtPrefix(q)
  <2> SUFFICES ASSUME HasNtPrefix(q) PROVE FALSE
    OBVIOUS
  <2>1. Len(q) >= 9 /\ SubSeq(q, 1, 8)[1] = q[1]
    BY DEF HasNtPrefix
  <2>2. PICK x \in {Backslash, "?"} :
          SubSeq(q, 1, 8)
            = <<Backslash, x, "?", Backslash, "u", "n", "i", "x">>
    BY DEF HasNtPrefix, NtPrefixes
  <2>3. <<Backslash, x, "?", Backslash, "u", "n", "i", "x">>[1] = Backslash
    OBVIOUS
  <2>4. q[1] = Backslash
    BY <2>1, <2>2, <2>3, Zenon
  <2>5. 1 \in 1 .. Len(q)
    BY <2>1
  <2> QED  BY <2>4, <2>5 DEF Normal
<1>3. ~HasDriveZ(q)
  BY DEF HasDriveZ, Normal, Slash
<1>4. StripPrefix(q) = q
  BY <1>2, <1>3 DEF StripPrefix
<1>5. WasRooted(q) => q[1] = Slash
  BY DEF WasRooted, Normal, Slashes
<1> QED  BY <1>1, <1>4, <1>5 DEF ToUnixPath

\* Over any alphabet with a slash, converting a path twice is converting it
\* once (fs.go:112-137).
THEOREM ToUnixPathIdempotent ==
  ASSUME NEW Chars, Slash \in Chars, NEW p \in Seq(Chars)
  PROVE  ToUnixPath(ToUnixPath(p)) = ToUnixPath(p)
BY ResultShape, ResultNormal, NormalIsFixed

\* An absolute path, or one that begins with the letter of a drive, becomes an
\* absolute path of the host, without a backslash (fs.go:125-135).
THEOREM RootedBecomesAbsolute ==
  ASSUME NEW Chars, Slash \in Chars, NEW p \in Seq(Chars), WasRooted(p)
  PROVE  /\ ToUnixPath(p) # <<>> /\ ToUnixPath(p)[1] = Slash
         /\ \A k \in 1 .. Len(ToUnixPath(p)) : ToUnixPath(p)[k] # Backslash
BY ResultShape
=============================================================================
