------------------------------- MODULE Paths -------------------------------
(***************************************************************************)
(* The names of files: ToUnixPath and BytePtrFromString of go/fs.go.  A    *)
(* path is a sequence of characters, each a string of length one.          *)
(***************************************************************************)
EXTENDS Naturals, Sequences

Slash == "/"
Backslash == "\\"
Nul == "NUL"              \* the character 0
Slashes == {Slash, Backslash}

\* `\\?\unix` and `\??\unix`.
NtPrefixes ==
  {<<Backslash, x, "?", Backslash, "u", "n", "i", "x">> :
     x \in {Backslash, "?"}}

HasNtPrefix(path) ==
  Len(path) >= 9 /\ SubSeq(path, 1, 8) \in NtPrefixes /\ path[9] \in Slashes

HasDriveZ(path) ==
  /\ Len(path) >= 3
  /\ path[1] \in {"Z", "z"} /\ path[2] = ":" /\ path[3] \in Slashes

StripPrefix(path) ==
  IF HasNtPrefix(path) THEN SubSeq(path, 9, Len(path))
  ELSE IF HasDriveZ(path) THEN SubSeq(path, 3, Len(path))
  ELSE path

\* Every backslash becomes a slash.
Forward(p) == [k \in 1 .. Len(p) |-> IF p[k] = Backslash THEN Slash ELSE p[k]]

\* The path was absolute, or began with the letter of some drive.
WasRooted(path) ==
  path # <<>> /\ (path[1] \in Slashes \/ (Len(path) >= 2 /\ path[2] = ":"))

ToUnixPath(path) ==
  LET res == Forward(StripPrefix(path)) IN
  IF res # <<>> /\ res[1] # Slash /\ WasRooted(path)
  THEN <<Slash>> \o res
  ELSE res

\* BytePtrFromString takes every string without a NUL.
IsBytePtr(s) == \A k \in 1 .. Len(s) : s[k] # Nul
=============================================================================
