------------------------------ MODULE MCTrees ------------------------------
(***************************************************************************)
(* Two callers and another process on the tree                             *)
(*     /k  /k/b  /t  /t/a  /t/a/b  /t/b  /t/c  /t/x  /t/y                  *)
(* with one more entry of /t perhaps, whose name is a\b, b\b or ..\k.      *)
(* /t/a and /t/b may be links to /k, /t/b is renamed to /t/c, and x and y  *)
(* are the names of temporary files.                                       *)
(***************************************************************************)
EXTENDS Trees

A == <<"a">>
B == <<"b">>
K == <<<<"k">>>>
T == <<<<"t">>>>
TA == Append(T, A)
TB == Append(T, B)
TAB == Append(TA, B)
TAW == Append(T, <<"a", Backslash, "b">>)
TBW == Append(T, <<"b", Backslash, "b">>)
TUW == Append(T, <<".", ".", Backslash, "k">>)
Odd == {TAW, TBW, TUW}
TC == Append(T, <<"c">>)
MCTempNames == <<<<"x">>, <<"y">>>>
Temps == {Append(T, name) : name \in Range(MCTempNames)}
KB == Append(K, B)

MCNodes == {K, KB, T, TA, TB, TAB, TC} \cup Odd \cup Temps
MCLinkTo == K
MCLoose == {TA, TC, Append(T, <<"x">>)}
MCSwappable == {TA}

\* /k is as it is, there is no temporary file, and nothing is in /t unless it
\* is a directory.  The tree in which the nodes of k are there besides:
Base == [n \in MCNodes |-> IF n = K THEN "dir" ELSE IF n = KB THEN "file" ELSE "none"]
With(k) == k @@ Base

\* /t/a with a link /t/b or without it, /t/b with /t/c; names with backslashes:
\* a\b besides /t/a, b\b besides a link /t/b, and ..\k.
MCTrees0 ==
  {With(T :> kind) : kind \in {"none", "file", "dir"}}
    \cup {With(T :> "dir" @@ TA :> a @@ TB :> b) :
            a \in {"none", "file", "dir"}, b \in {"none", "link"}}
    \cup {With(T :> "dir" @@ TB :> b @@ TC :> "file") :
            b \in {"none", "file", "link"}}
    \cup {With(T :> "dir" @@ TA :> a @@ TAW :> "file") :
            a \in {"file", "dir", "link"}}
    \cup {With(T :> "dir" @@ TA :> "link"),
          With(T :> "dir" @@ TA :> "dir" @@ TAB :> "file"),
          With(T :> "dir" @@ TA :> "dir" @@ TAB :> "file" @@ TAW :> "file"),
          With(T :> "dir" @@ TB :> "link" @@ TBW :> "file"),
          With(T :> "dir" @@ TUW :> "file")}

\* /t  /t/a  /t/a/b  Z:\t\a  \\?\unix\t  Z:\  Z:\\  and /t/a with a NUL.
t == <<"/", "t">>
ta == t \o <<"/", "a">>
tab == ta \o <<"/", "b">>
ZDrive == <<"Z", ":", "\\">>
ZTwice == ZDrive \o <<"\\">>
zta == ZDrive \o <<"t", "\\", "a">>
nt == <<"\\", "\\", "?", "\\", "u", "n", "i", "x", "\\", "t">>
taNul == ta \o <<Nul>>
tb == t \o <<"/", "b">>
tc == t \o <<"/", "c">>

MCRequests ==
  [op : {"MkdirAll"}, path : {tab, zta, ZDrive, taNul}]
    \cup [op : {"RemoveAll"}, path : {nt, ZDrive, ZTwice}]
    \cup [op : {"ReadDir"}, path : {ta}]
    \cup [op : {"CreateTemp"}, path : {t}]
    \cup [op : {"Rename", "RenameNoReplace"}, path : {tb}, to : {tc}]
    \cup [op : {"FSStat"}, path : {t}, name : {<<"/">>, A}]
    \cup [op : {"FSReadDir"}, path : {ZDrive \o <<"t">>}, name : {<<".">>}]
    \cup [op : {"FSOpenReadDir"}, path : {t}, name : {B}]
    \cup [op : {"WsMkdirAll"}, path : {ta, tab, <<>>}]
    \cup [op : {"WsRemoveAll"}, path : {ta, t, <<>>}]

\* RemoveAll of Z:\\ goes through everything there is: the other caller then
\* only makes a call that is refused at once.
MCPairs ==
  \A c \in Callers : req[c].path = ZTwice =>
    \A d \in Callers \ {c} : req[d].op = "FSStat" /\ req[d].name = <<"/">>

\* The callers are alike.
MCSymmetry == Permutations(Callers)
=============================================================================
