------------------------------- MODULE Trees -------------------------------
(***************************************************************************)
(* Directory trees: MkdirAll, RemoveAll and CreateTemp of go/vfs_ops.go,   *)
(* ReadDir, Rename and RenameNoReplace of go/fs.go, DirFS of go/dirfs.go,  *)
(* and ws_mkdir_all and ws_remove_all of c/src/fs.c, run by several        *)
(* callers on one tree, one system call at a time, while another process   *)
(* creates and removes files in it, or puts a link where a directory was.  *)
(*                                                                         *)
(* A node is the sequence of the names that lead to it from the root,      *)
(* which is the working directory; a name is a sequence of characters.     *)
(* All symbolic links lead to LinkTo.                                      *)
(***************************************************************************)
EXTENDS Naturals, Sequences, FiniteSets, SequencesExt, Paths

CONSTANTS
  Callers,     \* threads that each make one call
  Requests,    \* the calls they may make, records [op, path]; with to for
               \* a rename, with name for DirFS, whose root is the path.  No
               \* path ends in a slash but the root's, and only those that
               \* the code tests for it are empty.
  Nodes,       \* the nodes that can exist, the root left out
  Trees0,      \* the trees there may be to begin with
  LinkTo,      \* where the links lead, a node
  Loose,       \* nodes the other process creates and removes as files
  Swappable,   \* directories it may replace by links
  TempNames,   \* the names of temporary files, by their number
  CMax,        \* characters that ws_mkdir_all keeps, 1023 in the code
  MaxTries,    \* bound: names CreateTemp tries, 1000 in the code
  MaxForeign   \* bound: steps of the other process

COps == {"WsMkdirAll", "WsRemoveAll"}
FSOps == {"FSStat", "FSReadDir", "FSOpenReadDir"}
Listers == {"ReadDir", "FSReadDir", "FSOpenReadDir"}
Renames == {"Rename", "RenameNoReplace"}
Kinds == {"none", "dir", "file", "link"}

VARIABLES
  tree,      \* the kind of each node
  req,       \* the call of each caller
  at,        \* the system call it is about to make
  stack,     \* frames of RemoveAll: a path and the names still to remove
  made,      \* parts of the path that MkdirAll has been through
  reading,   \* the directory ReadDir has open
  result,    \* "none" until the call returns: "nil" or "err"
  listing,   \* what ReadDir returned; then the entry asked for its Info
  tempFileCounter,
  before,    \* history: <<tree>> as it was when the call began; <<>> when
             \* the call is not running or is not alone any more
  foreign,   \* steps the other process has taken
  swapped    \* history: it has put a link where a directory was

vars == <<tree, req, at, stack, made, reading, result, listing,
          tempFileCounter, before, foreign, swapped>>
-----------------------------------------------------------------------------
(* Error numbers. *)

ENOENT == 2
EBUSY == 16
EEXIST == 17
ENOTDIR == 20
EISDIR == 21
EINVAL == 22
EMFILE == 24
ENOTEMPTY == 39

\* The constants of the same names in package syscall for Windows.  ENOENT is
\* ERROR_FILE_NOT_FOUND; the other two are from the block that package
\* numbers from APPLICATION_ERROR up, where no errno of the host is.
WinENOENT == 2
WinEEXIST == 2^29 + 1
WinEISDIR == 2^29 + 2

\* Errno.Is for a syscall.Errno: the numbers are equal.
Is(e, target) == e = target
-----------------------------------------------------------------------------
(* The kernel's view of the tree. *)

Dot == <<".">>
DotDot == <<".", ".">>

Kind(n) == IF n = <<>> THEN "dir" ELSE IF n \in Nodes THEN tree[n] ELSE "none"

Children(n) ==
  {Last(m) : m \in {m \in Nodes : Front(m) = n /\ tree[m] # "none"}}

Follow(n) == IF Kind(n) = "link" THEN LinkTo ELSE n

\* The way of one name from where the walk is, which has to be a directory or
\* a link to one.
Step(r, name) ==
  LET d == Follow(r.node) IN
  IF r.err # 0 THEN r
  ELSE IF Kind(d) # "dir"
  THEN [r EXCEPT !.err = IF Kind(d) = "none" THEN ENOENT ELSE ENOTDIR]
  ELSE [r EXCEPT !.node = IF name = Dot THEN d
                          ELSE IF name # DotDot THEN Append(d, name)
                          ELSE IF d = <<>> THEN d ELSE Front(d)]

\* Where a sequence of names leads; a link at the end is not followed.
Walk(names) ==
  LET From[k \in 0 .. Len(names)] ==
        IF k = 0 THEN [err |-> 0, node |-> <<>>]
        ELSE Step(From[k - 1], names[k])
  IN  From[Len(names)]

\* The names in a path.
Components(p) ==
  LET starts == {k \in 1 .. Len(p) :
                   p[k] # Slash /\ (k = 1 \/ p[k - 1] = Slash)}
      End(k) == CHOOSE j \in k .. Len(p) :
                  /\ \A i \in k .. j : p[i] # Slash
                  /\ j = Len(p) \/ p[j + 1] = Slash
      sorted == SetToSortSeq(starts, <)
  IN [k \in 1 .. Len(sorted) |-> SubSeq(p, sorted[k], End(sorted[k]))]

\* From here on a path is the sequence of its names after ToUnixPath, which
\* leaves a converted path alone.
Host(p) == Components(ToUnixPath(p))

\* fs.ValidPath: names without "." and "..", one slash between them.
ValidPath(name) ==
  \/ name = <<".">>
  \/ /\ name # <<>> /\ name[1] # Slash /\ Last(name) # Slash
     /\ \A k \in 1 .. Len(name) - 1 : <<name[k], name[k + 1]>> # <<Slash, Slash>>
     /\ Range(Components(name)) \cap {<<".">>, <<".", ".">>} = {}

\* path.Clean of a path from the root: ".." takes back the name before it,
\* whatever that is on the host.
Clean(names) ==
  LET To[k \in 0 .. Len(names)] ==
        IF k = 0 THEN <<>>
        ELSE IF names[k] = Dot THEN To[k - 1]
        ELSE IF names[k] # DotDot THEN Append(To[k - 1], names[k])
        ELSE IF To[k - 1] = <<>> THEN <<>> ELSE Front(To[k - 1])
  IN  To[Len(names)]

\* What a name becomes when the path it was joined to is converted: more than
\* one name, ".." perhaps among them, if it has a backslash.
Names == {Last(n) : n \in Nodes}
Split == [name \in Names |-> Components(Forward(name))]

\* path.Join of a directory and an entry of it, converted.
EntryPath(path, name) ==
  IF name \in {Dot, DotDot} THEN Clean(Append(path, name))
  ELSE Clean(path) \o Split[name]

\* What DirFS, rooted at dir, makes of a name; a root "" is refused with ".".
FSJoin(dir, name) ==
  IF name = Dot THEN Host(dir)
  ELSE LET names == Clean(Host(dir) \o Components(name))
       IN  FlattenSeq([k \in DOMAIN names |-> Components(Forward(names[k]))])

FSRefuses(r) ==
  ~ValidPath(r.name) \/ (r.name = Dot /\ ToUnixPath(r.path) = <<>>)

\* The path of every request, and where a rename leads.  C converts nothing,
\* but ws_mkdir_all takes a backslash for a slash after the first character.
Asked ==
  [r \in Requests |->
     IF r.op \in FSOps THEN IF FSRefuses(r) THEN <<>> ELSE FSJoin(r.path, r.name)
     ELSE IF r.op = "CreateTemp" /\ r.path = <<>> THEN <<<<"t", "m", "p">>>>
     ELSE IF r.op = "WsRemoveAll" \/ r.path = <<>> THEN Components(r.path)
     ELSE IF r.op = "WsMkdirAll"
     THEN Components(<<r.path[1]>> \o Forward(Tail(r.path)))
     ELSE Host(r.path)]

Destination == [r \in {r \in Requests : r.op \in Renames} |-> Host(r.to)]

\* The paths that ws_mkdir_all makes: what its buffer holds of the path, up
\* to each separator, and all of it.
WsParts ==
  [r \in {r \in Requests : r.op = "WsMkdirAll" /\ r.path # <<>>} |->
     LET buf == SubSeq(r.path, 1, Min({CMax, Len(r.path)}))
         seps == SetToSortSeq({k \in 2 .. Len(buf) : buf[k] \in Slashes}, <)
         ends == Append([k \in DOMAIN seps |-> seps[k] - 1], Len(buf))
     IN [k \in DOMAIN ends |->
           Components(<<buf[1]>> \o Forward(SubSeq(buf, 2, ends[k])))]]

\* What a wrapper passes to the kernel: an errno, or the node named.
Lookup(path) ==
  IF \A k \in 1 .. Len(path) : IsBytePtr(path[k]) THEN Walk(path)
  ELSE [err |-> EINVAL, node |-> <<>>]

\* Fstatat with and without following the last link: a kind or an errno.
Lstat(path) ==
  LET r == Lookup(path) IN
  IF r.err # 0 THEN [err |-> r.err, kind |-> "none"]
  ELSE [err |-> IF Kind(r.node) = "none" THEN ENOENT ELSE 0,
        kind |-> Kind(r.node)]

Stat(path) ==
  LET r == Lookup(path)
      n == Follow(r.node)
  IN IF r.err # 0 THEN [err |-> r.err, kind |-> "none"]
     ELSE [err |-> IF Kind(n) = "none" THEN ENOENT ELSE 0, kind |-> Kind(n)]

\* Mkdirat, Unlinkat and Unlinkat with AT_REMOVEDIR: an errno, or 0 and the
\* node that changes.
Mkdir(path) ==
  LET r == Lookup(path) IN
  IF r.err # 0 THEN r
  ELSE [r EXCEPT !.err = IF Kind(r.node) = "none" THEN 0 ELSE EEXIST]

Unlink(path) ==
  LET r == Lookup(path) IN
  IF r.err # 0 THEN r
  ELSE [r EXCEPT !.err = CASE Kind(r.node) = "none" -> ENOENT
                           [] Kind(r.node) = "dir" -> EISDIR
                           [] OTHER -> 0]

Rmdir(path) ==
  LET r == Lookup(path) IN
  IF r.err # 0 THEN r
  ELSE [r EXCEPT !.err = CASE Kind(r.node) = "none" -> ENOENT
                           [] Kind(r.node) \notin {"none", "dir"} -> ENOTDIR
                           [] Children(r.node) # {} -> ENOTEMPTY
                           [] OTHER -> IF r.node = <<>> THEN EBUSY ELSE 0]

\* Open(O_CREAT|O_EXCL) fails where Mkdir does, and does not follow a link.
OpenExcl(path) == Mkdir(path)

\* Renameat and Renameat2 of what is not a directory: the nodes that change.
Moved(from, to, noReplace) ==
  LET f == Lookup(from)
      t == Lookup(to)
  IN [err |-> IF f.err # 0 \/ t.err # 0 THEN Max({f.err, t.err})
              ELSE IF Kind(f.node) = "none" THEN ENOENT
              ELSE IF noReplace /\ Kind(t.node) # "none" THEN EEXIST ELSE 0,
      nodes |-> (f.node :> "none") @@ (t.node :> Kind(f.node))]
-----------------------------------------------------------------------------
Closed == [open |-> FALSE, node |-> <<>>, dead |-> FALSE, always |-> {},
           got |-> {}]

Dots == {Dot, DotDot}

\* The type invariant: the state has its type and the tree is one.
TypeOK ==
  /\ tree \in [Nodes -> Kinds]
  /\ \A n \in Nodes : tree[n] # "none" => Kind(Front(n)) = "dir"
  /\ req \in [Callers -> Requests]
  /\ at \in [Callers -> {"idle", "stat", "mkdir", "check", "lstat", "unlink",
                         "open", "getdents", "rmdir", "wsmkdir", "wsunlink",
                         "wsrmdir", "temp", "rename", "fsstat", "fsopen", "info",
                         "done"}]
  /\ tempFileCounter \in Nat
  /\ made \in [Callers -> Nat]
  /\ result \in [Callers -> {"none", "nil", "err"}]
  /\ \A c \in Callers :
       /\ reading[c].always \subseteq Names /\ reading[c].got \subseteq Names
       /\ reading[c].open <=> at[c] = "getdents"
       /\ \A k \in 1 .. Len(stack[c]) : stack[c][k].left \subseteq Names
       /\ listing[c] \subseteq Names \cup Dots
       /\ result[c] # "none" <=> at[c] = "done"

Init ==
  /\ tree \in Trees0
  /\ req \in [Callers -> Requests]
  /\ at = [c \in Callers |-> "idle"]
  /\ stack = [c \in Callers |-> <<>>]
  /\ made = [c \in Callers |-> 0]
  /\ reading = [c \in Callers |-> Closed]
  /\ result = [c \in Callers |-> "none"]
  /\ listing = [c \in Callers |-> {}]
  /\ tempFileCounter = 0
  /\ before = [c \in Callers |-> <<>>]
  /\ foreign = 0 /\ swapped = FALSE

\* Nodes change their kinds; the open directories notice.
SetNodes(kinds) ==
  LET gone == {n \in DOMAIN kinds : kinds[n] \in {"none", "link"}} IN
  /\ tree' = kinds @@ tree
  /\ reading' = [d \in Callers |->
       IF ~reading[d].open THEN reading[d]
       ELSE [reading[d] EXCEPT
               !.dead = @ \/ reading[d].node \in gone,
               !.always =
                 @ \ {Last(n) : n \in {n \in gone : Front(n) = reading[d].node}}]]

SetNode(n, k) == SetNodes(n :> k)

NoChange == UNCHANGED <<tree, reading>>

\* The change a call makes, if it succeeded.
Apply(r, k) == IF r.err = 0 THEN SetNode(r.node, k) ELSE NoChange

Goto(c, to) == at' = [at EXCEPT ![c] = to] /\ UNCHANGED result

Finish(c, e) ==
  /\ at' = [at EXCEPT ![c] = "done"]
  /\ result' = [result EXCEPT ![c] = IF e = 0 THEN "nil" ELSE "err"]

\* uPath is "" or "/" or ".", character by character.
Trivial(r) == ToUnixPath(r.path) \in {<<>>, <<Slash>>, Dot}

\* An operation begins.  For a trivial path MkdirAll has nothing to do and
\* RemoveAll refuses; the C functions have nothing to do for "".
Begin(c) ==
  LET r == req[c]
      op == r.op
  IN
  /\ at[c] = "idle"
  /\ \/ op = "MkdirAll" /\ Trivial(r) /\ Finish(c, 0)
     \/ op = "RemoveAll" /\ Trivial(r) /\ Finish(c, EINVAL)
     \/ op = "MkdirAll" /\ ~Trivial(r) /\ Goto(c, "stat")
     \/ op = "RemoveAll" /\ ~Trivial(r) /\ Goto(c, "lstat")
     \/ op \in FSOps /\ FSRefuses(r) /\ Finish(c, EINVAL)
     \/ op = "FSStat" /\ ~FSRefuses(r) /\ Goto(c, "fsstat")
     \/ op = "FSOpenReadDir" /\ ~FSRefuses(r) /\ Goto(c, "fsopen")
     \/ op = "FSReadDir" /\ ~FSRefuses(r) /\ Goto(c, "open")
     \/ op = "ReadDir" /\ Goto(c, "open")
     \/ op \in Renames /\ Goto(c, "rename")
     \/ op \in COps /\ r.path = <<>> /\ Finish(c, 0)
     \/ op = "WsMkdirAll" /\ r.path # <<>> /\ Goto(c, "wsmkdir")
     \/ op = "WsRemoveAll" /\ r.path # <<>> /\ Goto(c, "wsunlink")
  /\ stack' = [stack EXCEPT ![c] =
       IF op = "RemoveAll" THEN <<[path |-> Asked[r], left |-> {}]>> ELSE <<>>]
  /\ NoChange
  /\ UNCHANGED <<made, listing>>
-----------------------------------------------------------------------------
(* MkdirAll and ws_mkdir_all. *)

Parts(c) == Asked[req[c]]

\* The path of the first k parts.
Current(c, k) == SubSeq(Parts(c), 1, k)

\* The first Stat of MkdirAll.
StatWhole(c) ==
  LET s == Stat(Parts(c)) IN
  /\ at[c] = "stat"
  /\ CASE s.err # 0 -> Goto(c, "mkdir")
       [] s.kind = "dir" -> Finish(c, 0)
       [] OTHER -> Finish(c, ENOTDIR)
  /\ NoChange
  /\ UNCHANGED <<stack, made, listing>>

\* The loop goes on to the next part or ends.
Advance(c) ==
  /\ made' = [made EXCEPT ![c] = @ + 1]
  /\ IF made'[c] = Len(Parts(c)) THEN Finish(c, 0) ELSE Goto(c, "mkdir")

MkdirPart(c) ==
  LET r == Mkdir(Current(c, made[c] + 1)) IN
  /\ at[c] = "mkdir"
  /\ IF r.err = 0 \/ Is(r.err, WinEEXIST) \/ Is(r.err, WinEISDIR)
     THEN Advance(c)
     ELSE Goto(c, "check") /\ UNCHANGED made
  /\ Apply(r, "dir")
  /\ UNCHANGED <<stack, listing>>

\* Slip: anything that is there will do.
CheckPart_AnyKind(c) ==
  /\ at[c] = "check"
  /\ IF Stat(Current(c, made[c] + 1)).err = 0
     THEN Advance(c)
     ELSE Finish(c, EEXIST) /\ UNCHANGED made
  /\ NoChange
  /\ UNCHANGED <<stack, listing>>

\* Mkdir failed: there may be a directory all the same.
CheckPart(c) ==
  /\ at[c] = "check"
  /\ IF Stat(Current(c, made[c] + 1)).kind = "dir"
     THEN Advance(c)
     ELSE Finish(c, EEXIST) /\ UNCHANGED made
  /\ NoChange
  /\ UNCHANGED <<stack, listing>>

\* ws_mkdir_all ignores every answer but the last.
WsMkdirPart(c) ==
  LET parts == WsParts[req[c]]
      r == Mkdir(parts[made[c] + 1])
  IN
  /\ at[c] = "wsmkdir"
  /\ made' = [made EXCEPT ![c] = @ + 1]
  /\ IF made'[c] = Len(parts) THEN Finish(c, r.err) ELSE Goto(c, "wsmkdir")
  /\ Apply(r, "dir")
  /\ UNCHANGED <<stack, listing>>
-----------------------------------------------------------------------------
(* RemoveAll and ws_remove_all. *)

Top(c) == Last(stack[c])

\* The loop over the entries: st is the stack with the frame that loops on
\* top.  It calls RemoveAll for an entry or ends.
NextChild(c, st) ==
  LET f == Last(st) IN
  IF f.left = {} THEN Goto(c, "rmdir") /\ stack' = [stack EXCEPT ![c] = st]
  ELSE /\ Goto(c, "lstat")
       /\ \E name \in f.left :
            stack' = [stack EXCEPT ![c] =
              Append([st EXCEPT ![Len(st)].left = @ \ {name}],
                     [path |-> EntryPath(f.path, name), left |-> {}])]

\* The frame on top returns e.  Its caller goes on when the child was
\* removed, or was gone; else the error is returned through every frame.
ReturnFrame(c, e) ==
  IF Len(stack[c]) = 1 \/ (e # 0 /\ ~Is(e, WinENOENT))
  THEN Finish(c, e) /\ stack' = [stack EXCEPT ![c] = <<>>]
  ELSE NextChild(c, Front(stack[c]))

\* Slip: Stat instead of Lstat.
LstatTop_Follows(c) ==
  LET s == Stat(Top(c).path) IN
  /\ at[c] = "lstat"
  /\ CASE Is(s.err, WinENOENT) -> ReturnFrame(c, 0)
       [] s.err # 0 /\ ~Is(s.err, WinENOENT) -> ReturnFrame(c, s.err)
       [] s.err = 0 -> /\ Goto(c, IF s.kind = "dir" THEN "open" ELSE "unlink")
                       /\ UNCHANGED stack
  /\ NoChange
  /\ UNCHANGED <<made, listing>>

LstatTop(c) ==
  LET s == Lstat(Top(c).path) IN
  /\ at[c] = "lstat"
  /\ CASE Is(s.err, WinENOENT) -> ReturnFrame(c, 0)
       [] s.err # 0 /\ ~Is(s.err, WinENOENT) -> ReturnFrame(c, s.err)
       [] s.err = 0 -> /\ Goto(c, IF s.kind = "dir" THEN "open" ELSE "unlink")
                       /\ UNCHANGED stack
  /\ NoChange
  /\ UNCHANGED <<made, listing>>

UnlinkTop(c) ==
  LET r == Unlink(Top(c).path) IN
  /\ at[c] = "unlink"
  /\ ReturnFrame(c, r.err)
  /\ Apply(r, "none")
  /\ UNCHANGED <<made, listing>>

RmdirTop(c) ==
  LET r == Rmdir(Top(c).path) IN
  /\ at[c] = "rmdir"
  /\ ReturnFrame(c, r.err)
  /\ Apply(r, "none")
  /\ UNCHANGED <<made, listing>>

WsUnlink(c) ==
  LET r == Unlink(Asked[req[c]]) IN
  /\ at[c] = "wsunlink"
  /\ IF r.err = 0 THEN Finish(c, 0) ELSE Goto(c, "wsrmdir")
  /\ Apply(r, "none")
  /\ UNCHANGED <<stack, made, listing>>

WsRmdir(c) ==
  LET r == Rmdir(Asked[req[c]]) IN
  /\ at[c] = "wsrmdir"
  /\ Finish(c, r.err)
  /\ Apply(r, "none")
  /\ UNCHANGED <<stack, made, listing>>
-----------------------------------------------------------------------------
(* ReadDir, called for itself or by RemoveAll, which then ignores errors. *)

Lists(c) == req[c].op \in Listers

DirPath(c) == IF Lists(c) THEN Asked[req[c]] ELSE Top(c).path

ReadDirFails(c, e) ==
  /\ IF Lists(c) THEN Finish(c, e) ELSE Goto(c, "rmdir")
  /\ reading' = [reading EXCEPT ![c] = Closed]
  /\ UNCHANGED <<tree, stack, listing>>

\* Open(O_RDONLY|O_DIRECTORY).
OpenDir(c) ==
  LET r == Lookup(DirPath(c))
      n == Follow(r.node)
  IN
  /\ at[c] = "open"
  /\ IF r.err # 0 \/ Kind(n) # "dir"
     THEN ReadDirFails(c, IF r.err # 0 THEN r.err ELSE ENOTDIR)
     ELSE /\ Goto(c, "getdents")
          /\ reading' = [reading EXCEPT ![c] =
               [open |-> TRUE, node |-> n, dead |-> FALSE,
                always |-> Children(n), got |-> {}]]
          /\ UNCHANGED <<tree, stack, listing>>
  /\ UNCHANGED made

\* getdents64 returns entries it has not returned before, here one: more at a
\* time is several of these steps with nothing between them.  It may miss
\* those that came after the directory was opened.
GetdentsSome(c) ==
  /\ at[c] = "getdents" /\ ~reading[c].dead
  /\ \E name \in Children(reading[c].node) \ reading[c].got :
       reading' = [reading EXCEPT ![c].got = @ \cup {name}]
  /\ UNCHANGED <<tree, at, stack, made, result, listing>>

\* openDirFile.ReadDir(1) keeps the first of the entries, every time.
Kept(c, entries) ==
  IF req[c].op = "FSOpenReadDir" THEN {{name} : name \in entries}
  ELSE {entries}

\* The caller has the entries; one that got them from DirFS goes on to the
\* Info of one.
Listed(c) == IF req[c].op = "FSReadDir" THEN Goto(c, "info") ELSE Finish(c, 0)

\* ReadDir returns the entries it has, "." and ".." among them, which
\* RemoveAll leaves out.
ReadDirReturns(c) ==
  LET entries == reading[c].got \cup Dots IN
  /\ reading' = [reading EXCEPT ![c] = Closed]
  /\ IF Lists(c)
     THEN /\ Listed(c)
          /\ \E got \in Kept(c, entries) :
               listing' = [listing EXCEPT ![c] = got]
          /\ UNCHANGED stack
     ELSE /\ NextChild(c, [stack[c] EXCEPT ![Len(stack[c])].left =
                             entries \ Dots])
          /\ UNCHANGED listing
  /\ UNCHANGED <<tree, made>>

\* Slip: the first part of the entries is taken for all of them.
GetdentsEnd_Early(c) ==
  /\ at[c] = "getdents" /\ ~reading[c].dead
  /\ reading[c].got # {} \/ reading[c].always = {}
  /\ ReadDirReturns(c)

\* It returns 0 when none is left.
GetdentsEnd(c) ==
  /\ at[c] = "getdents" /\ ~reading[c].dead
  /\ reading[c].always \subseteq reading[c].got
  /\ ReadDirReturns(c)

\* The directory was removed while it is open.
GetdentsDead(c) ==
  /\ at[c] = "getdents" /\ reading[c].dead
  /\ ReadDirFails(c, ENOENT)
  /\ UNCHANGED made

\* Open or getdents64 fails for want of a resource.
ReadDirFault(c) ==
  /\ at[c] \in {"open", "getdents"}
  /\ ReadDirFails(c, EMFILE)
  /\ UNCHANGED made
-----------------------------------------------------------------------------
(* DirFS: Stat, Open before openDirFile.ReadDir, which opens the path anew,  *)
(* and the Info of an entry that its ReadDir returned.                       *)

FSStat(c) ==
  /\ at[c] = "fsstat"
  /\ Finish(c, Stat(Asked[req[c]]).err)
  /\ NoChange
  /\ UNCHANGED <<stack, made, listing>>

FSOpen(c) ==
  LET s == Stat(Asked[req[c]]) IN
  /\ at[c] = "fsopen"
  /\ IF s.err = 0 THEN Goto(c, "open") ELSE Finish(c, s.err)
  /\ NoChange
  /\ UNCHANGED <<stack, made, listing>>

Info(c) ==
  /\ at[c] = "info"
  /\ \E name \in listing[c] :
       /\ Finish(c, Lstat(EntryPath(Asked[req[c]], name)).err)
       /\ listing' = [listing EXCEPT ![c] = {name}]
  /\ NoChange
  /\ UNCHANGED <<stack, made>>
-----------------------------------------------------------------------------
(* Rename and RenameNoReplace are one call of the kernel. *)

RenameCall(c) ==
  LET r == Moved(Asked[req[c]], Destination[req[c]],
                 req[c].op = "RenameNoReplace")
  IN
  /\ at[c] = "rename"
  /\ Finish(c, r.err)
  /\ IF r.err = 0 THEN SetNodes(r.nodes) ELSE NoChange
  /\ UNCHANGED <<stack, made, listing>>
-----------------------------------------------------------------------------
(* CreateTemp: a number of its own for every name, and O_EXCL. *)

\* The next turn of the loop: the name has the time too, which may be the
\* same for another process.
NextTemp(c) ==
  /\ tempFileCounter' = tempFileCounter + 1
  /\ stack' = [stack EXCEPT ![c] =
       <<[path |-> EntryPath(Asked[req[c]], TempNames[tempFileCounter']),
          left |-> {}]>>]
  /\ Goto(c, "temp")

BeginTemp(c) ==
  /\ at[c] = "idle" /\ req[c].op = "CreateTemp"
  /\ NextTemp(c)
  /\ NoChange
  /\ UNCHANGED <<made, listing>>

OpenTemp(c) ==
  LET r == OpenExcl(Top(c).path) IN
  /\ at[c] = "temp"
  /\ made' = [made EXCEPT ![c] = @ + 1]
  /\ IF Is(r.err, WinEEXIST) /\ made'[c] < MaxTries
     THEN NextTemp(c)
     ELSE Finish(c, r.err) /\ UNCHANGED <<stack, tempFileCounter>>
  /\ Apply(r, "file")
  /\ UNCHANGED listing

TempCall(c) == BeginTemp(c) \/ OpenTemp(c)
-----------------------------------------------------------------------------
Call(c) ==
  \/ Begin(c) \/ StatWhole(c) \/ MkdirPart(c) \/ CheckPart(c)
  \/ WsMkdirPart(c) \/ LstatTop(c) \/ UnlinkTop(c) \/ RmdirTop(c)
  \/ WsUnlink(c) \/ WsRmdir(c)
  \/ OpenDir(c) \/ GetdentsSome(c) \/ GetdentsEnd(c) \/ GetdentsDead(c)
  \/ FSStat(c) \/ FSOpen(c) \/ Info(c) \/ RenameCall(c)

Running(d) == at[d] \notin {"idle", "done"}

\* The history after a step of the callers in S, or of none.
History(S) ==
  before' = [d \in Callers |->
    CASE at'[d] \in {"idle", "done"} -> <<>>
      [] ~Running(d) /\ at'[d] \notin {"idle", "done"} -> <<tree>>
      [] OTHER -> IF d \notin S /\ tree' # tree THEN <<>> ELSE before[d]]

CallerSteps(c) ==
  /\ TempCall(c) \/ (Call(c) /\ UNCHANGED tempFileCounter)
  /\ History({c})
  /\ UNCHANGED <<req, foreign, swapped>>

CallerFaults(c) ==
  /\ ReadDirFault(c)
  /\ before' = [before EXCEPT ![c] = <<>>]
  /\ UNCHANGED <<req, tempFileCounter, foreign, swapped>>

Beneath(n) == {m \in Nodes : IsPrefix(n, m)}
Above(n) == {m \in Nodes : IsPrefix(m, n)}

\* Another process creates a file, removes one, or removes a directory with
\* all that is in it and makes a link of the same name.
Foreign ==
  /\ foreign < MaxForeign
  /\ foreign' = foreign + 1
  /\ \/ \E n \in Loose :
          /\ \/ Kind(n) = "none" /\ Kind(Front(n)) = "dir" /\ SetNode(n, "file")
             \/ Kind(n) = "file" /\ SetNode(n, "none")
          /\ UNCHANGED swapped
     \/ \E n \in Swappable :
          /\ Kind(n) = "dir"
          /\ SetNodes([m \in Beneath(n) |-> IF m = n THEN "link" ELSE "none"])
          /\ swapped' = TRUE
  /\ UNCHANGED <<req, at, stack, made, result, listing, tempFileCounter>>
  /\ History({})

Finished == \A c \in Callers : at[c] = "done"

Next ==
  \/ \E c \in Callers : CallerSteps(c) \/ CallerFaults(c)
  \/ Foreign
  \/ Finished /\ UNCHANGED vars

Spec == Init /\ [][Next]_vars
-----------------------------------------------------------------------------
(* Properties. *)

Returns(c) == result[c] = "none" /\ result'[c] # "none"

\* ws_mkdir_all makes another directory of a path that is longer.
Fits(r) == Len(r.path) <= CMax

\* The reference's own view of a tree t: where a path leads, and what is there
\* when a link is followed.
Exists(t, n) == n \in DOMAIN t /\ t[n] # "none"
Seen(t, n) ==
  IF n = <<>> THEN "dir"
  ELSE IF ~Exists(t, n) THEN "none"
  ELSE IF t[n] = "link" THEN t[LinkTo] ELSE t[n]
Real(t, n) ==
  LET links == {k \in 1 .. Len(n) - 1 :
                  SubSeq(n, 1, k) \in Nodes /\ t[SubSeq(n, 1, k)] = "link"}
  IN IF links = {} THEN n ELSE LinkTo \o SubSeq(n, Min(links) + 1, Len(n))

\* Whatever the other callers and processes do meanwhile, a success was true
\* when it was returned: the path given leads to a directory where MkdirAll
\* or ws_mkdir_all made one, to nothing where RemoveAll or ws_remove_all
\* removed, and to a file that was not there before where CreateTemp opened
\* one (vfs_ops.go:58-137, 202-225, fs.c:204-223).  Not so for a path that
\* ws_mkdir_all cuts off at 1023 bytes (fs.c:206-208).
AnswerWasTrue ==
  [][\A c \in Callers :
       LET r == req[c]
           u == Asked[r]
       IN
       Returns(c) /\ result'[c] = "nil" /\ r.path # <<>> =>
         CASE r.op \in {"MkdirAll", "WsMkdirAll"} ->
                (r.op = "WsMkdirAll" => Fits(r)) => Seen(tree', Real(tree', u)) = "dir"
           [] r.op \in {"RemoveAll", "WsRemoveAll"} ->
                u # <<>> /\ ~Exists(tree', Real(tree', u))
           [] r.op = "CreateTemp" ->
                LET n == Real(tree, Top(c).path)
                IN  ~Exists(tree, n) /\ Exists(tree', n) /\ tree'[n] = "file"
           [] OTHER -> TRUE]_vars

\* What may be gone when the call has returned.
MayLose(r) ==
  CASE r.op \in {"RemoveAll", "WsRemoveAll"} -> Beneath(Asked[r])
    [] r.op = "Rename" -> {Asked[r], Destination[r]}
    [] r.op = "RenameNoReplace" -> {Asked[r]}
    [] OTHER -> {}

Stepped(c) == <<at[c], stack[c], made[c]>>' # <<at[c], stack[c], made[c]>>

\* The entries of the tree t beneath n whose names hold a backslash.
Backslashed(t, n) ==
  {m \in Beneath(n) : t[m] # "none" /\ Contains(Last(m), Backslash)}

\* RemoveAll can leave the tree it was given: over a name with a backslash,
\* which it takes for several names, through a link or up from the directory
\* (vfs_ops.go:129), and over a link that another process puts where it saw a
\* directory, which ReadDir's open follows (vfs_ops.go:112,123).
MayStray(c) ==
  /\ req[c].op = "RemoveAll"
  /\ swapped \/ Backslashed(tree, Asked[req[c]]) # {}

\* Whatever the others do meanwhile, a call removes or replaces nothing but
\* what it was asked to: RemoveAll, but for the two cases of MayStray, nothing
\* outside the tree it was given, not even by way of a link in it
\* (vfs_ops.go:112-121), RenameNoReplace no destination that came up at the
\* last moment (fs.go:605-628), MkdirAll and CreateTemp nothing at all
\* (vfs_ops.go:58-97, 216).
OnlyNamedIsLost ==
  [][\A c \in Callers : Stepped(c) /\ ~MayStray(c) =>
       \A n \in Nodes \ MayLose(req[c]) :
         tree[n] # "none" => tree'[n] = tree[n]]_vars

\* The entries of a directory, or of the one that a link leads to.
Entries(t, n) ==
  LET d == IF Exists(t, n) /\ t[n] = "link" THEN LinkTo ELSE n
  IN  {Last(m) : m \in {m \in Nodes : Front(m) = d /\ t[m] # "none"}}

WithDirs(t, n) ==
  [m \in Nodes |-> IF m \in Above(n) /\ t[m] = "none" THEN "dir" ELSE t[m]]

Without(t, n) == [m \in Nodes |-> IF m \in Beneath(n) THEN "none" ELSE t[m]]

\* Something that is no directory, a link that leads nowhere perhaps, is where
\* one has to be.
Blocked(t, path) ==
  \E m \in Above(path) \cup Above(Real(t, path)) :
    t[m] # "none" /\ Seen(t, m) # "dir"

\* The calls for which the code is known not to do what the reference says: a
\* name with a backslash is not the name of its entry once it is converted
\* again (vfs_ops.go:129, dirfs.go:60), the root is not recognised behind a
\* second slash (vfs_ops.go:107), a path is cut off (fs.c:207), and a name
\* that is taken is not tried again, since no errno of the host equals
\* syscall.EEXIST (vfs_ops.go:220).
Excepted(c, t) ==
  LET r == req[c]
      n == Asked[r]
  IN
  \/ r.op \in {"RemoveAll", "FSReadDir"} /\ Backslashed(t, n) # {}
  \/ r.op = "RemoveAll" /\ n = <<>> /\ ~Trivial(r)
  \/ r.op = "WsMkdirAll" /\ ~Fits(r)
  \/ r.op = "CreateTemp" /\ \E name \in Range(TempNames) :
                               Exists(t, Append(n, name))

\* The reference: what a call that nobody disturbs has to answer, and the
\* tree it has to leave, from the tree t it finds.
Expected(c, t, ok, after) ==
  LET r == req[c]
      u == Asked[r]
      n == Real(t, u)
  IN
  CASE r.op \in COps /\ r.path = <<>> -> ok /\ after = t
    [] r.op = "MkdirAll" ->
         /\ ok = (~Blocked(t, u) /\ IsBytePtr(r.path))
         /\ after = IF Blocked(t, u) THEN t ELSE WithDirs(t, n)
    [] r.op = "WsMkdirAll" /\ r.path # <<>> ->
         /\ ok = (~Blocked(t, u) /\ Seen(t, n) = "none")
         /\ after = IF Blocked(t, u) THEN t ELSE WithDirs(t, n)
    [] r.op = "RemoveAll" ->
         /\ ok = (u # <<>> /\ \A m \in Above(Real(t, Front(u))) : Seen(t, m) # "file")
         /\ after = IF ok THEN Without(t, n) ELSE t
    [] r.op = "WsRemoveAll" /\ r.path # <<>> ->
         /\ ok = (Exists(t, n) /\ \A m \in Beneath(n) \ {n} : ~Exists(t, m))
         /\ after = IF ok THEN Without(t, n) ELSE t
    [] r.op = "ReadDir" ->
         /\ ok = (Seen(t, n) = "dir") /\ after = t
         /\ ok => listing'[c] = Entries(t, n) \cup Dots
    [] r.op \in FSOps /\ FSRefuses(r) -> ~ok /\ after = t
    [] r.op = "FSStat" /\ ~FSRefuses(r) ->
         ok = (Seen(t, n) # "none") /\ after = t
    [] r.op = "FSOpenReadDir" /\ ~FSRefuses(r) ->
         /\ ok = (Seen(t, n) = "dir") /\ after = t
         /\ ok => \E name \in Entries(t, n) \cup Dots : listing'[c] = {name}
    [] r.op = "FSReadDir" /\ ~FSRefuses(r) ->
         ok = (Seen(t, n) = "dir") /\ after = t
    [] r.op = "CreateTemp" ->
         /\ ok = (Seen(t, n) = "dir")
         /\ ok => \E name \in Range(TempNames) :
                    after = [t EXCEPT ![Append(n, name)] = "file"]
         /\ ~ok => after = t
    [] r.op \in Renames ->
         /\ ok = /\ Exists(t, n)
                 /\ r.op = "RenameNoReplace" => ~Exists(t, Destination[r])
         /\ after = IF ok THEN [t EXCEPT ![n] = "none", ![Destination[r]] = t[n]]
                    ELSE t

\* The tree that the call found, if nobody has disturbed it since.
Found(c) == IF at[c] = "idle" THEN <<tree>> ELSE before[c]

\* A call that nobody disturbs does what the reference says, whichever way
\* its path is spelled, but for the calls of Excepted: MkdirAll and RemoveAll
\* succeed wherever they can and change nothing else, and the root is refused
\* (vfs_ops.go:58-137); the C functions do so too, except that ws_mkdir_all
\* fails when the directory is there and ws_remove_all when one has entries
\* (fs.c:204-223); a listing is the directory's (fs.go:230-254).
UndisturbedAsExpected ==
  [][\A c \in Callers :
       Returns(c) /\ Found(c) # <<>> /\ ~CallerFaults(c) =>
         \/ Excepted(c, Found(c)[1])
         \/ Expected(c, Found(c)[1], result'[c] = "nil", tree')]_vars
=============================================================================
