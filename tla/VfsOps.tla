------------------------------- MODULE VfsOps -------------------------------
(***************************************************************************)
(* ReadFile, WriteFile and CopyFile of go/vfs_ops.go, Truncate of          *)
(* go/fs.go, ReadFile of go/dirfs.go, HostEnviron of go/environ.go and     *)
(* ws_copy_file of c/src/fs.c, the parsing of directory entries and of     *)
(* inotify events, with the operations of Handles and Sessions: one        *)
(* operation, the kernel's partial and failing answers to each of its      *)
(* calls, and another process that appends to the source meanwhile.        *)
(*                                                                         *)
(* A file is a sequence of blocks; the source's k-th block is k.  Reads    *)
(* and writes transfer some of what was asked for.  EINTR is retried below *)
(* the Go operations and is not seen here; in C it is one more failure.    *)
(***************************************************************************)
EXTENDS Naturals, Sequences, Records, Sessions

CONSTANTS
  Chunk,     \* blocks of the buffer of the loops
  Appends    \* another process may append to the source

ASSUME VfsOpsAssumption ==
  MaxLen \in Nat \ {0} /\ Chunk \in Nat \ {0} /\ Appends \in BOOLEAN

VARIABLES
  sized,    \* the file system reports its size (not so under /proc)
  dst,      \* the destination
  total,    \* st.Size
  had,      \* blocks in the source when Fstat, or else open, looked at it
  srcOff,   \* offset of the source's descriptor
  dstOff    \* offset of the destination's descriptor

files == <<src, sized, dst>>
offsets == <<sized, dst, total, had, srcOff, dstOff>>
data == <<src, buf, offsets>>
session == <<child, hungUp>>
vars == <<handleVars, sessionVars, offsets>>

Readers == {"ReadFile", "DirFSReadFile"}
Copiers == {"CopyFile", "WsCopyFile"}
FileOps == Readers \cup Copiers \cup {"WriteFile", "Truncate", "HostEnviron"}
Parsers == {"ReadDir", "Inotify"}
Ops == FileOps \cup Parsers \cup HandleOps \cup SessionOps

Blocks == 1 .. MaxLen
Zero == 0                  \* a block of a file that Ftruncate made longer

FilePcs == {"stat", "openSrc", "fstat", "openDst", "openTrunc", "ftruncate",
            "range", "seekSrc", "seekDst", "read", "write", "loop",
            "readEnviron", "getdents", "events"}

\* The type invariant.
TypeOK ==
  /\ op \in Ops
  /\ pc \in FilePcs \cup HandlePcs \cup SessionPcs \cup {"done"}
  /\ child \in {"none", "runs", "exited", "reaped"} /\ hungUp \in BOOLEAN
  /\ src \in Seq(Blocks) /\ dst \in Seq(Blocks \cup {Zero})
  /\ buf \in Seq(Blocks)
  /\ sized \in BOOLEAN
  /\ open \in SUBSET (HandleFds \cup {"src", "dst", "r", "w"})
  /\ total \in 0 .. MaxLen /\ had \in 0 .. MaxLen
  /\ srcOff \in 0 .. MaxLen
  /\ dstOff \in 0 .. MaxLen
  /\ result \in {"none", "nil", "err"}
  /\ result # "none" <=> pc = "done"

Begin ==
  CASE op = "WriteFile" -> "openDst"
    [] op = "Truncate" -> "openTrunc"
    [] op = "DirFSReadFile" -> "stat"
    [] op = "PipeSession" -> "pipe2"
    [] op \in HandleOps \cup PtySessions -> FirstCall
    [] OTHER -> "openSrc"

Init ==
  /\ op \in Ops
  /\ pc = Begin
  /\ \E k \in 0 .. MaxLen : src = Upto(IF op \in SessionOps THEN 0 ELSE k)
  /\ child = "none" /\ hungUp = FALSE
  /\ sized \in IF op \in Readers \cup {"CopyFile"} THEN BOOLEAN ELSE {TRUE}
  /\ dst \in {<<>>, <<1>>}
  /\ open = {}
  /\ total = 0 /\ had = 0 /\ srcOff = 0 /\ dstOff = 0
  /\ buf = <<>>
  /\ result = "none"

\* Another process appends a block.
Append1 ==
  /\ Appends
  /\ op \in Readers \cup Copiers \cup Parsers \cup {"HostEnviron"}
  /\ Len(src) < MaxLen
  /\ src' = Upto(Len(src) + 1)
  /\ UNCHANGED <<handleVars, sized, dst, total, had, srcOff, dstOff, buf, session>>
-----------------------------------------------------------------------------
\* A return runs the deferred Closes; ws_copy_file closes both by hand.
Return(r) == Done(r) /\ open' = {}

\* Any call can fail; every failure but CopyFileRange's is returned.
Fails ==
  /\ pc \in FilePcs \ {"range", "loop"}
  /\ Return("err")
  /\ UNCHANGED <<op, data, session>>

\* os.Stat by name: the file that is opened next may have grown.
StatPath ==
  /\ pc = "stat"
  /\ total' = IF sized THEN Len(src) ELSE 0
  /\ Go("openSrc")
  /\ UNCHANGED <<op, files, open, had, srcOff, dstOff, buf, session>>

OpenSrc ==
  /\ pc = "openSrc"
  /\ open' = open \cup {"src"}
  /\ had' = Len(src)
  /\ Go(CASE op = "DirFSReadFile" -> "read"
          [] op = "WsCopyFile" -> "openDst"
          [] op = "HostEnviron" -> "readEnviron"
          [] op = "ReadDir" -> "getdents"
          [] op = "Inotify" -> "events"
          [] OTHER -> "fstat")
  /\ UNCHANGED <<op, files, total, srcOff, dstOff, buf, session>>

Fstat ==
  /\ pc = "fstat"
  /\ total' = IF sized THEN Len(src) ELSE 0
  /\ had' = Len(src)
  /\ Go(IF op = "ReadFile" THEN "read" ELSE "openDst")
  /\ UNCHANGED <<op, files, open, srcOff, dstOff, buf, session>>

\* Open(O_WRONLY|O_CREAT|O_TRUNC); with nothing to transfer that is all in
\* Go, where C reads on.
OpenDst ==
  /\ pc = "openDst"
  /\ dst' = <<>>
  /\ \/ /\ op = "WriteFile" /\ src # <<>>
        /\ Go("write")
        /\ open' = {"dst"}
     \/ /\ op = "CopyFile" /\ total > 0
        /\ Go("range")
        /\ open' = open \cup {"dst"}
     \/ /\ op = "WsCopyFile"
        /\ Go("loop")
        /\ open' = open \cup {"dst"}
     \/ /\ \/ op = "WriteFile" /\ src = <<>>
           \/ op = "CopyFile" /\ total = 0
        /\ Return("nil")
  /\ buf' = IF op = "WriteFile" THEN src ELSE buf
  /\ UNCHANGED <<op, src, sized, total, had, srcOff, dstOff, session>>

\* Open(O_WRONLY) alone keeps what is there.
OpenTrunc ==
  /\ pc = "openTrunc"
  /\ open' = {"dst"}
  /\ Go("ftruncate")
  /\ UNCHANGED <<op, data, session>>

Ftruncate ==
  /\ pc = "ftruncate"
  /\ \E k \in 0 .. MaxLen :
       dst' = [b \in 1 .. k |-> IF b <= Len(dst) THEN dst[b] ELSE Zero]
  /\ Return("nil")
  /\ UNCHANGED <<op, src, sized, total, had, srcOff, dstOff, buf, session>>

\* What the destination is after s was written at its offset.
WriteAt(s) ==
  SubSeq(dst, 1, dstOff) \o s
    \o SubSeq(dst, dstOff + Len(s) + 1, Len(dst))

\* Slip: a short copy_file_range is taken for the whole.
CopyFileRange_AnyCount ==
  /\ pc = "range"
  /\ \E k \in 0 .. total :
       /\ k <= Len(src)
       /\ dst' = WriteAt(SubSeq(src, 1, k))
       /\ srcOff' = k /\ dstOff' = k
       /\ Return("nil")
  /\ UNCHANGED <<op, src, sized, total, had, buf, session>>

\* copied == totalSize is the end; an error or a smaller count is the
\* beginning of the fallback.
CopyFileRange ==
  /\ pc = "range"
  /\ \E k \in 0 .. total :
       /\ k <= Len(src)
       /\ dst' = WriteAt(SubSeq(src, 1, k))
       /\ srcOff' = k /\ dstOff' = k
       /\ IF k = total THEN Return("nil") ELSE Go("seekSrc") /\ UNCHANGED open
  /\ UNCHANGED <<op, src, sized, total, had, buf, session>>

SeekSrc ==
  /\ pc = "seekSrc"
  /\ srcOff' = 0
  /\ Go("seekDst")
  /\ UNCHANGED <<op, files, open, total, had, dstOff, buf, session>>

\* Slip: the destination is not rewound.
SeekDst_Not ==
  /\ pc = "seekDst"
  /\ Go("read")
  /\ UNCHANGED <<op, files, open, total, had, srcOff, dstOff, buf, session>>

SeekDst ==
  /\ pc = "seekDst"
  /\ dstOff' = 0
  /\ Go("read")
  /\ UNCHANGED <<op, files, open, total, had, srcOff, buf, session>>

\* What one read into a buffer of the given size may get: nothing at end of
\* file, which is (0, nil) and not io.EOF, else at least one block.
ReadInto(size) ==
  LET most == Min({size, Len(src) - srcOff}) IN
  {SubSeq(src, srcOff + 1, srcOff + k) :
     k \in (IF most = 0 THEN 0 ELSE 1) .. most}

\* Both ReadFiles make one Read and return what it got; the copies write what
\* they got.  With nothing, ws_copy_file ends and CopyFile reads again.
Read ==
  /\ pc = "read"
  /\ buf' \in ReadInto(IF op \in Readers THEN total ELSE Chunk)
  /\ srcOff' = srcOff + Len(buf')
  /\ CASE op \in Readers -> Return("nil")
       [] op = "WsCopyFile" /\ buf' = <<>> -> Return("nil")
       [] OTHER -> /\ Go(IF buf' # <<>> THEN "write" ELSE "loop")
                   /\ UNCHANGED open
  /\ UNCHANGED <<op, files, total, had, dstOff, session>>

\* HostEnviron collects what it reads until it reads nothing.
ReadEnviron ==
  /\ pc = "readEnviron"
  /\ \E piece \in ReadInto(Chunk) :
       /\ buf' = buf \o piece
       /\ srcOff' = srcOff + Len(piece)
       /\ IF piece = <<>> THEN Return("nil")
                         ELSE Go("readEnviron") /\ UNCHANGED open
  /\ UNCHANGED <<op, files, total, had, dstOff, session>>

\* The names in a buffer that getdents64 filled with some entries, the first
\* after a removed one perhaps; a name that is none of them is taken as 0.
EntryOf(name) == IF name # <<>> /\ name = Cells(Len(name), Len(name)) THEN Len(name) ELSE 0

Dirents(piece, removed) ==
  LET cells == (IF removed THEN DirentRecord(1, 0) ELSE <<>>) \o
               Buffer([k \in 1 .. Len(piece) |-> DirentRecord(piece[k], 1)])
      names == ParseDirent64(cells)
  IN  [k \in 1 .. Len(names) |-> EntryOf(names[k])]

\* ReadDir: Getdents64 and ParseDirent64 until nothing comes.
Getdents ==
  /\ pc = "getdents"
  /\ \E piece \in ReadInto(Chunk), removed \in BOOLEAN :
       /\ buf' = buf \o Dirents(piece, removed)
       /\ srcOff' = srcOff + Len(piece)
       /\ IF piece = <<>> THEN Return("nil")
                         ELSE Go("getdents") /\ UNCHANGED open
  /\ UNCHANGED <<op, files, total, had, dstOff, session>>

\* One Read of an inotify descriptor, which holds whole events.
Events(piece) ==
  LET events == ParseInotifyEvents(
                  Buffer([k \in 1 .. Len(piece) |-> EventRecord(piece[k])]))
  IN  [k \in 1 .. Len(events) |->
         IF events[k].wd = 1 /\ events[k].name = <<>> THEN 1
         ELSE IF EntryOf(events[k].name) = events[k].wd THEN events[k].wd
         ELSE 0]

ReadEvents ==
  /\ pc = "events"
  /\ \E piece \in ReadInto(MaxLen) :
       /\ buf' = Events(piece)
       /\ srcOff' = srcOff + Len(piece)
  /\ Return("nil")
  /\ UNCHANGED <<op, files, total, had, dstOff, session>>

\* WriteFile ignores the count; for the copies a short write is an error.
Write ==
  /\ pc = "write"
  /\ \E k \in 1 .. Len(buf) :
       /\ dst' = WriteAt(SubSeq(buf, 1, k))
       /\ dstOff' = dstOff + k
       /\ \/ op = "WriteFile" /\ Return("nil")
          \/ op \in Copiers /\ k < Len(buf) /\ Return("err")
          \/ op \in Copiers /\ k = Len(buf) /\ Go("loop") /\ UNCHANGED open
  /\ UNCHANGED <<op, src, sized, total, had, srcOff, buf, session>>

\* errRead is nil here, so the loop goes round.
Loop ==
  /\ pc = "loop"
  /\ Go("read")
  /\ UNCHANGED <<op, open, data, session>>

Proceed ==
  \/ StatPath \/ OpenSrc \/ Fstat \/ OpenDst \/ OpenTrunc \/ Ftruncate
  \/ CopyFileRange \/ SeekSrc \/ SeekDst \/ Read \/ Write \/ Loop
  \/ ReadEnviron \/ Getdents \/ ReadEvents
  \/ HandleProceeds /\ UNCHANGED <<sessionVars, offsets>>
  \/ SessionProceeds /\ UNCHANGED offsets

Next ==
  \/ Append1
  \/ Proceed
  \/ Fails
  \/ HandleFails /\ UNCHANGED <<sessionVars, offsets>>
  \/ (ChildSteps \/ SessionGivesUp) /\ UNCHANGED offsets
  \/ pc = "done" /\ UNCHANGED vars

\* The goroutine keeps running and no call on these files blocks for ever;
\* no call has to fail.
Spec == Init /\ [][Next]_vars /\ WF_vars(Proceed)
-----------------------------------------------------------------------------
(* Properties. *)

\* Whichever call failed, an operation that has returned has nothing open but
\* what it hands to its caller: the deferred Closes of go/vfs_ops.go (22, 47,
\* 145, 161) and the explicit ones of go/pty.go (93-98, 116-136), go/net.go
\* (109, 134, 142), c/src/fs.c (229-238) and c/src/net.c (76), and those of
\* cmd/test-runner/spawn.go (77, 174, 195, 223, 226).
FdsClosed ==
  result # "none" =>
    open = IF op \in HandleOps /\ result = "nil" THEN Handed ELSE {}

SourcePrefixes == {SubSeq(src, 1, k) : k \in 0 .. Len(src)}

\* What has been transferred is at every moment a prefix of the source, also
\* when copy_file_range stopped half-way and the fallback starts again over
\* what is there (vfs_ops.go:163-195).  For the ReadFiles and WriteFile no
\* more than that holds: they make one call and return nil however short it
\* was.
TransferIsPrefix ==
  /\ op \in Copiers \cup {"WriteFile"} /\ "dst" \in open =>
       dst \in SourcePrefixes
  /\ op \in Readers \cup {"HostEnviron"} \cup Parsers \cup SessionOps =>
       buf \in SourcePrefixes

\* A copy that returns nil is whole.  CopyFile's has every block the source
\* had when Fstat asked, and no other (vfs_ops.go:139,163-168), unless the file
\* system gives the size as 0: such a file, of /proc for example, CopyFile
\* takes for an empty one and returns nil without reading it
\* (vfs_ops.go:164,198).  ws_copy_file's, and the environment, have every block
\* there was when the source was opened, whatever its size, and those that
\* came before the last read (fs.c:232-239, environ.go:17-28).
\* ReadDir has every entry that was there, and no removed one, whatever the
\* lengths of the names; so have the events of one read (fs.go:239-253,
\* 685-715, inotify.go:72-101).  A session has all its child wrote before it
\* hung up (spawn.go:24-49).
NilMeansCopied ==
  result = "nil" =>
    /\ op = "CopyFile" /\ sized => dst = Upto(had)
    /\ op = "WsCopyFile" => Len(dst) >= had /\ dst = Upto(srcOff)
    /\ op \in {"HostEnviron", "ReadDir"} =>
         Len(buf) >= had /\ buf = Upto(srcOff)
    /\ op = "Inotify" => buf = Upto(srcOff)
    /\ op \in {"runPTY", "PipeSession"} => buf = src

\* A session that succeeds has reaped its child, the test of Tcgetpgrp has
\* killed it at the least, and runPTY leaves a child running only if that had
\* given its terminal up before: one that still had it was killed
\* (cmd/test-runner/spawn.go:72-86, 190-207).
ChildSettled ==
  [][(op \in SessionOps /\ result' # result) =>
       ((result' = "nil" =>
           child' \in {"reaped"} \cup
                     IF op = "ForegroundGroup" THEN {"exited"} ELSE {}) /\
        (op = "runPTY" /\ child' = "runs" => hungUp))]_vars
-----------------------------------------------------------------------------
(* What the documentation says and the code does not do. *)

\* "falling back to a chunked buffer" (vfs_ops.go:139): the fallback ends.
CopyEnds == op = "CopyFile" ~> pc = "done"
-----------------------------------------------------------------------------
(* The inductive invariant behind the theorems of VfsOpsProofs. *)

\* The operations that can be about to make each call.
Callers ==
  [stat |-> {"DirFSReadFile"},
   openSrc |-> Readers \cup Copiers \cup Parsers \cup {"HostEnviron"},
   fstat |-> {"ReadFile", "CopyFile"}, openDst |-> Copiers \cup {"WriteFile"},
   openTrunc |-> {"Truncate"}, ftruncate |-> {"Truncate"},
   range |-> {"CopyFile"}, seekSrc |-> {"CopyFile"}, seekDst |-> {"CopyFile"},
   read |-> Readers \cup Copiers, write |-> Copiers \cup {"WriteFile"},
   loop |-> Copiers, readEnviron |-> {"HostEnviron"},
   getdents |-> {"ReadDir"}, events |-> {"Inotify"},
   ptmx |-> PtyOps \cup PtySessions, unlock |-> PtyOps \cup PtySessions,
   ptn |-> PtyOps \cup PtySessions, winsize |-> {"StartPTY"} \cup PtySessions,
   slave |-> {"StartPTY"} \cup PtySessions,
   spawn |-> {"StartPTY"} \cup PtySessions,
   length |-> SocketOps, socket |-> SocketOps,
   connect |-> SocketOps \ {"ListenUnix"}, bind |-> {"ListenUnix"},
   listen |-> {"ListenUnix"}, pipe2 |-> {"PipeSession"},
   spawnPiped |-> {"PipeSession"}, started |-> SessionOps,
   poll |-> {"runPTY", "PipeSession"}, readPTY |-> {"runPTY", "PipeSession"},
   kill |-> PtySessions, waitKilled |-> {"runPTY", "ForegroundGroup"},
   wait |-> SessionOps \ {"ForegroundGroup"}, intr |-> {"Interrupt"},
   pgrp |-> {"ForegroundGroup"}]

\* The calls before the destination is open, and those after.
Opening == {"stat", "openSrc", "fstat", "openDst"}
Copying == {"range", "seekSrc", "seekDst", "read", "write", "loop"}

\* What is open is what the error path closes, or what a defer closes.
Held ==
  /\ pc # "done" => op \in Callers[pc]
  /\ pc \in HandlePcs => open = ClosedOnError
  /\ op \in Copiers \cup {"WriteFile"} /\ "dst" \in open => pc \in Copying

\* What is known of the child.
Watched ==
  /\ pc \in FilePcs \cup HandlePcs \cup {"pipe2", "spawnPiped", "started"} =>
       child = "none"
  /\ pc \in SessionPcs \ {"pipe2", "spawnPiped", "started"} =>
       child \in {"runs", "exited"}
  /\ pc = "waitKilled" => child = "exited"
  /\ pc = "readPTY" => Len(buf) < Len(src) \/ hungUp
  /\ op \in {"runPTY", "PipeSession"} =>
       /\ pc = "wait" => hungUp /\ buf = src
       /\ result = "nil" => child = "reaped"

\* What was read so far.
Collected ==
  /\ \E n \in 0 .. MaxLen : src = Upto(n)
  /\ total <= Len(src) /\ had <= Len(src) /\ srcOff <= Len(src)
  /\ op \in Readers \cup {"HostEnviron"} \cup Parsers => buf = Upto(srcOff)
  /\ op \in Readers \cup {"Inotify"} /\ pc # "done" => srcOff = 0
  /\ op \in SessionOps => \E k \in 0 .. Len(src) : buf = Upto(k)

\* What was written so far, and what is about to be.
Copied ==
  /\ pc \in Opening \cup {"range"} => srcOff = 0 /\ dstOff = 0
  /\ op \in Copiers /\ pc \in Copying =>
       \E d \in 0 .. Len(src) :
         dst = Upto(d) /\ dstOff <= d /\ (op = "WsCopyFile" => dstOff = d)
  /\ pc = "range" => dst = <<>>
  /\ op = "CopyFile" /\ pc \in {"openDst", "range"} /\ sized => total = had
  /\ pc = "seekDst" => srcOff = 0
  /\ op \in Copiers /\ pc \in {"read", "loop"} => srcOff = dstOff
  /\ op \in Copiers /\ pc = "write" =>
       /\ dstOff <= srcOff
       /\ buf = [i \in 1 .. srcOff - dstOff |-> dstOff + i]
  /\ op = "WriteFile" /\ pc = "write" => dst = <<>> /\ dstOff = 0 /\ buf = src

\* Everything a step relies on.
VfsInv ==
  /\ TypeOK /\ Held /\ Watched /\ Collected /\ Copied
  /\ FdsClosed /\ NilMeansCopied
=============================================================================
