------------------------------ MODULE Records ------------------------------
(***************************************************************************)
(* ParseDirent64 of go/fs.go and ParseInotifyEvents of go/inotify.go, on   *)
(* buffers of cells.  A record is a header, whose first cell holds the     *)
(* fields and whose other cells stand for the rest of it, then the cells   *)
(* of the name, a NUL and padding.  Entry e has a name of e cells, each of *)
(* them e; the first event concerns the watched file and has no name.      *)
(***************************************************************************)
EXTENDS Naturals, Sequences, Folds, FiniteSetsExt

NUL == 0
Header == 2                \* 19 bytes, and 16

Cells(n, cell) == [k \in 1 .. n |-> cell]

\* The kernel's side: names are ended by NUL, records are padded to an even
\* number of cells, and a removed entry may stay in place without an inode.
Padded(n) == n + (n % 2)

DirentRecord(e, ino) ==
  LET reclen == Padded(Header + e + 1)
  IN  <<[ino |-> ino, len |-> reclen]>> \o Cells(Header - 1, NUL) \o
      Cells(e, e) \o Cells(reclen - Header - e, NUL)

EventRecord(e) ==
  LET length == IF e = 1 THEN 0 ELSE Padded(e + 1)
  IN  <<[wd |-> e, len |-> length]>> \o Cells(Header - 1, NUL) \o
      (IF e = 1 THEN <<>> ELSE Cells(e, e) \o Cells(length - e, NUL))

\* What the kernel puts into a buffer: the records, in order.
Buffer(records) ==
  MapThenFoldSet(\o, <<>>, LAMBDA k : records[k], Min, 1 .. Len(records))

\* The part of a field before its NUL.
UptoNul(cells) ==
  LET ends == {k \in 1 .. Len(cells) : cells[k] = NUL}
  IN  IF ends = {} THEN cells ELSE SubSeq(cells, 1, Min(ends) - 1)

\* The loop of ParseDirent64 from offset cur on; it stops at a record that
\* is shorter than a header or reaches beyond the buffer.
ParseDirent64(cells) ==
  LET from[cur \in 0 .. Len(cells)] ==
        IF cur + Header > Len(cells) THEN <<>>
        ELSE LET r == cells[cur + 1] IN
             IF r.len < Header \/ cur + r.len > Len(cells) THEN <<>>
             ELSE (IF r.ino = 0 THEN <<>>
                   ELSE <<UptoNul(SubSeq(cells, cur + Header + 1,
                                                cur + r.len))>>)
                  \o from[cur + r.len]
  IN  from[0]

ParseInotifyEvents(cells) ==
  LET from[cur \in 0 .. Len(cells)] ==
        IF cur + Header > Len(cells) THEN <<>>
        ELSE LET r == cells[cur + 1]
                 end == cur + Header + r.len IN
             IF end > Len(cells) THEN <<>>
             ELSE <<[wd |-> r.wd, name |-> UptoNul(SubSeq(cells,
                                              cur + Header + 1, end))]>>
                  \o from[end]
  IN  from[0]
=============================================================================
