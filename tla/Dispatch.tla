------------------------------ MODULE Dispatch ------------------------------
(***************************************************************************)
(* From a wrapper to the kernel: the table of spec/table.go as             *)
(* cmd/gen-numbers writes it out, the wrappers of go/ and c/src, and the   *)
(* trampolines that move a call's arguments into registers.  A number is   *)
(* the target it was taken from and the name of the call; an argument is   *)
(* the name of the parameter, or the constant that the wrapper puts there. *)
(***************************************************************************)
EXTENDS Integers, Sequences

Zero == <<"zero", "zero">>
OSes == {"linux", "freebsd"}
Arches == {"amd64", "arm64"}
-----------------------------------------------------------------------------
(* The table and the generated numbers. *)

\* The calls that each target has no number for.
NotInTable(os, arch) ==
  IF os = "linux"
  THEN {"getdirentries", "fstatat"} \cup
       IF arch = "amd64" THEN {}
       ELSE {"open", "access", "mkdir", "rmdir", "rename", "unlink",
             "symlink", "readlink"}
  ELSE {"getdents64", "newfstatat", "renameat2", "inotify_init1",
        "inotify_add_watch", "inotify_rm_watch", "clone", "setsid", "chdir",
        "exit_group", "rt_sigprocmask", "rt_sigaction", "ppoll",
        "close_range", "fcntl"}

\* The number of arguments that the table gives each call.
Args(sys) ==
  CASE sys \in {"getpid", "getuid", "getgid", "geteuid", "getegid",
                "getppid"} -> 0
    [] sys \in {"close", "inotify_init1"} -> 1
    [] sys \in {"fstat", "pipe2", "munmap", "inotify_rm_watch", "listen",
                "nanosleep", "clock_gettime", "kill", "ftruncate", "flock",
                "statfs", "fstatfs"} -> 2
    [] sys \in {"read", "write", "lseek", "getdents64", "mkdirat", "unlinkat",
                "dup3", "inotify_add_watch", "socket", "connect", "bind",
                "ioctl", "symlinkat", "execve"} -> 3
    [] sys \in {"pread64", "pwrite64", "getdirentries", "openat",
                "newfstatat", "fstatat", "renameat", "readlinkat",
                "faccessat", "accept4", "clock_nanosleep", "wait4",
                "fchmodat", "utimensat"} -> 4
    [] sys \in {"renameat2", "fchownat", "ppoll"} -> 5
    [] sys \in {"mmap", "copy_file_range"} -> 6

\* A call without a number is written out as 0, which on linux/amd64 is also
\* read's own number.
Number(os, arch, sys) ==
  IF \/ os \notin OSes
     \/ sys \in NotInTable(os, arch)
     \/ os = "linux" /\ arch = "amd64" /\ sys = "read"
  THEN Zero ELSE <<os, sys>>

\* The C header has a macro only for the calls of the table, and none at all
\* for another target.
HasMacro(os, arch, sys) ==
  os \in OSes /\ arch \in Arches /\ sys \notin NotInTable(os, arch)

\* What a kernel makes of a number: one that belongs to another system
\* stands for some other call, or for none.
Served(host, arch, nr) ==
  CASE nr = Zero -> IF host = "linux" THEN IF arch = "amd64" THEN "read"
                                           ELSE "io_setup"
                    ELSE "syscall"
    [] nr[1] = host -> nr[2]
    [] OTHER -> "another call"
-----------------------------------------------------------------------------
(* What the kernels take, by their manuals: the wrappers are held to it. *)

\* The parameters of each call.  Linux's fchmodat and faccessat have three:
\* flags that a wrapper passes on are not looked at.
Signature(sys) ==
  CASE sys \in {"getpid", "getuid", "getgid", "geteuid", "getegid",
                "getppid"} -> <<>>
    [] sys = "close" -> <<"fd">>
    [] sys = "inotify_init1" -> <<"flags">>
    [] sys \in {"fstat", "fstatfs"} -> <<"fd", "buf">>
    [] sys = "statfs" -> <<"path", "buf">>
    [] sys = "pipe2" -> <<"fds", "flags">>
    [] sys = "munmap" -> <<"addr", "len">>
    [] sys = "inotify_rm_watch" -> <<"fd", "wd">>
    [] sys = "listen" -> <<"fd", "backlog">>
    [] sys = "nanosleep" -> <<"req", "rem">>
    [] sys = "clock_gettime" -> <<"clockid", "ts">>
    [] sys = "kill" -> <<"pid", "sig">>
    [] sys = "ftruncate" -> <<"fd", "length">>
    [] sys = "flock" -> <<"fd", "how">>
    [] sys \in {"read", "write", "getdents64"} -> <<"fd", "buf", "len">>
    [] sys = "lseek" -> <<"fd", "offset", "whence">>
    [] sys \in {"mkdirat", "fchmodat", "faccessat"} ->
         <<"dirfd", "path", "mode">>
    [] sys = "unlinkat" -> <<"dirfd", "path", "flags">>
    [] sys = "dup3" -> <<"oldfd", "newfd", "flags">>
    [] sys = "inotify_add_watch" -> <<"fd", "path", "mask">>
    [] sys = "socket" -> <<"domain", "type", "protocol">>
    [] sys \in {"connect", "bind"} -> <<"fd", "addr", "addrlen">>
    [] sys = "ioctl" -> <<"fd", "request", "arg">>
    [] sys = "symlinkat" -> <<"path", "newdirfd", "linkpath">>
    [] sys = "execve" -> <<"path", "argv", "envp">>
    [] sys \in {"pread64", "pwrite64"} -> <<"fd", "buf", "len", "offset">>
    [] sys = "getdirentries" -> <<"fd", "buf", "len", "basep">>
    [] sys = "openat" -> <<"dirfd", "path", "flags", "mode">>
    [] sys \in {"newfstatat", "fstatat"} -> <<"dirfd", "path", "buf", "flags">>
    [] sys = "renameat" -> <<"olddirfd", "path", "newdirfd", "newpath">>
    [] sys = "readlinkat" -> <<"dirfd", "path", "buf", "len">>
    [] sys = "accept4" -> <<"fd", "addr", "addrlen", "flags">>
    [] sys = "clock_nanosleep" -> <<"clockid", "flags", "req", "rem">>
    [] sys = "wait4" -> <<"pid", "status", "options", "rusage">>
    [] sys = "utimensat" -> <<"dirfd", "path", "times", "flags">>
    [] sys = "renameat2" ->
         <<"olddirfd", "path", "newdirfd", "newpath", "flags">>
    [] sys = "fchownat" -> <<"dirfd", "path", "uid", "gid", "flags">>
    [] sys = "ppoll" -> <<"fds", "nfds", "tmo", "sigmask", "sigsetsize">>
    [] sys = "mmap" -> <<"addr", "len", "prot", "flags", "fd", "offset">>
    [] sys = "copy_file_range" ->
         <<"fd_in", "off_in", "fd_out", "off_out", "len", "flags">>

\* The parameters for which a constant that some wrapper puts in has a meaning.
Constants ==
  [CWD |-> {"dirfd", "olddirfd", "newdirfd"},
   NOFOLLOW |-> {"flags"}, REMOVEDIR |-> {"flags"}, NOREPLACE |-> {"flags"},
   REALTIME |-> {"clockid"}, MONOTONIC |-> {"clockid"},
   TIOCGWINSZ |-> {"request"}, TIOCSWINSZ |-> {"request"},
   TIOCGPGRP |-> {"request"}, TCGETS |-> {"request"}]

Fits(arg, parameter) ==
  \/ arg = parameter
  \/ arg = "0" /\ parameter \in {"flags", "addr", "sigmask", "basep"}
  \/ arg = "8" /\ parameter = "sigsetsize"
  \/ arg \in DOMAIN Constants /\ parameter \in Constants[arg]
-----------------------------------------------------------------------------
(* The wrappers: what each asks for, with its arguments in order.  Where a *)
(* wrapper has a second choice for a call without a number, it comes next. *)

Ask(sys, args) == <<[sys |-> sys, args |-> args]>>

\* The wrappers of several groups, whose names are all different.
Joined(groups) ==
  [name \in UNION {DOMAIN g : g \in groups} |->
     (CHOOSE g \in groups : name \in DOMAIN g)[name]]

PathCalls ==
  [Fchmodat |-> Ask("fchmodat", <<"dirfd", "path", "mode", "flags">>),
   Chmod |-> Ask("fchmodat", <<"CWD", "path", "mode", "0">>),
   Fchownat |-> Ask("fchownat", <<"dirfd", "path", "uid", "gid", "flags">>),
   Chown |-> Ask("fchownat", <<"CWD", "path", "uid", "gid", "0">>),
   Lchown |-> Ask("fchownat", <<"CWD", "path", "uid", "gid", "NOFOLLOW">>),
   Utimensat |-> Ask("utimensat", <<"dirfd", "path", "times", "flags">>),
   Chtimes |-> Ask("utimensat", <<"CWD", "path", "times", "0">>),
   Symlinkat |-> Ask("symlinkat", <<"path", "newdirfd", "linkpath">>),
   Symlink |-> Ask("symlinkat", <<"path", "CWD", "linkpath">>)]

DescriptorCalls ==
  [Openat |-> Ask("openat", <<"dirfd", "path", "flags", "mode">>),
   Open |-> Ask("openat", <<"CWD", "path", "flags", "mode">>),
   Close |-> Ask("close", <<"fd">>),
   Read |-> Ask("read", <<"fd", "buf", "len">>),
   Write |-> Ask("write", <<"fd", "buf", "len">>),
   Pread |-> Ask("pread64", <<"fd", "buf", "len", "offset">>),
   Pwrite |-> Ask("pwrite64", <<"fd", "buf", "len", "offset">>),
   Seek |-> Ask("lseek", <<"fd", "offset", "whence">>),
   Ftruncate |-> Ask("ftruncate", <<"fd", "length">>)]

CopyAndLockCalls ==
  [CopyFileRange |-> Ask("copy_file_range", <<"fd_in", "off_in", "fd_out",
                         "off_out", "len", "flags">>),
   Flock |-> Ask("flock", <<"fd", "how">>),
   Statfs |-> Ask("statfs", <<"path", "buf">>),
   Fstatfs |-> Ask("fstatfs", <<"fd", "buf">>),
   Fstat |-> Ask("fstat", <<"fd", "buf">>)]

FstatatBy(args) == Ask("newfstatat", args) \o Ask("fstatat", args)

GetdentsBy ==
  Ask("getdents64", <<"fd", "buf", "len">>) \o
  Ask("getdirentries", <<"fd", "buf", "len">>)

NameCalls ==
  [Fstatat |-> FstatatBy(<<"dirfd", "path", "buf", "flags">>),
   Stat |-> FstatatBy(<<"CWD", "path", "buf", "0">>),
   Lstat |-> FstatatBy(<<"CWD", "path", "buf", "NOFOLLOW">>),
   Unlinkat |-> Ask("unlinkat", <<"dirfd", "path", "flags">>),
   Unlink |-> Ask("unlinkat", <<"CWD", "path", "0">>),
   Rmdir |-> Ask("unlinkat", <<"CWD", "path", "REMOVEDIR">>),
   Mkdirat |-> Ask("mkdirat", <<"dirfd", "path", "mode">>),
   Mkdir |-> Ask("mkdirat", <<"CWD", "path", "mode">>),
   Renameat |-> Ask("renameat", <<"olddirfd", "path", "newdirfd", "newpath">>),
   Rename |-> Ask("renameat", <<"CWD", "path", "CWD", "newpath">>),
   Renameat2 |-> Ask("renameat2", <<"olddirfd", "path", "newdirfd",
                                    "newpath", "flags">>),
   RenameNoReplace |-> Ask("renameat2", <<"CWD", "path", "CWD", "newpath",
                                          "NOREPLACE">>),
   Readlinkat |-> Ask("readlinkat", <<"dirfd", "path", "buf", "len">>),
   Readlink |-> Ask("readlinkat", <<"CWD", "path", "buf", "len">>),
   Faccessat |-> Ask("faccessat", <<"dirfd", "path", "mode", "flags">>),
   Access |-> Ask("faccessat", <<"CWD", "path", "mode", "0">>),
   Getdents64 |-> GetdentsBy]

ClockBy(clock, flags) ==
  Ask("clock_nanosleep", <<clock, flags, "req", "rem">>) \o
  Ask("nanosleep", <<"req", "rem">>)

TerminalAndClockCalls ==
  [Ioctl |-> Ask("ioctl", <<"fd", "request", "arg">>),
   GetWinsize |-> Ask("ioctl", <<"fd", "TIOCGWINSZ", "arg">>),
   ClockGettime |-> Ask("clock_gettime", <<"clockid", "ts">>),
   ClockNanosleep |-> ClockBy("clockid", "flags"),
   Nanosleep |-> ClockBy("REALTIME", "0"),
   Sleep |-> ClockBy("MONOTONIC", "0"),
   Kill |-> Ask("kill", <<"pid", "sig">>),
   Wait4 |-> Ask("wait4", <<"pid", "status", "options", "rusage">>)]

ProcessCalls ==
  [Getpid |-> Ask("getpid", <<>>), Getuid |-> Ask("getuid", <<>>),
   Getgid |-> Ask("getgid", <<>>), Geteuid |-> Ask("geteuid", <<>>),
   Getegid |-> Ask("getegid", <<>>), Getppid |-> Ask("getppid", <<>>)]

PipeAndMapCalls ==
  [Pipe2 |-> Ask("pipe2", <<"fds", "flags">>),
   Dup3 |-> Ask("dup3", <<"oldfd", "newfd", "flags">>),
   Mmap |-> Ask("mmap", <<"0", "len", "prot", "flags", "fd", "offset">>),
   Munmap |-> Ask("munmap", <<"addr", "len">>)]

ExecCalls == [Execve |-> Ask("execve", <<"path", "argv", "envp">>)]

InotifyCalls ==
  [InotifyInit1 |-> Ask("inotify_init1", <<"flags">>),
   InotifyAddWatch |-> Ask("inotify_add_watch", <<"fd", "path", "mask">>),
   InotifyRmWatch |-> Ask("inotify_rm_watch", <<"fd", "wd">>)]

PollCalls ==
  [Poll |-> Ask("ppoll", <<"fds", "nfds", "tmo", "0", "8">>),
   SetWinsize |-> Ask("ioctl", <<"fd", "TIOCSWINSZ", "arg">>),
   Tcgetpgrp |-> Ask("ioctl", <<"fd", "TIOCGPGRP", "arg">>)]

TermiosCalls ==
  [Tcgetattr |-> Ask("ioctl", <<"fd", "TCGETS", "arg">>),
   Tcsetattr |-> Ask("ioctl", <<"fd", "request", "arg">>)]

SocketCalls ==
  [Socket |-> Ask("socket", <<"domain", "type", "protocol">>),
   Connect |-> Ask("connect", <<"fd", "addr", "addrlen">>),
   Bind |-> Ask("bind", <<"fd", "addr", "addrlen">>),
   Listen |-> Ask("listen", <<"fd", "backlog">>),
   Accept4 |-> Ask("accept4", <<"fd", "addr", "addrlen", "flags">>)]

\* OpenFile and the methods of File, which pass their descriptor on; Chmod
\* passes the name that the file was opened by.
FileMethods ==
  LET Of == DescriptorCalls
  IN  [OpenFile |-> Of.Open, FileClose |-> Of.Close, FileRead |-> Of.Read,
       FileWrite |-> Of.Write, FileSeek |-> Of.Seek, FileReadAt |-> Of.Pread,
       FileWriteAt |-> Of.Pwrite, FileStat |-> CopyAndLockCalls.Fstat,
       FileTruncate |-> Of.Ftruncate, FileChmod |-> PathCalls.Chmod]

GoCalls ==
  Joined({FileMethods, PathCalls, DescriptorCalls, CopyAndLockCalls, NameCalls,
          TerminalAndClockCalls, ProcessCalls, PipeAndMapCalls, ExecCalls,
          InotifyCalls, PollCalls, TermiosCalls, SocketCalls})

\* The wrappers of c/src/fs.c before ws_mkdir_all.
CFileCalls ==
  [ws_open |-> Ask("openat", <<"CWD", "path", "flags", "mode">>),
   ws_close |-> Ask("close", <<"fd">>),
   ws_read |-> Ask("read", <<"fd", "buf", "len">>),
   ws_write |-> Ask("write", <<"fd", "buf", "len">>),
   ws_lseek |-> Ask("lseek", <<"fd", "offset", "whence">>),
   ws_unlink |-> Ask("unlinkat", <<"CWD", "path", "0">>),
   ws_rmdir |-> Ask("unlinkat", <<"CWD", "path", "REMOVEDIR">>),
   ws_mkdir |-> Ask("mkdirat", <<"CWD", "path", "mode">>),
   ws_rename |-> Ask("renameat", <<"CWD", "path", "CWD", "newpath">>),
   ws_access |-> Ask("faccessat", <<"CWD", "path", "mode", "0">>),
   ws_fchmodat |-> Ask("fchmodat", <<"dirfd", "path", "mode", "flags">>),
   ws_chmod |-> Ask("fchmodat", <<"CWD", "path", "mode", "0">>),
   ws_fchownat |-> Ask("fchownat", <<"dirfd", "path", "uid", "gid", "flags">>),
   ws_chown |-> Ask("fchownat", <<"CWD", "path", "uid", "gid", "0">>),
   ws_utimensat |-> Ask("utimensat", <<"dirfd", "path", "times", "flags">>)]

CLockAndCopyCalls ==
  [ws_ftruncate |-> Ask("ftruncate", <<"fd", "length">>),
   ws_symlinkat |-> Ask("symlinkat", <<"path", "newdirfd", "linkpath">>),
   ws_symlink |-> Ask("symlinkat", <<"path", "CWD", "linkpath">>),
   ws_flock |-> Ask("flock", <<"fd", "how">>),
   ws_copy_file_range |-> Ask("copy_file_range", <<"fd_in", "off_in",
                              "fd_out", "off_out", "len", "flags">>),
   ws_statfs |-> Ask("statfs", <<"path", "buf">>),
   ws_fstatfs |-> Ask("fstatfs", <<"fd", "buf">>)]

\* After ws_copy_file.  ws_dup3 is left out: it passes ws_syscall an argument
\* more than it takes and does not compile.
CProcessCalls ==
  [ws_execve |-> Ask("execve", <<"path", "argv", "envp">>),
   ws_tcgetattr |-> Ask("ioctl", <<"fd", "TCGETS", "arg">>),
   ws_tcsetattr |-> Ask("ioctl", <<"fd", "request", "arg">>),
   ws_readlink |-> Ask("readlinkat", <<"CWD", "path", "buf", "len">>),
   ws_pipe2 |-> Ask("pipe2", <<"fds", "flags">>),
   ws_mmap |-> Ask("mmap", <<"addr", "len", "prot", "flags", "fd", "offset">>),
   ws_munmap |-> Ask("munmap", <<"addr", "len">>),
   ws_inotify_init1 |-> Ask("inotify_init1", <<"flags">>),
   ws_inotify_add_watch |-> Ask("inotify_add_watch", <<"fd", "path", "mask">>),
   ws_inotify_rm_watch |-> Ask("inotify_rm_watch", <<"fd", "wd">>),
   ws_getuid |-> Ask("getuid", <<>>), ws_getgid |-> Ask("getgid", <<>>),
   ws_geteuid |-> Ask("geteuid", <<>>), ws_getegid |-> Ask("getegid", <<>>),
   ws_getppid |-> Ask("getppid", <<>>)]

CClockCalls ==
  [ws_ioctl |-> Ask("ioctl", <<"fd", "request", "arg">>),
   ws_clock_gettime |-> Ask("clock_gettime", <<"clockid", "ts">>),
   ws_nanosleep |-> Ask("nanosleep", <<"req", "rem">>),
   ws_clock_nanosleep |-> Ask("clock_nanosleep", <<"clockid", "flags", "req",
                                                   "rem">>),
   ws_kill |-> Ask("kill", <<"pid", "sig">>),
   ws_wait4 |-> Ask("wait4", <<"pid", "status", "options", "rusage">>)]

CSocketCalls ==
  [ws_socket |-> Ask("socket", <<"domain", "type", "protocol">>),
   ws_connect |-> Ask("connect", <<"fd", "addr", "addrlen">>),
   ws_bind |-> Ask("bind", <<"fd", "addr", "addrlen">>),
   ws_listen |-> Ask("listen", <<"fd", "backlog">>),
   ws_accept4 |-> Ask("accept4", <<"fd", "addr", "addrlen", "flags">>)]

CCalls ==
  Joined({CFileCalls, CLockAndCopyCalls, CProcessCalls, CClockCalls,
          CSocketCalls})

Calls == Joined({GoCalls, CCalls})
-----------------------------------------------------------------------------
(* The trampolines.  A is the call's six arguments, absent ones "0". *)

Six(args) == [k \in 1 .. 6 |-> IF k <= Len(args) THEN args[k] ELSE "0"]

\* Where syscall6_raw finds its arguments: from FP up, eight bytes each.
Frame(A) == [offset \in {8, 16, 24, 32, 40, 48} |-> A[offset \div 8]]

GoAmd64(A) ==
  LET f == Frame(A)
  IN  [DI |-> f[8], SI |-> f[16], DX |-> f[24], R10 |-> f[32],
       R8 |-> f[40], R9 |-> f[48]]

GoArm64(A) ==
  LET f == Frame(A)
  IN  [R0 |-> f[8], R1 |-> f[16], R2 |-> f[24], R3 |-> f[32],
       R4 |-> f[40], R5 |-> f[48]]

\* The stack at the entry of ws_syscall6: the return address, the four words
\* of home space, then the arguments from the fifth parameter on; what lies
\* above them is the caller's.
EntryStack(A) ==
  [offset \in {8 * k : k \in 0 .. 9} |->
     CASE offset \in {40, 48, 56} -> A[offset \div 8 - 1]
       [] offset = 64 -> "err_out"
       [] OTHER -> "unspecified"]

\* Five registers are pushed before the stack is read.
CPushed == 40

CAmd64(A) ==
  LET Stack(offset) == EntryStack(A)[offset - CPushed]
  IN  [DI |-> A[1], SI |-> A[2], DX |-> A[3], R10 |-> Stack(88),
       R8 |-> Stack(96), R9 |-> Stack(104), err_out |-> Stack(112)]

\* Where a kernel looks for the arguments of a call.
KernelOrder(arch) ==
  IF arch = "amd64" THEN <<"DI", "SI", "DX", "R10", "R8", "R9">>
                    ELSE <<"R0", "R1", "R2", "R3", "R4", "R5">>

\* How a kernel hands back an answer, negative where the call failed: Linux
\* as it is, FreeBSD as a positive number with the carry flag set.
Answered(host, answer) ==
  IF host = "linux" THEN [ax |-> answer, carry |-> FALSE]
  ELSE [ax |-> IF answer < 0 THEN -answer ELSE answer, carry |-> answer < 0]

Failed(errno) == [r1 |-> -1, err |-> errno]
Succeeded(value) == [r1 |-> value, err |-> 0]

\* The largest error number that a kernel returns.
MaxErrno == 4095

\* Slip: only numbers up to 127 are taken for errors.
Decode_Byte(m) == IF m.ax \in -127 .. -1 THEN Failed(-m.ax) ELSE Succeeded(m.ax)

\* AX at or above -MaxErrno, as unsigned numbers, is an error.
Decode(m) ==
  IF m.ax \in -MaxErrno .. -1 THEN Failed(-m.ax) ELSE Succeeded(m.ax)

\* The FreeBSD trampoline of c/src looks at the carry flag.
DecodeCarry(m) == IF m.carry THEN Failed(m.ax) ELSE Succeeded(m.ax)
=============================================================================
