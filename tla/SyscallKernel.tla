--------------------------- MODULE SyscallKernel ---------------------------
(***************************************************************************)
(* What the BPF programs of tracepoint.bpf.c put into an event.            *)
(*                                                                         *)
(* An event has numbered slots: s0..s5 stand for arg_s32[0..5], u0..u5 for *)
(* arg_u32, l0.. for arg_s64, q0.. for arg_u64, str and str2 for the two   *)
(* strings, fs for filesystem_type, ip, ip6, port and family for the       *)
(* socket address.  A row gives, for one system call, the slots its enter program *)
(* stores and where each value comes from: the number k is argument k of   *)
(* the call, or the scalar or string argument k points to; Of(k, j) is     *)
(* field j of the structure argument k points to.  Rows are grouped by the *)
(* order of the programs in the file.                                      *)
(***************************************************************************)
EXTENDS Integers

Nothing == <<>>
\* Two tables as one: f where it has an entry, g elsewhere.
f ++ g == [x \in DOMAIN f \cup DOMAIN g |-> IF x \in DOMAIN f THEN f[x] ELSE g[x]]
\* The table of tables none of which has an entry of another.
Joined(tables) ==
  [x \in UNION {DOMAIN t : t \in tables} |-> (CHOOSE t \in tables : x \in DOMAIN t)[x]]

Garbage == -1                    \* no argument: a variable never set, or zeros instead of data
Of(k, j) == 10 * (k + 1) + j
Address(k) == [ip |-> Of(k, 1), port |-> Of(k, 2), family |-> Of(k, 3)]
OptionValue == [u0 |-> 3, u1 |-> 4]          \* optval and optlen of getsockopt

-----------------------------------------------------------------------------
\* What user memory holds where a program reads the values v: nothing it can read, or the
\* whole of v; a socket address is of a family, and of an option value getsockopt may have
\* returned the four bytes of the slot, fewer, or more.
MemoryOf(v) ==
  {"unreadable"} \cup
  CASE v = Nothing -> {}
    [] "ip" \in DOMAIN v -> {"inet", "inet6", "other"}
    [] v = OptionValue -> {"whole", "short", "long"}
    [] OTHER -> {"whole"}

\* With these is_valid is not set: read_sockaddr knows two families, and sys_exit_getsockopt
\* leaves an option that is longer than the slot.
Unread == {"unreadable", "other", "long"}

\* What is stored of v.  An IPv6 address has been copied to the program's own stack, where
\* bpf_probe_read_user cannot read it: the slot is filled with zeros.  Of a short option
\* only its own bytes are copied; the rest of the slot is what was there.
StoredOf(v, memory) ==
  CASE memory = "unreadable" -> Nothing
    [] memory = "other" -> [family |-> v.family]
    [] memory = "inet6" -> [ip6 |-> Garbage, port |-> v.port, family |-> v.family]
    [] memory \in {"short", "long"} -> [u1 |-> v.u1]
    [] OTHER -> v

-----------------------------------------------------------------------------
\* Stored whatever happens (always), stored and is_valid set when user memory can be
\* read (checked).  `flag' says what is_valid holds otherwise: FALSE when the program
\* clears it first, stale when it leaves what was in the ring buffer.
RowNotCleared(a, v) == [always |-> a, checked |-> v, flag |-> "stale"]
Plain(a) == [always |-> a, checked |-> Nothing, flag |-> "stale"]
Row(a, v) == [always |-> a, checked |-> v, flag |-> "clear"]
Stale(a, v) == [always |-> a, checked |-> v, flag |-> "stale"]

-----------------------------------------------------------------------------
StoreSocketOptions ==
  [c \in {"socket", "socketpair", "getsockopt"} |-> Plain([s0 |-> 0, s1 |-> 1, s2 |-> 2])]
  ++ [c \in {"getsockname", "getpeername"} |-> Plain([s0 |-> 0])]
  ++ [setsockopt |-> Row([s0 |-> 0, s1 |-> 1, s2 |-> 2, s3 |-> 4], [u0 |-> 3])]

StoreSocketPeers ==
  [c \in {"bind", "connect"} |-> Row([s0 |-> 0], Address(1))]
  ++ [c \in {"listen", "shutdown"} |-> Plain([s0 |-> 0, s1 |-> 1])]
  ++ [accept |-> Plain([s0 |-> 0]),
      accept4 |-> Plain([s0 |-> 0, s1 |-> 3])]

StoreMessages ==
  [c \in {"recvmmsg", "sendmmsg"} |-> Plain([s0 |-> 0, u0 |-> 2, s1 |-> 3])]
  ++ [recvfrom |-> Plain([s0 |-> 0, q0 |-> 2, s1 |-> 3]),
      recvmsg |-> Plain([s0 |-> 0, s1 |-> 2]),
      sendto |-> Row([s0 |-> 0, q0 |-> 2, s1 |-> 3], Address(4)),
      sendmsg |-> Row([s0 |-> 0, s1 |-> 2], Address(1))]

StoreHostNames ==
  [c \in {"sethostname", "setdomainname"} |-> Row([q0 |-> 1], [str |-> 0])]
  ++ [ioctl |-> Plain([s0 |-> 0, q0 |-> 1]),
      close |-> Plain([s0 |-> 0])]

StoreOpening ==
  [c \in {"creat", "memfd_create"} |-> Row([u0 |-> 1], [str |-> 0])]
  ++ [open |-> Row([s0 |-> 1, u0 |-> 2], [str |-> 0]),
      openat |-> Row([s0 |-> 0, s1 |-> 2, u0 |-> 3], [str |-> 1]),
      openat2 |-> Row([s0 |-> 0, q0 |-> 3], [q1 |-> Of(2, 1), q2 |-> Of(2, 2),
            q3 |-> Of(2, 3), str |-> 1]),
      name_to_handle_at |-> Row([s0 |-> 0, s1 |-> 4], [s2 |-> Garbage, u0 |-> Of(2, 1),
            s3 |-> Of(2, 2), str |-> 1]),
      open_by_handle_at |-> Row([s0 |-> 0, s1 |-> 2], [u0 |-> Of(1, 1), s2 |-> Of(1, 2)])]

StoreNodes ==
  [mknod |-> Row([u0 |-> 1, q0 |-> 2], [str |-> 0]),
   mknodat |-> Row([s0 |-> 0, u0 |-> 2, q0 |-> 3], [str |-> 1]),
   rename |-> Row(Nothing, [str |-> 0, str2 |-> 1]),
   renameat |-> Row([s0 |-> 0, s1 |-> 2], [str |-> 1, str2 |-> 3]),
   renameat2 |-> Row([s0 |-> 0, s1 |-> 2, u0 |-> 4], [str |-> 1, str2 |-> 3])]

StoreSizes ==
  [truncate |-> Row([q0 |-> 1], [str |-> 0]),
   ftruncate |-> Plain([s0 |-> 0, q0 |-> 1]),
   fallocate |-> Plain([s0 |-> 0, s1 |-> 1, q0 |-> 2, q1 |-> 3]),
   mkdir |-> Row([u0 |-> 1], [str |-> 0]),
   mkdirat |-> Row([s0 |-> 0, u0 |-> 2], [str |-> 1]),
   rmdir |-> Stale(Nothing, [str |-> 0]),
   getcwd |-> Plain([q0 |-> 1])]

StoreDirectories ==
  [c \in {"chdir", "chroot"} |-> Row(Nothing, [str |-> 0])]
  ++ [fchdir |-> Plain([s0 |-> 0]),
      pivot_root |-> Row(Nothing, [str |-> 0, str2 |-> 1]),
      getdents |-> Plain([u0 |-> 0, u1 |-> 2]),
      getdents64 |-> Plain([s0 |-> 0, q0 |-> 2])]

StoreLinks ==
  [c \in {"link", "symlink"} |-> Row(Nothing, [str |-> 0, str2 |-> 1])]
  ++ [linkat |-> Row([s0 |-> 0, s1 |-> 2, s2 |-> 4], [str |-> 1, str2 |-> 3]),
      symlinkat |-> Row([s0 |-> 1], [str |-> 0, str2 |-> 2]),
      unlink |-> Row(Nothing, [str |-> 0]),
      unlinkat |-> Row([s0 |-> 0, s1 |-> 2], [str |-> 1])]

StoreLinkTargets ==
  [readlink |-> Row([q0 |-> 2], [str |-> 0]),
   readlinkat |-> Row([s0 |-> 0, q0 |-> 3], [str |-> 1]),
   umask |-> Plain([u0 |-> 0]),
   newstat |-> Row(Nothing, [str |-> 0])]

StoreFileStatus ==
  [c \in {"newlstat", "statfs"} |-> Row(Nothing, [str |-> 0])]
  ++ [c \in {"newfstat", "fstatfs"} |-> Plain([s0 |-> 0])]
  ++ [newfstatat |-> Row([s0 |-> 0, s1 |-> 3], [str |-> 1]),
      statx |-> Row([s0 |-> 0, s1 |-> 2, u0 |-> 3], [str |-> 1])]

StoreModes ==
  [c \in {"chown", "lchown"} |-> Row([u0 |-> 1, u1 |-> 2], [str |-> 0])]
  ++ [chmod |-> Row([u0 |-> 1], [str |-> 0]),
      fchmod |-> Plain([s0 |-> 0, u0 |-> 1]),
      fchmodat |-> Row([s0 |-> 0, u0 |-> 2, s1 |-> 3], [str |-> 1])]

StoreOwners ==
  [fchown |-> Plain([s0 |-> 0, u0 |-> 1, u1 |-> 2]),
   fchownat |-> Row([s0 |-> 0, u0 |-> 2, u1 |-> 3, s1 |-> 4], [str |-> 1]),
   access |-> Row([s0 |-> 1], [str |-> 0]),
   faccessat |-> Row([s0 |-> 0, s1 |-> 2, s2 |-> 3], [str |-> 1])]

StoreDescriptors ==
  [c \in {"dup2", "flock"} |-> Plain([s0 |-> 0, s1 |-> 1])]
  ++ [fcntl |-> Plain([s0 |-> 0, q0 |-> 1, q1 |-> 2]),
      dup |-> Plain([s0 |-> 0]),
      dup3 |-> Plain([s0 |-> 0, s1 |-> 1, s2 |-> 2]),
      read |-> Plain([s0 |-> 0, q0 |-> 2])]

StoreReads ==
  [c \in {"pread64", "pwrite64"} |-> Plain([s0 |-> 0, q0 |-> 2, l0 |-> 3])]
  ++ [readv |-> Plain([s0 |-> 0, s1 |-> 2]),
      preadv |-> Plain([s0 |-> 0, s1 |-> 2, l0 |-> 3]),
      preadv2 |-> Plain([s0 |-> 0, s1 |-> 2, l0 |-> 3, s2 |-> 4]),
      write |-> Plain([s0 |-> 0, q0 |-> 2])]

StoreWrites ==
  [writev |-> Plain([s0 |-> 0, s1 |-> 2]),
   pwritev |-> Plain([s0 |-> 0, s1 |-> 2, l0 |-> 3]),
   pwritev2 |-> Plain([s0 |-> 0, s1 |-> 2, q0 |-> 3, s2 |-> 4]),
   lseek |-> Plain([s0 |-> 0, l0 |-> 1, s1 |-> 2]),
   sendfile64 |-> Plain([s0 |-> 0, s1 |-> 1, l0 |-> 2, q0 |-> 3])]

StoreWatches ==
  [inotify_init |-> Plain(Nothing),
   inotify_init1 |-> Plain([s0 |-> 0]),
   inotify_add_watch |-> Row([s0 |-> 0, u0 |-> 2], [str |-> 1]),
   inotify_rm_watch |-> Plain([s0 |-> 0, s1 |-> 1]),
   fanotify_init |-> Plain([u0 |-> 0, u1 |-> 1]),
   fanotify_mark |-> Row([s0 |-> 0, u0 |-> 1, q0 |-> 2, s1 |-> 3], [str |-> 4])]

StoreMounts ==
  [mount |-> Row([q0 |-> 3], [str |-> 0, str2 |-> 1, fs |-> 2]),
   umount |-> Row([s0 |-> 1], [str |-> 0]),
   move_mount |-> Row([s0 |-> 0, s1 |-> 2, q0 |-> 4], [str |-> 1, str2 |-> 3]),
   clone |-> Plain([q0 |-> 0, s0 |-> 2]),
   clone3 |-> Row(Nothing, [q0 |-> Of(0, 1), q1 |-> Of(0, 2), q2 |-> Of(0, 3),
            q3 |-> Of(0, 4)])]

StoreProcesses ==
  [c \in {"fork", "vfork"} |-> Plain(Nothing)]
  ++ [c \in {"exit", "exit_group"} |-> Plain([s0 |-> 0])]
  ++ [execve |-> Row(Nothing, [str |-> 0]),
      execveat |-> Row([s0 |-> 0, s1 |-> 4], [str |-> 1]),
      wait4 |-> Row([u0 |-> 0, s0 |-> 2], [s1 |-> 1]),
      waitid |-> Row([s0 |-> 0, u0 |-> 1, s1 |-> 3], [s2 |-> Garbage, s3 |-> Garbage])]

StoreProcessIds ==
  [c \in {"getpid", "getppid", "gettid", "setsid", "getpgrp"} |-> Plain(Nothing)]
  ++ [c \in {"getpgid", "setuid"} |-> Plain([u0 |-> 0])]
  ++ [setpgid |-> Plain([u0 |-> 0, u1 |-> 1])]

StoreUserIds ==
  [c \in {"getuid", "getgid", "getresuid", "getresgid"} |-> Plain(Nothing)]
  ++ [c \in {"setresuid", "setresgid"} |-> Plain([u0 |-> 0, u1 |-> 1, u2 |-> 2])]
  ++ [setgid |-> Plain([u0 |-> 0])]

StoreGroupIds ==
  [c \in {"setreuid", "setregid"} |-> Plain([u0 |-> 0, u1 |-> 1])]
  ++ [c \in {"geteuid", "getegid"} |-> Plain(Nothing)]
  ++ [setgroups |-> Plain([q0 |-> 0]),
      getgroups |-> Plain([s0 |-> 0]),
      setns |-> Plain([s0 |-> 0, s1 |-> 1])]

StoreLimits ==
  [c \in {"getrlimit", "getrusage"} |-> Plain([s0 |-> 0])]
  ++ [setrlimit |-> Row([s0 |-> 0], [q0 |-> Of(1, 1), q1 |-> Of(1, 2)]),
      prlimit64 |-> Plain([u0 |-> 0, s0 |-> 1]),
      setpriority |-> Plain([s0 |-> 0, u0 |-> 1, s1 |-> 2]),
      getpriority |-> Plain([s0 |-> 0, u0 |-> 1]),
      ioprio_set |-> Plain([s0 |-> 0, s1 |-> 1, s2 |-> 2]),
      ioprio_get |-> Plain([s0 |-> 0, s1 |-> 1])]

StoreMappings ==
  [c \in {"process_vm_readv", "process_vm_writev"} |-> Plain([u0 |-> 0, q0 |-> 2,
            q1 |-> 4, q2 |-> 5])]
  ++ [mmap |-> Plain([q0 |-> 0, q1 |-> 1, s0 |-> 2, s3 |-> 3, s4 |-> 4, q2 |-> 5]),
      mprotect |-> Plain([q0 |-> 1, s0 |-> 2]),
      capset |-> Row(Nothing, [u0 |-> Of(0, 1), u1 |-> Of(0, 2), u2 |-> Of(1, 1),
            u3 |-> Of(1, 2), u4 |-> Of(1, 3)]),
      ptrace |-> Plain([s0 |-> 0, u0 |-> 1])]

StoreKernelModules ==
  [init_module |-> Row([q0 |-> 1], Nothing),
   finit_module |-> Row([s0 |-> 0, s1 |-> 2], [str |-> 1]),
   delete_module |-> Row([u0 |-> 1], [str |-> 0]),
   munmap |-> Plain([q0 |-> 0, q1 |-> 1]),
   mremap |-> Plain([q0 |-> 0, q1 |-> 1, q2 |-> 2, s0 |-> 3, q3 |-> 4])]

StoreMemoryLocks ==
  [c \in {"mlock", "munlock"} |-> Plain([q0 |-> 0, q1 |-> 1])]
  ++ [madvise |-> Plain([q0 |-> 0, q1 |-> 1, s0 |-> 2]),
      mlock2 |-> Plain([q0 |-> 0, q1 |-> 1, u0 |-> 2]),
      mlockall |-> Plain([s0 |-> 0]),
      munlockall |-> Plain(Nothing)]

StoreSignals ==
  [capget |-> Plain(Nothing),
   prctl |-> Plain([s0 |-> 0]),
   arch_prctl |-> Plain([s0 |-> 0, q0 |-> 1]),
   kill |-> Plain([u0 |-> 0, s0 |-> 1]),
   tkill |-> Plain([u0 |-> 0, s0 |-> 2]),
   tgkill |-> Plain([u0 |-> 0, u1 |-> 1, s0 |-> 2]),
   brk |-> Plain([q0 |-> 0]),
   sched_setscheduler |-> Plain([u0 |-> 0, s0 |-> 1, s1 |-> 2])]

-----------------------------------------------------------------------------
\* Fourteen calls return data through pointers.  Their enter programs keep the pointers
\* in a map of the call's own; their exit programs read what they point to, and
\* `frees' is the map whose entry the cleanup at the end deletes.  `nulls': the
\* program sets is_null when it finds no entry, or a null pointer in it.
Fetch(v, map) == [row |-> v, frees |-> map, nulls |-> FALSE]
FetchOrNull(v, map) == [row |-> v, frees |-> map, nulls |-> TRUE]

FetchSocketOptions ==
  [socketpair |-> Fetch([s0 |-> Of(3, 1), s1 |-> Of(3, 2)], "none"),   \* the key is &ct, not &key
   getsockopt |-> Fetch(OptionValue, "getsockopt"),
   getsockname |-> Fetch(Address(1), "getsockname"),
   getpeername |-> Fetch(Address(1), "getpeername")]

FetchPeers ==
  [accept |-> FetchOrNull(Address(1), "accept"),
   accept4 |-> FetchOrNull(Address(1), "accept")]

FetchMessages ==
  [recvfrom |-> FetchOrNull(Address(4), "recvfrom"),
   recvmsg |-> Fetch(Address(1), "recvmsg")]

FetchDirectories ==
  [c \in {"getdents", "getdents64"} |-> Fetch([q0 |-> Of(1, 1)], "getsockopt")]

FetchIds ==
  [c \in {"getresuid", "getresgid"} |-> Fetch([u0 |-> 0, u1 |-> 1, u2 |-> 2], c)]

FetchLimits == [getrlimit |-> Fetch([q0 |-> Of(1, 1), q1 |-> Of(1, 2)], "getrlimit")]

FetchCapabilities ==
  [capget |-> Fetch([u0 |-> Of(0, 1), u1 |-> Of(0, 2), u2 |-> Of(1, 1), u3 |-> Of(1, 2),
                     u4 |-> Of(1, 3)], "capget")]

-----------------------------------------------------------------------------
StoreGroups ==
  {StoreSocketOptions, StoreSocketPeers, StoreMessages, StoreHostNames, StoreOpening,
   StoreNodes, StoreSizes, StoreDirectories, StoreLinks, StoreLinkTargets,
   StoreFileStatus, StoreModes, StoreOwners, StoreDescriptors, StoreReads,
   StoreWrites, StoreWatches, StoreMounts, StoreProcesses, StoreProcessIds,
   StoreUserIds, StoreGroupIds, StoreLimits, StoreMappings, StoreKernelModules,
   StoreMemoryLocks, StoreSignals}
Stores == Joined(StoreGroups)

FetchGroups ==
  {FetchSocketOptions, FetchPeers, FetchMessages, FetchDirectories, FetchIds,
   FetchLimits, FetchCapabilities}
Fetches == Joined(FetchGroups)
=============================================================================
