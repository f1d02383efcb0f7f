-------------------------- MODULE SyscallHandlers --------------------------
(***************************************************************************)
(* What the handlers of handler.cpp print of an event.                     *)
(*                                                                         *)
(* A row gives, for one system call, the slots the handler prints and,     *)
(* beside each, the argument of the call that the handler takes the slot   *)
(* for (the name in the comment at the end of the line), in the notation   *)
(* of SyscallKernel.  Nothing here looks at what the BPF programs store.   *)
(***************************************************************************)
EXTENDS SyscallKernel

NoArgument == 99                 \* a name that is no argument of the system call

\* Printed always, printed when is_valid is set, printed when it is not.
Shows(a) == [always |-> a, valid |-> Nothing, invalid |-> Nothing]
ShowsAnyway(a, v) == Shows(a ++ v)
ShowsIf(a, v) == [always |-> a, valid |-> v, invalid |-> Nothing]
\* The address is written over the argument printed first.
Replaces(a, v) == [always |-> Nothing, valid |-> v, invalid |-> a]

\* What is printed of the values v: get_ip_str goes by the family the event holds.
ShownOf(v, memory) ==
  IF memory = "inet6" THEN [ip6 |-> v.ip, port |-> v.port, family |-> v.family] ELSE v

\* Six handlers fill in the line and return without calling add_event: the enter handlers
\* of clone, getgroups, getrusage, process_vm_writev and munmap, and the exit handler of
\* getrlimit.  Nothing is printed of these events, and they have no row.

-----------------------------------------------------------------------------
PrintSocketOptions ==
  [c \in {"socket", "socketpair", "getsockopt"} |-> Shows([s0 |-> 0, s1 |-> 1, s2 |-> 2])]
  ++ [c \in {"getsockname", "getpeername"} |-> Shows([s0 |-> 0])]
  ++ [setsockopt |-> ShowsIf([s0 |-> 0, s1 |-> 1, s2 |-> 2, s3 |-> 4], [u0 |-> 3])]

PrintSocketPeers ==
  [c \in {"bind", "connect"} |-> Replaces([s0 |-> 0], Address(1))]
  ++ [c \in {"listen", "shutdown"} |-> Shows([s0 |-> 0, s1 |-> 1])]
  ++ [accept |-> Shows([s0 |-> 0]),
      accept4 |-> Shows([s0 |-> 0, s1 |-> 3])]

PrintMessages ==
  [c \in {"recvfrom", "recvmmsg", "sendmmsg"} |-> Shows([s0 |-> 0, q0 |-> 2, s1 |-> 3])]
  ++ [recvmsg |-> Shows([s0 |-> 0, s1 |-> 2]),
      sendto |-> ShowsIf([s0 |-> 0, q0 |-> 2, s1 |-> 3], Address(4)),
      sendmsg |-> ShowsIf([s0 |-> 0, s1 |-> 2], Address(1))]

PrintHostNames ==
  [c \in {"sethostname", "setdomainname"} |-> ShowsIf([q0 |-> 1], [str |-> 0])]
  ++ [ioctl |-> Shows([s0 |-> 0, q0 |-> 1]),
      close |-> Shows([s0 |-> 0])]

PrintOpening ==
  [c \in {"creat", "memfd_create"} |-> ShowsIf([u0 |-> 1], [str |-> 0])]
  ++ [open |-> ShowsIf([s0 |-> 1, u0 |-> 2], [str |-> 0]),
      openat |-> ShowsIf([s1 |-> 0, u0 |-> 2, u1 |-> 3], [str |-> 1]),
      openat2 |-> ShowsIf([s0 |-> 0, q0 |-> 3], [str |-> 1, q1 |-> Of(2, 1), q2 |-> Of(2, 2),
            q3 |-> Of(2, 3)])]

PrintNodes ==
  [mknod |-> ShowsIf([u0 |-> 1, q0 |-> 2], [str |-> 0]),
   mknodat |-> ShowsIf([s0 |-> 0, u0 |-> 2, q0 |-> 3], [str |-> 1]),
   rename |-> ShowsIf(Nothing, [str |-> 0, str2 |-> 1]),
   renameat |-> ShowsIf([s0 |-> 0, s1 |-> 2], [str |-> 1, str2 |-> 3]),
   renameat2 |-> ShowsIf([s1 |-> 0, s2 |-> 2, q0 |-> 4], [str |-> 1, str2 |-> 3])]

PrintSizes ==
  [truncate |-> ShowsIf([q0 |-> 1], [str |-> 0]),
   ftruncate |-> Shows([s0 |-> 0, q0 |-> 1]),
   fallocate |-> Shows([s0 |-> 0, s1 |-> 1, q0 |-> 2, q1 |-> 3]),
   mkdir |-> ShowsIf([u0 |-> 1], [str |-> 0]),
   mkdirat |-> ShowsIf([s0 |-> 0, u0 |-> 2], [str |-> 1]),
   rmdir |-> ShowsIf(Nothing, [str |-> 0]),
   getcwd |-> Shows([q0 |-> 1])]

PrintDirectories ==
  [c \in {"chdir", "chroot"} |-> ShowsIf(Nothing, [str |-> 0])]
  ++ [fchdir |-> Shows([s0 |-> 0]),
      pivot_root |-> ShowsIf(Nothing, [str |-> 0, str2 |-> 1]),
      getdents |-> Shows([u0 |-> 0, u1 |-> 2]),
      getdents64 |-> Shows([s0 |-> 0, q0 |-> 2])]

PrintLinks ==
  [c \in {"link", "symlink"} |-> ShowsIf(Nothing, [str |-> 0, str2 |-> 1])]
  ++ [linkat |-> ShowsIf([s0 |-> 0, s1 |-> 2, u0 |-> 4], [str |-> 1, str2 |-> 3]),
      symlinkat |-> ShowsIf([s0 |-> 1], [str |-> 0, str2 |-> 2]),
      unlink |-> ShowsIf(Nothing, [str |-> 0]),
      unlinkat |-> ShowsIf([s0 |-> 0, u0 |-> 2], [str |-> 1])]

PrintLinkTargets ==
  [readlink |-> ShowsIf([q0 |-> 2], [str |-> 0]),
   readlinkat |-> ShowsIf([s0 |-> 0, q0 |-> 3], [str |-> 1]),
   umask |-> Shows([u0 |-> 0]),
   newstat |-> ShowsIf(Nothing, [str |-> 0])]

PrintFileStatus ==
  [c \in {"newlstat", "statfs"} |-> ShowsIf(Nothing, [str |-> 0])]
  ++ [c \in {"newfstat", "fstatfs"} |-> Shows([s0 |-> 0])]
  ++ [newfstatat |-> ShowsIf([s0 |-> 0, s1 |-> 3], [str |-> 1]),
      statx |-> ShowsIf([s0 |-> 0, u0 |-> 2, u1 |-> 3], [str |-> 1])]

PrintModes ==
  [c \in {"chown", "lchown"} |-> ShowsIf([u0 |-> 1, u1 |-> 2], [str |-> 0])]
  ++ [chmod |-> ShowsIf([u0 |-> 1], [str |-> 0]),
      fchmod |-> Shows([s0 |-> 0, u0 |-> 1]),
      fchmodat |-> ShowsIf([s0 |-> 0, u0 |-> 2, s1 |-> NoArgument], [str |-> 1])]

PrintOwners ==
  [fchown |-> Shows([s0 |-> 0, u0 |-> 1, u1 |-> 2]),
   fchownat |-> ShowsIf([s0 |-> 0, u0 |-> 2, u1 |-> 3, s1 |-> 4], [str |-> 1]),
   access |-> ShowsIf([u0 |-> 1], [str |-> 0]),
   faccessat |-> ShowsIf([s0 |-> 0, s1 |-> 2, s2 |-> NoArgument], [str |-> 1])]

PrintDescriptors ==
  [c \in {"dup2", "flock"} |-> Shows([s0 |-> 0, s1 |-> 1])]
  ++ [fcntl |-> Shows([s0 |-> 0, q0 |-> 1, q1 |-> 2]),
      dup |-> Shows([s0 |-> 0]),
      dup3 |-> Shows([s0 |-> 0, s1 |-> 1, s2 |-> 2]),
      read |-> Shows([s0 |-> 0, q0 |-> 2])]

PrintReads ==
  [c \in {"pread64", "pwrite64"} |-> Shows([s0 |-> 0, q0 |-> 2, l0 |-> 3])]
  ++ [readv |-> Shows([s0 |-> 0, s1 |-> 2]),
      preadv |-> Shows([s0 |-> 0, s1 |-> 2, l0 |-> 3]),
      preadv2 |-> Shows([s0 |-> 0, s1 |-> 2, l0 |-> 3, s2 |-> 4]),
      write |-> Shows([s0 |-> 0, q0 |-> 2])]

PrintWrites ==
  [writev |-> Shows([s0 |-> 0, s1 |-> 2]),
   pwritev |-> Shows([s0 |-> 0, s1 |-> 2, l0 |-> 3]),
   pwritev2 |-> Shows([s0 |-> 0, s1 |-> 2, l0 |-> 3, s2 |-> 4]),
   lseek |-> Shows([s0 |-> 0, l0 |-> 1, s1 |-> 2]),
   sendfile64 |-> Shows([s0 |-> 0, s1 |-> 1, l0 |-> 2, q0 |-> 3])]

PrintWatches ==
  [c \in {"inotify_rm_watch", "fanotify_init"} |-> Shows([s0 |-> 0, s1 |-> 1])]
  ++ [inotify_init |-> Shows(Nothing),
      inotify_init1 |-> Shows([s0 |-> 0]),
      inotify_add_watch |-> ShowsIf([s0 |-> 0, u0 |-> 2], [str |-> 1]),
      fanotify_mark |-> ShowsIf([s0 |-> 0, u0 |-> 1, q0 |-> 2, s1 |-> 3], [str |-> 4])]

PrintMounts ==
  [mount |-> ShowsIf([q0 |-> 3], [str |-> 0, str2 |-> 1, fs |-> 2]),
   umount |-> ShowsIf([q0 |-> 1], [str |-> 0]),
   move_mount |-> ShowsIf([s0 |-> 0, s1 |-> 2, q0 |-> 4], [str |-> 1, str2 |-> 3]),
   clone3 |-> ShowsIf(Nothing, [q0 |-> Of(0, 1), q1 |-> Of(0, 2), q2 |-> Of(0, 3),
            q3 |-> Of(0, 4)])]

PrintProcesses ==
  [c \in {"fork", "vfork"} |-> Shows(Nothing)]
  ++ [c \in {"exit", "exit_group"} |-> Shows([s0 |-> 0])]
  ++ [execve |-> ShowsIf(Nothing, [str |-> 0]),
      execveat |-> ShowsIf([s0 |-> 0, s1 |-> 4], [str |-> 1]),
      wait4 |-> ShowsIf([u0 |-> 0], [s1 |-> 1, s0 |-> 2]),
      waitid |-> ShowsIf([s0 |-> 0, u0 |-> 1, s1 |-> 3], [s2 |-> Of(2, 1), s3 |-> Of(2, 2)])]

PrintProcessIds ==
  [c \in {"getpid", "getppid", "gettid", "setsid", "getpgrp"} |-> Shows(Nothing)]
  ++ [c \in {"getpgid", "setuid"} |-> Shows([u0 |-> 0])]
  ++ [setpgid |-> Shows([u0 |-> 0, u1 |-> 1])]

PrintUserIds ==
  [c \in {"getuid", "getgid", "getresuid", "getresgid"} |-> Shows(Nothing)]
  ++ [c \in {"setresuid", "setresgid"} |-> Shows([u0 |-> 0, u1 |-> 1, u2 |-> 2])]
  ++ [setgid |-> Shows([u0 |-> 0])]

PrintGroupIds ==
  [c \in {"setreuid", "setregid"} |-> Shows([u0 |-> 0, u1 |-> 1])]
  ++ [c \in {"geteuid", "getegid"} |-> Shows(Nothing)]
  ++ [setgroups |-> Shows([q0 |-> 0]),
      setns |-> Shows([s0 |-> 0, s1 |-> 1])]

PrintLimits ==
  [getrlimit |-> Shows([s0 |-> 0]),
   setrlimit |-> ShowsIf([q0 |-> 0], [q1 |-> Of(1, 1), q2 |-> Of(1, 2)]),
   prlimit64 |-> Shows([u0 |-> 0, s0 |-> 1]),
   setpriority |-> Shows([s0 |-> 0, u0 |-> 1, s1 |-> 2]),
   getpriority |-> Shows([s0 |-> 0, u0 |-> 1]),
   ioprio_set |-> Shows([s0 |-> 0, s1 |-> 1, s2 |-> 2]),
   ioprio_get |-> Shows([s0 |-> 0, s1 |-> 1])]

PrintMappings ==
  [process_vm_readv |-> Shows([u0 |-> 0, q0 |-> 2, q1 |-> 4, q2 |-> 5]),
   mmap |-> Shows([q0 |-> 0, q1 |-> 1, s0 |-> 2, s1 |-> 3, s2 |-> 4, q2 |-> 5]),
   mprotect |-> Shows([q0 |-> 1, s0 |-> 2]),
   capset |-> Shows([u0 |-> Of(0, 1), u1 |-> Of(0, 2), u2 |-> Of(1, 1), u3 |-> Of(1, 2),
                    u4 |-> Of(1, 3)]),
   ptrace |-> Shows([s0 |-> 0, u0 |-> 1])]

PrintKernelModules ==
  [init_module |-> ShowsIf([q0 |-> 1], [str |-> 2]),
   finit_module |-> ShowsIf([s0 |-> 0, s1 |-> 2], [str |-> 1]),
   delete_module |-> Shows([str |-> 0, s0 |-> 1]),
   mremap |-> Shows([q0 |-> 0, q1 |-> 1, q2 |-> 2, s0 |-> 3, q3 |-> 4])]

PrintMemoryLocks ==
  [c \in {"madvise", "mlock2"} |-> Shows([q0 |-> 0, q1 |-> 1, s0 |-> 2])]
  ++ [c \in {"mlock", "munlock"} |-> Shows([q0 |-> 0, q1 |-> 1])]
  ++ [mlockall |-> Shows([s0 |-> 0]),
      munlockall |-> Shows(Nothing)]

PrintSignals ==
  [c \in {"kill", "tkill", "sched_setscheduler"} |-> Shows([u0 |-> 0, s0 |-> 1])]
  ++ [capget |-> Shows(Nothing),
      prctl |-> Shows([s0 |-> 0]),
      arch_prctl |-> Shows([s0 |-> 0, q0 |-> 1]),
      tgkill |-> Shows([u0 |-> 0, u1 |-> 1, s0 |-> 2]),
      brk |-> Shows([q0 |-> 0])]

-----------------------------------------------------------------------------
\* The exit handlers of the calls that return data through pointers.
PrintSocketResults ==
  [c \in {"getsockname", "getpeername", "accept", "accept4", "recvmsg"} |->
     ShowsIf(Nothing, Address(1))]
  ++ [recvfrom |-> ShowsIf(Nothing, Address(4)),
      socketpair |-> ShowsIf(Nothing, [s0 |-> Of(3, 1), s1 |-> Of(3, 2)]),
      getsockopt |-> ShowsIf(Nothing, OptionValue)]

PrintDirectoryResults ==
  [c \in {"getdents", "getdents64"} |-> ShowsIf(Nothing, [q0 |-> Of(1, 1)])]

PrintIdResults ==
  [c \in {"getresuid", "getresgid"} |-> ShowsIf(Nothing, [u0 |-> 0, u1 |-> 1, u2 |-> 2])]

PrintCapabilityResults ==
  [capget |-> ShowsIf(Nothing, [u0 |-> Of(0, 1), u1 |-> Of(0, 2), u2 |-> Of(1, 1),
                                u3 |-> Of(1, 2), u4 |-> Of(1, 3)])]

-----------------------------------------------------------------------------
EnterGroups ==
  {PrintSocketOptions, PrintSocketPeers, PrintMessages, PrintHostNames, PrintOpening,
   PrintNodes, PrintSizes, PrintDirectories, PrintLinks, PrintLinkTargets,
   PrintFileStatus, PrintModes, PrintOwners, PrintDescriptors, PrintReads,
   PrintWrites, PrintWatches, PrintMounts, PrintProcesses, PrintProcessIds,
   PrintUserIds, PrintGroupIds, PrintLimits, PrintMappings, PrintKernelModules,
   PrintMemoryLocks, PrintSignals}
EnterHandlers == Joined(EnterGroups)

ExitGroups ==
  {PrintSocketResults, PrintDirectoryResults, PrintIdResults, PrintCapabilityResults}
ExitHandlers == Joined(ExitGroups)
=============================================================================
