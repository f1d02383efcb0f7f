------------------------------ MODULE LsmRules ------------------------------
(***************************************************************************)
(* What the LSM programs of enforcement.bpf.c answer, given the rules the  *)
(* map holds for a container.                                              *)
(*                                                                         *)
(* A table is what lsm keeps of one container's policy: sequences of file, *)
(* network and process rules.  A path is a sequence of names and slashes:  *)
(* <<"/", "etc", "/", "passwd">>; inode_create has a bare name, <<"x">>.   *)
(* Numbers are what the field holds in the memory of a little-endian       *)
(* machine; flags are sets of the names of flags_map without POLICY_.      *)
(***************************************************************************)
EXTENDS Integers, Sequences

TooLong == <<"too long">>   \* a path that does not fit the 256 bytes of an event

FileFlags == {"FILE_READ", "FILE_WRITE", "FILE_EXEC", "FILE_APPEND", "FILE_RENAME",
              "FILE_DELETE", "FILE_CREATE"}
NetworkFlags == {"NET_CONNECT", "NET_SRC", "NET_DST"}
ProcessFlags == {"PROC_FORK", "PROC_EXEC", "PROC_KILL", "PROC_SETUID"}
KnownFlags ==
  {"AUDIT", "DENY", "ALLOW", "OWNER", "RECURSIVE"} \cup FileFlags \cup NetworkFlags
  \cup ProcessFlags

\* string_to_flags: a name flags_map does not know adds nothing.
ToFlags(names) == names \cap KnownFlags

Swap(port) == (port % 256) * 256 + port \div 256         \* host to network order

\* The table written for a container: the port goes into a __be16 as it is, the protocol
\* into a byte, and nothing ever reads the subnet mask or the user ids.
ToTable(policies) ==
  [file |-> [i \in DOMAIN policies.file |->
     [path |-> policies.file[i].path, flags |-> ToFlags(policies.file[i].flags)]],
   network |-> [i \in DOMAIN policies.network |->
     [ip |-> policies.network[i].ip, port |-> policies.network[i].port % 2^16,
      protocol |-> policies.network[i].protocol % 2^8,
      flags |-> ToFlags(policies.network[i].flags)]],
   process |-> [i \in DOMAIN policies.process |->
     [comm |-> policies.process[i].comm, flags |-> ToFlags(policies.process[i].flags)]]]

-----------------------------------------------------------------------------
\* compare_strings: equal, or below a recursive pattern that ends in a slash.
Compare(pattern, path, recursive) ==
  \/ pattern = path
  \/ /\ recursive
     /\ pattern # <<>> /\ pattern[Len(pattern)] = "/"
     /\ Len(pattern) < Len(path)
     /\ SubSeq(path, 1, Len(pattern)) = pattern

FileMatches(rule, path) == Compare(rule.path, path, "RECURSIVE" \in rule.flags)

NetworkMatches(rule, net) ==
  /\ rule.ip = net.ip
  /\ rule.port \in {net.port, 0}
  /\ rule.protocol \in {net.protocol, 0}

ProcessMatches(rule, comm) == Compare(rule.comm, comm, FALSE)

\* The flags of the first rule that matches; none when there is no such rule.
FirstOf(rules, hits) ==
  IF hits = {} THEN {} ELSE rules[CHOOSE i \in hits : \A j \in hits : i <= j].flags

\* match_policy.
MatchPolicy(table, type, data) ==
  LET rules == table[type]
  IN FirstOf(rules, {i \in DOMAIN rules :
       CASE type = "file" -> FileMatches(rules[i], data)
         [] type = "network" -> NetworkMatches(rules[i], data)
         [] type = "process" -> ProcessMatches(rules[i], data)})

-----------------------------------------------------------------------------
\* An answer: what the hook returns, and whether the event is submitted.
Answers == [ret : {0, -1}, reported : BOOLEAN]
Allowed == [ret |-> 0, reported |-> FALSE]
Denied == [ret |-> -1, reported |-> FALSE]

AllowListIgnoringAudit(listed, flags) ==
  IF listed THEN [ret |-> 0, reported |-> TRUE] ELSE Denied

\* A black list denies what is listed and a white list all else; AUDIT reports what is
\* listed and leaves the answer as it is without a rule.
DenyList(listed, flags) ==
  IF listed THEN [ret |-> IF "AUDIT" \in flags THEN 0 ELSE -1, reported |-> TRUE] ELSE Allowed
AllowList(listed, flags) ==
  IF listed THEN [ret |-> IF "AUDIT" \in flags THEN -1 ELSE 0, reported |-> TRUE] ELSE Denied

\* __u8 mode = flags & POLICY_ALLOW: bit 29 of a 32-bit word, kept in a byte.
Mode(flags) == (IF "ALLOW" \in flags THEN 536870912 ELSE 0) % 256

BprmCheckSecurity(flags) ==
  IF flags \cap {"PROC_EXEC", "FILE_EXEC"} # {} THEN DenyList(TRUE, flags)
  ELSE IF Mode(flags) # 0 THEN Denied ELSE Allowed

TaskFixSetuid(flags, newUid) == DenyList("PROC_SETUID" \in flags /\ newUid = 0, flags)

\* file_open tests bit 18 of f_flags for FMODE_EXEC, which there is O_NOATIME.
FileOpen(flags, mode) ==
  CASE mode = "write" -> AllowList("FILE_WRITE" \in flags, flags)
    [] mode # "write" /\ "FILE_READ" \in flags -> DenyList(TRUE, flags)
    [] mode # "write" /\ "FILE_READ" \notin flags ->
         DenyList("FILE_EXEC" \in flags /\ mode = "noatime", flags)

PathUnlink(flags) == AllowList("FILE_DELETE" \in flags, flags)
PathMkdir(flags) == AllowList("FILE_APPEND" \in flags, flags)
PathRename(flags) == AllowList("FILE_RENAME" \in flags, flags)
InodeCreate(flags) == DenyList("FILE_CREATE" \in flags, flags)
SocketConnect(flags) == DenyList(flags \cap {"NET_CONNECT", "NET_DST"} # {}, flags)
SocketRecvmsg(flags) == DenyList(flags \cap {"NET_CONNECT", "NET_SRC"} # {}, flags)

\* The address the two network hooks look for: connect has the port in network order and
\* a protocol from the type of the socket, recvmsg the local port in host order and none.
Protocol(type) == CASE type = "stream" -> 6 [] type = "dgram" -> 17 [] type = "other" -> 0
ConnectAddress(r) ==
  [ip |-> IF r.family = "inet" THEN r.ip ELSE 0,
   port |-> IF r.family \in {"inet", "inet6"} THEN Swap(r.port) ELSE 0,
   protocol |-> Protocol(r.socket)]
RecvmsgAddress(r) == [ip |-> r.ip, port |-> r.port, protocol |-> 0]

-----------------------------------------------------------------------------
Hooks == {"bprm_check_security", "task_fix_setuid", "file_open", "path_unlink", "path_mkdir",
          "path_rename", "inode_create", "socket_connect", "socket_recvmsg"}

\* The type of rules each hook asks for, and the data it compares with them.
Type(r) ==
  CASE r.hook \in {"bprm_check_security", "task_fix_setuid"} -> "process"
    [] r.hook \in {"socket_connect", "socket_recvmsg"} -> "network"
    [] r.hook \in {"file_open", "path_unlink", "path_mkdir", "path_rename", "inode_create"} ->
         "file"

\* `stale' is the path an earlier event left in the memory of the ring buffer: bpf_d_path
\* fails on a path that is too long, and the hook goes on.
Data(r, stale) ==
  CASE r.hook = "bprm_check_security" -> r.comm
    [] r.hook = "task_fix_setuid" -> <<"setuid">>
    [] r.hook = "socket_connect" -> ConnectAddress(r)
    [] r.hook = "socket_recvmsg" -> RecvmsgAddress(r)
    [] Type(r) = "file" -> IF r.path = TooLong THEN stale ELSE r.path

Answer(r, flags) ==
  CASE r.hook = "bprm_check_security" -> BprmCheckSecurity(flags)
    [] r.hook = "task_fix_setuid" -> TaskFixSetuid(flags, r.newUid)
    [] r.hook = "file_open" -> FileOpen(flags, r.mode)
    [] r.hook = "path_unlink" -> PathUnlink(flags)
    [] r.hook = "path_mkdir" -> PathMkdir(flags)
    [] r.hook = "path_rename" -> PathRename(flags)
    [] r.hook = "inode_create" -> InodeCreate(flags)
    [] r.hook = "socket_connect" -> SocketConnect(flags)
    [] r.hook = "socket_recvmsg" -> SocketRecvmsg(flags)
=============================================================================
