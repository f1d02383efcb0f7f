-------------------------- MODULE MCLsmEnforcement --------------------------
(* An instance of LsmEnforcement: two containers that share two namespace  *)
(* numbers, policy files that name one, both or none of them, and every    *)
(* hook.                                                                   *)
EXTENDS LsmEnforcement

CONSTANTS web, db, n1, n2

NamespaceSet == {n1, n2}
NamespaceSymmetry == Permutations(NamespaceSet)

\* A hook that has answered returns before anything else happens: the rest of the system
\* neither waits for its return nor looks at it, and its answer is in the state before.
ReturnsAtOnce == \A t \in Threads : hook[t].pc = "answered" => hook'[t] = Asleep

\* A key that is not deleted stops the clearing at its first key, while no hook is at work,
\* one container runs and Docker answers everything.
RefusedAtFirst ==
  update.pc = "clear" /\ update'.pc # "clear" /\ daemon' # "down" /\ Present # {} =>
    /\ Present = Namespaces
    /\ \A t \in Threads : hook[t] = Asleep
    /\ Cardinality(Running) = 1 /\ update'.todo = Inspections

File(path, flags) == [path |-> path, flags |-> flags]
Log == <<"/", "log">>
LogDir == <<"/", "log", "/">>
LogFile == <<"/", "log", "/", "x">>

\* Rules of every type, with and without AUDIT, and a file rule for a directory.
Strict ==
  [file |-> <<File(LogDir, {"FILE_WRITE", "RECURSIVE"}), File(Log, {"FILE_DELETE", "AUDIT"}),
              File(<<"x">>, {"FILE_CREATE"})>>,
   network |-> <<[ip |-> 1, port |-> 257, protocol |-> 6, flags |-> {"NET_CONNECT"}],
                 [ip |-> 2, port |-> 0, protocol |-> 0, flags |-> {"NET_SRC", "AUDIT"}]>>,
   process |-> <<[comm |-> <<"sh">>, flags |-> {"ALLOW"}],
                 [comm |-> <<"setuid">>, flags |-> {"PROC_SETUID"}]>>]
Reading ==
  [file |-> <<File(LogFile, {"FILE_READ", "AUDIT"}), File(Log, {"FILE_RENAME", "FILE_APPEND"})>>,
   network |-> <<>>,
   process |-> <<[comm |-> <<"sh">>, flags |-> {"PROC_EXEC"}]>>]
NoFiles == [file |-> <<>>, network |-> <<>>,
            process |-> <<[comm |-> <<"sh">>, flags |-> {"PROC_EXEC", "AUDIT"}]>>]

Item(names, lsm) == [names |-> names, lsm |-> lsm]
SomePolicies ==
  {<<>>,
   <<Item({web, db}, Strict)>>,
   <<Item({web, db}, Reading), Item({web}, NoFiles)>>}

FileRequest(name, path) == [hook |-> name, path |-> path]
SomeRequests ==
  {[hook |-> "bprm_check_security", comm |-> <<"sh">>],
   [hook |-> "task_fix_setuid", newUid |-> 0],
   [hook |-> "file_open", path |-> LogFile, mode |-> "write"],
   [hook |-> "file_open", path |-> LogFile, mode |-> "read"],
   [hook |-> "file_open", path |-> TooLong, mode |-> "write"],
   FileRequest("path_unlink", Log), FileRequest("path_mkdir", Log),
   FileRequest("path_rename", Log), FileRequest("inode_create", <<"x">>),
   [hook |-> "socket_connect", family |-> "inet", ip |-> 1, port |-> 257, socket |-> "stream"],
   [hook |-> "socket_recvmsg", ip |-> 2, port |-> 80]}
=============================================================================
