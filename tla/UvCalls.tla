------------------------------ MODULE UvCalls ------------------------------
(***************************************************************************)
(* Which one-shot requests uv.mbt makes and in what their calls differ:    *)
(* the functions of fs.c, dns.c, random.c, write.c, shutdown.c, udp.c and  *)
(* the two connects, one record per function (its _sync twin included).    *)
(* UvReq says what a call with such a record does.                         *)
(*                                                                         *)
(*   on       "pool": a thread of libuv's pool does it; "handle": the loop *)
(*            does it on a stream or a udp handle                          *)
(*   starts   where the request can be when the call returns: it waits     *)
(*            ("queued"), it is begun ("busy"), libuv is through ("done")   *)
(*   keeps    objects, besides the closure, whose reference the request    *)
(*            takes over: the loop, the buffers                            *)
(*   moves    references its C callback moves out of the request           *)
(*   drops    does its finalizer drop the references that are left?        *)
(*   copies   does libuv copy the path(s), in an asynchronous call?        *)
(*   gives    does a success leave libuv memory in req->ptr?               *)
(*   cleans   outcomes after which the callback calls uv_fs_req_cleanup    *)
(*            before the program's own callback                            *)
(*   cancels  is the request a Fs, the only Cancelable among them?         *)
(*   sync     "no" twin; a twin that libuv gives "lent" paths, which it    *)
(*            does not free, or "copied" ones                              *)
(*   tidies   outcomes after which the twin calls uv_fs_req_cleanup        *)
(***************************************************************************)
Outcomes == {"ok", "error"}

\* A file system request on a descriptor, on a path, on buffers.
OnFile == [on |-> "pool", starts |-> {"queued"}, keeps |-> {"loop"}, moves |-> {"closure"}, drops |-> TRUE,
           copies |-> FALSE, gives |-> FALSE, cleans |-> Outcomes, cancels |-> TRUE,
           sync |-> "lent", tidies |-> {}]
OnPath == [OnFile EXCEPT !.copies = TRUE]
OnBuffers == [OnFile EXCEPT !.keeps = {"loop", "bufs"}]

\* The result is read from the request before the twin cleans it up.
Reads == [OnPath EXCEPT !.tidies = Outcomes]
ReadsResult == [Reads EXCEPT !.gives = TRUE]

NoTwin(call) == [call EXCEPT !.sync = "no"]

FsOpenClose == [open |-> OnPath, close |-> OnFile]
FsReadWrite == [read |-> OnBuffers, write |-> OnBuffers]
FsFlush == [ftruncate |-> NoTwin(OnFile), fsync |-> OnFile, fdatasync |-> OnFile]
FsMakeRemove == [mkdir |-> OnPath, rmdir |-> OnPath]
FsCopyUnlink == [copyfile |-> OnPath, unlink |-> OnPath]

\* A successful scandir leaves its entries in the request for Scandir::next.
FsScandir == [scandir |-> [ReadsResult EXCEPT !.cleans = {"error"}, !.tidies = {"error"}]]

FsRename == [rename |-> Reads]

\* fstat has no path, and no twin; the file status is part of the request.
FsStat == [stat |-> Reads, lstat |-> Reads, fstat |-> NoTwin(OnFile)]
FsRealpath == [realpath |-> [ReadsResult EXCEPT !.tidies = {"ok"}]]
FsAccess == [access |-> OnPath]

\* libuv overwrites its copy of the template, so it makes one for the twins as
\* well; the error paths of mkstemp and of mkdtemp_sync do not clean up.
FsMakeTemp ==
  [mkdtemp |-> [Reads EXCEPT !.sync = "copied", !.tidies = {"ok"}],
   mkstemp |-> [Reads EXCEPT !.sync = "copied", !.cleans = {"ok"}]]

\* No twins in MoonBit; what the three do with the directory is in UvDir.
FsDirectory ==
  [opendir |-> NoTwin(OnPath), readdir |-> NoTwin(OnFile), closedir |-> NoTwin(OnFile)]

FsLink == [link |-> OnPath, symlink |-> OnPath]
FsReadlink == [readlink |-> [ReadsResult EXCEPT !.tidies = {"ok"}]]
FsOwner == [chown |-> OnPath, fchown |-> OnFile, lchown |-> OnPath]
FsSendMode == [sendfile |-> OnFile, chmod |-> OnPath, fchmod |-> OnFile]
FsStatfs == [statfs |-> ReadsResult]
FsTimes == [utime |-> Reads, futime |-> [OnFile EXCEPT !.tidies = Outcomes], lutime |-> Reads]

\* getaddrinfo and getnameinfo do not keep the loop.
Resolve == [OnFile EXCEPT !.keeps = {}, !.cleans = {}, !.cancels = FALSE,
                            !.sync = "no"]
Dns == [getaddrinfo |-> Resolve, getnameinfo |-> Resolve]

\* The callback of random gets the buffer.
RandomBytes ==
  [random |-> [OnBuffers EXCEPT !.moves = {"closure", "bufs"}, !.cleans = {},
                          !.cancels = FALSE]]

\* A shutdown waits for the loop.  uv_write and uv_udp_send try at once, unless
\* others wait; a connect is begun in the call.
OnHandle == [Resolve EXCEPT !.on = "handle"]
Shutdown == [shutdown |-> OnHandle]
Writes == [OnHandle EXCEPT !.keeps = {"bufs"}, !.starts = {"queued", "busy", "done"}]
WriteCalls == [stream_write |-> Writes, stream_write2 |-> Writes]
UdpSend == [udp_send |-> Writes]

\* A uv_connect_t is plain bytes: no finalizer; data still leads to the closure
\* that the callback has consumed.
Connect ==
  LET c == [OnHandle EXCEPT !.starts = {"busy"}, !.moves = {}, !.drops = FALSE]
  IN [tcp_connect |-> c, pipe_connect |-> c]

Tables ==
  {FsOpenClose, FsReadWrite, FsFlush, FsMakeRemove, FsCopyUnlink, FsScandir, FsRename, FsStat,
   FsRealpath, FsAccess, FsMakeTemp, FsDirectory, FsLink, FsReadlink, FsOwner, FsSendMode,
   FsStatfs, FsTimes, Dns, RandomBytes, WriteCalls, UdpSend, Shutdown, Connect}

\* No function is in two of them.
Calls ==
  [f \in UNION {DOMAIN t : t \in Tables} |-> (CHOOSE t \in Tables : f \in DOMAIN t)[f]]
=============================================================================
