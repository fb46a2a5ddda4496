------------------------------- MODULE Syscalls -------------------------------
(***************************************************************************)
(* The syscall descriptions of crates/fs-prog: the argument types           *)
(* (types.rs), the resource kinds (resource.rs), the struct layouts and the *)
(* description table (syscalls.rs) and the recipes of the generator.        *)
(*                                                                          *)
(* Numbers, flag values and directions only reach the guest kernel and are  *)
(* left out.  What is kept decides which call may feed which argument and   *)
(* how many bytes a pointee takes.  Arguments count from 1.                 *)
(***************************************************************************)
EXTENDS Naturals, Sequences, FiniteSets

\* ArgType, one constructor per variant.
Const == [t |-> "const"]
Flags == [t |-> "flags"]
Int_(bits) == [t |-> "int", bits |-> bits]
Res(kind) == [t |-> "res", kind |-> kind]
LenOf(of) == [t |-> "len", of |-> of]
Ptr(inner) == [t |-> "ptr", inner |-> inner, nullable |-> FALSE]
NPtr(inner) == [t |-> "ptr", inner |-> inner, nullable |-> TRUE]
Buf(lo, hi) == [t |-> "buf", lens |-> {lo, hi}]     \* the ends of its LenSpec
Str(lens) == [t |-> "str", lens |-> lens]           \* NUL included
Struct(fields) == [t |-> "struct", fields |-> fields]

\* Produces: the resources a call leaves behind.
Nothing == [how |-> "none", kind |-> "", count |-> 0, arg |-> 0]
Ret(kind) == [how |-> "ret", kind |-> kind, count |-> 1, arg |-> 0]
OutArray(arg, kind, count) == [how |-> "out", kind |-> kind, count |-> count, arg |-> arg]

D(name, args, produces) == [name |-> name, args |-> args, produces |-> produces]

\* The argument positions of d that hold a resource.
ResArgs(d) == {j \in DOMAIN d.args : d.args[j].t = "res"}

\* RESOURCES: each kind's parent, if it has one.
Kinds == {"fd", "sock", "epoll_fd", "vma", "key"}
subtype_of == [k \in Kinds |-> IF k \in {"sock", "epoll_fd"} THEN "fd" ELSE "none"]

\* kind_compat: have is want or a descendant of it.
Ancestors[k \in Kinds] ==
  {k} \cup (IF subtype_of[k] = "none" THEN {} ELSE Ancestors[subtype_of[k]])
kind_compat(want, have) == want \in Ancestors[have]

\* String pools, as the set of their lengths.
PATH_POOL == Str({2, 7, 10, 16})
MEMFD_NAMES == Str({1, 2, 5})
SUN_PATHS == Str({1, 7})
FAIL_NTH_PATH == Str({20})
FAIL_NTH_COUNTS == Str({2, 3})
NS_PATHS == Str({18, 19})
KEY_TYPES == Str({5, 6, 8})
KEY_DESCRIPTIONS == Str({1, 2, 8})
KEY_CALLOUT_INFO == Str({2, 5})

\* Structs, field by field.
REMOTE_IOVEC == Struct(<<Int_(32), Int_(32)>>)
REMOTE_IOVEC2 == Struct(<<REMOTE_IOVEC, REMOTE_IOVEC>>)
SOCKADDR == Struct(<<Flags, Buf(14, 14)>>)
STATX_BUF == Buf(256, 256)
IOVEC == Struct(<<Ptr(Buf(0, 64)), Int_(32)>>)
IOVEC2 == Struct(<<IOVEC, IOVEC>>)
MSGHDR == Struct(<<NPtr(SOCKADDR), Int_(32), Ptr(IOVEC2), Const, NPtr(Buf(16, 16)),
                   Int_(32), Int_(32)>>)
EPOLL_EVENT == Struct(<<Flags, Int_(32), Int_(32)>>)
TIMESPEC64 == Struct(<<Int_(64), Int_(64)>>)
ITIMERSPEC64 == Struct(<<TIMESPEC64, TIMESPEC64>>)
OPEN_HOW == Struct(<<Int_(64), Int_(64), Int_(64)>>)
WINSIZE == Struct(<<Int_(16), Int_(16), Int_(16), Int_(16)>>)
TERMIOS == Struct(<<Int_(32), Int_(32), Int_(32), Int_(32), Int_(8), Buf(19, 19)>>)
IFREQ == Struct(<<Buf(16, 16), Buf(16, 16)>>)
IFCONF == Struct(<<Int_(32), Ptr(Buf(128, 128))>>)
SOCKADDR_IN == Struct(<<Const, Int_(16), Int_(32), Buf(8, 8)>>)
SOCKADDR_UN == Struct(<<Const, SUN_PATHS>>)
SOCKADDR_NL == Struct(<<Const, Const, Int_(32), Int_(32)>>)
NLMSG == Struct(<<Int_(32), Int_(16), Int_(16), Int_(32), Int_(32), Buf(16, 16)>>)
IOVEC_NL == Struct(<<Ptr(NLMSG), Int_(32)>>)
MSGHDR_NL == Struct(<<NPtr(SOCKADDR_NL), Int_(32), Ptr(IOVEC_NL), Const,
                      NPtr(Buf(16, 16)), Int_(32), Int_(32)>>)

-------------------------------------------------------------------------------
\* The table, in source order.
StarterCalls == {
  D("openat", <<Res("fd"), Ptr(PATH_POOL), Flags, Flags>>, Ret("fd")),
  D("read", <<Res("fd"), Ptr(Buf(0, 256)), LenOf(2)>>, Nothing),
  D("write", <<Res("fd"), Ptr(Buf(0, 256)), LenOf(2)>>, Nothing),
  D("close", <<Res("fd")>>, Nothing),
  D("llseek", <<Res("fd"), Int_(32), Int_(32), Ptr(Int_(64)), Flags>>, Nothing),
  D("ioctl$generic", <<Res("fd"), Flags, NPtr(Buf(64, 64))>>, Nothing),
  D("dup", <<Res("fd")>>, Ret("fd"))}

DupPipeSocketCalls == {
  D("dup3", <<Res("fd"), Int_(32), Flags>>, Ret("fd")),
  D("fcntl64$dupfd", <<Res("fd"), Const, Int_(32)>>, Ret("fd")),
  D("fcntl64$setfl", <<Res("fd"), Const, Flags>>, Nothing),
  D("pipe2", <<Ptr(Buf(8, 8)), Flags>>, OutArray(1, "fd", 2)),
  D("socket", <<Flags, Flags, Const>>, Ret("sock")),
  D("bind", <<Res("sock"), Ptr(SOCKADDR), LenOf(2)>>, Nothing),
  D("sendto",
    <<Res("sock"), Ptr(Buf(0, 128)), LenOf(2), Flags, NPtr(SOCKADDR), LenOf(5)>>, Nothing),
  D("getcwd", <<Ptr(Buf(0, 256)), LenOf(1)>>, Nothing)}

PathCalls == {
  D("faccessat", <<Res("fd"), Ptr(PATH_POOL), Flags, Const>>, Nothing),
  D("statx", <<Res("fd"), Ptr(PATH_POOL), Flags, Flags, Ptr(STATX_BUF)>>, Nothing),
  D("getdents64", <<Res("fd"), Ptr(Buf(32, 512)), LenOf(2)>>, Nothing),
  D("memfd_create", <<Ptr(MEMFD_NAMES), Flags>>, Ret("fd")),
  D("prctl", <<Flags, Int_(32), Int_(32), Int_(32), Int_(32)>>, Nothing)}

EventCalls == {
  D("eventfd2", <<Int_(32), Flags>>, Ret("fd")),
  D("epoll_create1", <<Flags>>, Ret("epoll_fd")),
  D("epoll_ctl", <<Res("epoll_fd"), Flags, Res("fd"), NPtr(EPOLL_EVENT)>>, Nothing),
  D("epoll_pwait",
    <<Res("epoll_fd"), Ptr(EPOLL_EVENT), Int_(32), Int_(32), NPtr(Buf(8, 8)), LenOf(5)>>, Nothing),
  D("inotify_init1", <<Flags>>, Ret("fd")),
  D("inotify_add_watch", <<Res("fd"), Ptr(PATH_POOL), Flags>>, Nothing),
  D("inotify_rm_watch", <<Res("fd"), Int_(32)>>, Nothing)}

TimerCalls == {
  D("flock", <<Res("fd"), Flags>>, Nothing),
  D("timerfd_create", <<Flags, Flags>>, Ret("fd")),
  D("timerfd_settime64", <<Res("fd"), Flags, Ptr(ITIMERSPEC64), NPtr(ITIMERSPEC64)>>, Nothing),
  D("signalfd4", <<Res("fd"), Ptr(Buf(8, 8)), LenOf(2), Flags>>, Ret("fd"))}

SocketPairCalls == {
  D("socketpair", <<Flags, Flags, Const, Ptr(Buf(8, 8))>>, OutArray(4, "sock", 2)),
  D("listen", <<Res("sock"), Int_(32)>>, Nothing),
  D("accept4", <<Res("sock"), NPtr(SOCKADDR), NPtr(Int_(32)), Flags>>, Ret("sock")),
  D("connect", <<Res("sock"), Ptr(SOCKADDR), LenOf(2)>>, Nothing),
  D("getsockname", <<Res("sock"), Ptr(SOCKADDR), NPtr(Int_(32))>>, Nothing),
  D("getpeername", <<Res("sock"), Ptr(SOCKADDR), NPtr(Int_(32))>>, Nothing)}

SockoptCalls == {
  D("setsockopt", <<Res("sock"), Flags, Flags, Ptr(Buf(4, 4)), LenOf(4)>>, Nothing),
  D("getsockopt", <<Res("sock"), Flags, Flags, Ptr(Buf(4, 4)), Ptr(Int_(32))>>, Nothing),
  D("shutdown", <<Res("sock"), Flags>>, Nothing),
  D("recvfrom",
    <<Res("sock"), Ptr(Buf(0, 128)), LenOf(2), Flags, NPtr(SOCKADDR), NPtr(Int_(32))>>, Nothing),
  D("sendmsg", <<Res("sock"), Ptr(MSGHDR), Flags>>, Nothing),
  D("recvmsg", <<Res("sock"), Ptr(MSGHDR), Flags>>, Nothing)}

MemoryCalls == {
  D("mmap2", <<Int_(32), Int_(32), Flags, Flags, Res("fd"), Int_(32)>>, Ret("vma")),
  D("munmap", <<Res("vma"), Int_(32)>>, Nothing),
  D("mprotect", <<Res("vma"), Int_(32), Flags>>, Nothing),
  D("madvise", <<Res("vma"), Int_(32), Flags>>, Nothing)}

PositionedIoCalls == {
  D("ftruncate64", <<Res("fd"), Int_(32), Int_(32)>>, Nothing),
  D("fallocate", <<Res("fd"), Flags, Int_(32), Int_(32), Int_(32), Int_(32)>>, Nothing),
  D("pread64", <<Res("fd"), Ptr(Buf(0, 256)), LenOf(2), Int_(32), Int_(32)>>, Nothing),
  D("pwrite64", <<Res("fd"), Ptr(Buf(0, 256)), LenOf(2), Int_(32), Int_(32)>>, Nothing),
  D("readv", <<Res("fd"), Ptr(IOVEC2), Const>>, Nothing),
  D("writev", <<Res("fd"), Ptr(IOVEC2), Const>>, Nothing)}

VectorIoCalls == {
  D("preadv", <<Res("fd"), Ptr(IOVEC2), Const, Int_(32), Int_(32)>>, Nothing),
  D("pwritev", <<Res("fd"), Ptr(IOVEC2), Const, Int_(32), Int_(32)>>, Nothing),
  D("preadv2", <<Res("fd"), Ptr(IOVEC2), Const, Int_(32), Int_(32), Flags>>, Nothing),
  D("pwritev2", <<Res("fd"), Ptr(IOVEC2), Const, Int_(32), Int_(32), Flags>>, Nothing)}

FdTableCalls == {
  D("openat2", <<Res("fd"), Ptr(PATH_POOL), Ptr(OPEN_HOW), LenOf(3)>>, Ret("fd")),
  D("close_range", <<Res("fd"), Res("fd"), Flags>>, Nothing),
  D("pidfd_open", <<Int_(32), Const>>, Ret("fd")),
  D("pidfd_getfd", <<Res("fd"), Int_(32), Const>>, Ret("fd")),
  D("fcntl64$getfl", <<Res("fd"), Const>>, Nothing),
  D("fcntl64$getfd", <<Res("fd"), Const>>, Nothing),
  D("fcntl64$setfd", <<Res("fd"), Const, Flags>>, Nothing),
  D("fcntl64$dupfd_cloexec", <<Res("fd"), Const, Int_(32)>>, Ret("fd"))}

IoctlCalls == {
  D("ioctl$TIOCGWINSZ", <<Res("fd"), Const, Ptr(WINSIZE)>>, Nothing),
  D("ioctl$TIOCSWINSZ", <<Res("fd"), Const, Ptr(WINSIZE)>>, Nothing),
  D("ioctl$TCGETS", <<Res("fd"), Const, Ptr(TERMIOS)>>, Nothing),
  D("ioctl$TCSETS", <<Res("fd"), Const, Ptr(TERMIOS)>>, Nothing),
  D("ioctl$FIONREAD", <<Res("fd"), Const, Ptr(Int_(32))>>, Nothing),
  D("ioctl$FIONBIO", <<Res("fd"), Const, Ptr(Int_(32))>>, Nothing),
  D("ioctl$SIOCGIFFLAGS", <<Res("sock"), Const, Ptr(IFREQ)>>, Nothing),
  D("ioctl$SIOCGIFCONF", <<Res("sock"), Const, Ptr(IFCONF)>>, Nothing)}

SockaddrCalls == {
  D("socket$netlink", <<Const, Flags, Flags>>, Ret("sock")),
  D("bind$inet", <<Res("sock"), Ptr(SOCKADDR_IN), LenOf(2)>>, Nothing),
  D("bind$un", <<Res("sock"), Ptr(SOCKADDR_UN), LenOf(2)>>, Nothing),
  D("bind$nl", <<Res("sock"), Ptr(SOCKADDR_NL), LenOf(2)>>, Nothing),
  D("connect$inet", <<Res("sock"), Ptr(SOCKADDR_IN), LenOf(2)>>, Nothing),
  D("connect$un", <<Res("sock"), Ptr(SOCKADDR_UN), LenOf(2)>>, Nothing),
  D("sendto$inet",
    <<Res("sock"), Ptr(Buf(0, 128)), LenOf(2), Flags, NPtr(SOCKADDR_IN), LenOf(5)>>, Nothing)}

TypedSockoptCalls == {
  D("setsockopt$so_reuseaddr", <<Res("sock"), Const, Const, Ptr(Int_(32)), LenOf(4)>>, Nothing),
  D("setsockopt$tcp_nodelay", <<Res("sock"), Const, Const, Ptr(Int_(32)), LenOf(4)>>, Nothing),
  D("ioctl$TIOCGPGRP", <<Res("fd"), Const, Ptr(Int_(32))>>, Nothing),
  D("ioctl$TIOCSPGRP", <<Res("fd"), Const, Ptr(Int_(32))>>, Nothing),
  D("ioctl$FIOASYNC", <<Res("fd"), Const, Ptr(Int_(32))>>, Nothing),
  D("ioctl$SIOCSIFFLAGS", <<Res("sock"), Const, Ptr(IFREQ)>>, Nothing),
  D("ioctl$SIOCGIFHWADDR", <<Res("sock"), Const, Ptr(IFREQ)>>, Nothing)}

NetlinkCalls == {
  D("setsockopt$so_sndbuf", <<Res("sock"), Const, Const, Ptr(Int_(32)), LenOf(4)>>, Nothing),
  D("setsockopt$netlink_add_membership",
    <<Res("sock"), Const, Const, Ptr(Int_(32)), LenOf(4)>>, Nothing),
  D("sendmsg$nl", <<Res("sock"), Ptr(MSGHDR_NL), Flags>>, Nothing),
  D("openat$fail_nth", <<Res("fd"), Ptr(FAIL_NTH_PATH), Const, Const>>, Ret("fd")),
  D("write$fail_nth", <<Res("fd"), Ptr(FAIL_NTH_COUNTS), LenOf(2)>>, Nothing)}

SpliceCalls == {
  D("vmsplice", <<Res("fd"), Ptr(IOVEC2), Const, Flags>>, Nothing),
  D("splice",
    <<Res("fd"), NPtr(Int_(64)), Res("fd"), NPtr(Int_(64)), Int_(32), Flags>>, Nothing),
  D("tee", <<Res("fd"), Res("fd"), Int_(32), Flags>>, Nothing),
  D("unshare", <<Flags>>, Nothing),
  D("openat$ns", <<Res("fd"), Ptr(NS_PATHS), Const, Const>>, Ret("fd")),
  D("setns", <<Res("fd"), Flags>>, Nothing)}

KeyCalls == {
  D("add_key",
    <<Ptr(KEY_TYPES), Ptr(KEY_DESCRIPTIONS), NPtr(Buf(0, 64)), LenOf(3), Flags>>, Ret("key")),
  D("request_key",
    <<Ptr(KEY_TYPES), Ptr(KEY_DESCRIPTIONS), NPtr(KEY_CALLOUT_INFO), Flags>>, Ret("key")),
  D("keyctl$get_keyring_id", <<Const, Flags, Int_(32)>>, Ret("key")),
  D("keyctl$describe", <<Const, Res("key"), Ptr(Buf(0, 256)), LenOf(3)>>, Nothing),
  D("keyctl$read", <<Const, Res("key"), Ptr(Buf(0, 256)), LenOf(3)>>, Nothing),
  D("keyctl$revoke", <<Const, Res("key")>>, Nothing),
  D("keyctl$unlink", <<Const, Res("key"), Flags>>, Nothing)}

RemoteMemoryCalls == {
  D("process_vm_readv",
    <<Int_(32), Ptr(IOVEC2), Const, Ptr(REMOTE_IOVEC2), Const, Int_(32)>>, Nothing),
  D("process_vm_writev",
    <<Int_(32), Ptr(IOVEC2), Const, Ptr(REMOTE_IOVEC2), Const, Int_(32)>>, Nothing)}

SYSCALLS ==
  UNION {StarterCalls, DupPipeSocketCalls, PathCalls, EventCalls, TimerCalls, SocketPairCalls, SockoptCalls, MemoryCalls, PositionedIoCalls, VectorIoCalls, FdTableCalls, IoctlCalls, SockaddrCalls, TypedSockoptCalls, NetlinkCalls, SpliceCalls, KeyCalls, RemoteMemoryCalls}

find_desc(name) == CHOOSE d \in SYSCALLS : d.name = name

\* A name has one description, so find_desc finds the one meant.
ASSUME NamesUnique == \A d, e \in SYSCALLS : d.name = e.name => d = e

\* RECIPES: call sequences the generator may follow.
RECIPES == {
  <<"memfd_create", "ftruncate64", "mmap2", "mprotect", "madvise", "munmap">>,
  <<"openat", "read", "pwrite64", "fcntl64$setfl", "close">>,
  <<"socket", "setsockopt$tcp_nodelay", "connect$inet", "getsockopt", "close">>,
  <<"socket", "bind$inet", "listen", "getsockname", "close">>,
  <<"socketpair", "sendmsg", "recvmsg", "shutdown">>,
  <<"pipe2", "write", "read", "close", "close">>,
  <<"epoll_create1", "eventfd2", "epoll_ctl", "epoll_pwait", "close">>,
  <<"openat", "dup3", "fcntl64$getfd", "flock", "close">>,
  <<"pidfd_open", "pidfd_getfd", "close">>,
  <<"memfd_create", "mmap2", "readv", "writev", "munmap">>,
  <<"pipe2", "pipe2", "vmsplice", "tee", "splice", "close", "close">>,
  <<"openat$ns", "setns", "unshare">>,
  <<"add_key", "keyctl$describe", "keyctl$read", "keyctl$revoke">>,
  <<"process_vm_writev", "process_vm_readv">>,
  <<"epoll_create1", "epoll_create1", "epoll_create1",
    "epoll_ctl", "epoll_ctl", "epoll_ctl">>}

\* Every kind that some call consumes is produced by some call, so wire_producer
\* always finds a producer to insert.
ASSUME EveryKindProduced ==
  \A d \in SYSCALLS : \A j \in ResArgs(d) :
    \E p \in SYSCALLS : p.produces.count > 0 /\ kind_compat(d.args[j].kind, p.produces.kind)

\* to_wire has 32 fixup slots for 8 calls: no program can need more.
ASSUME FixupsFit == \A d \in SYSCALLS : 8 * Cardinality(ResArgs(d)) <= 32
===============================================================================
