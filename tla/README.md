# A verification project for simple-socket

simple-socket is a small C++ library around the POSIX sockets of a UNIX system:
TCP, UDP, SCTP, UNIX domain and CAN sockets as classes, exceptions in place of error
codes, calls with timeouts, and a move-only handle for accepted connections. It has
no threads, locks or event loop of its own. What can go wrong with it happens between
one of its system calls and the next, where signals, other threads, the peer and the
network act, and in what it remembers from one call to the next (`m_socket`,
`m_sockfd`, `m_peerDisconnected`). That is what the modules model: every system call
that can wait or fail is a step of its own, and everything a library function does
around it belongs to one of its steps.

## 1. The system

| component | state it keeps | operations | interacts with |
|---|---|---|---|
| `SocketHandle` (`SocketHandle.h`) | `m_sockfd` | construct, copy and assign (both move), `release`, `reset`, destroy, conversion through `SocketHandle_Ref` | gets descriptors from `accept`/`timedAccept`, gives them to the socket constructors; `::close` |
| `SimpleSocket` | `m_socket`, `m_peerDisconnected` | construct, destroy, `send`, `receive`, `timedReceive`, `disconnect`, `shutdown`, `peerDisconnected` | the kernel; base of all sockets |
| `InternetSocket` | – | `connect`, `bind`, address getters, `fillAddress` | resets the flag of `SimpleSocket`; `gethostbyname` |
| `TCPSocket` | – | `sendAll`, `listen`, `accept`, `timedAccept` | `SimpleSocket::send`, `SocketHandle` |
| `UDPSocket` | – | `sendTo`, `receiveFrom`, `timedReceiveFrom`, multicast options | sets the flag of `SimpleSocket` |
| `UnixSocket`, `UnixDatagramSocket` | – | `connect`, `bind` (unlinks first), path getters, `sendTo`, `receiveFrom`, `timedReceiveFrom` | the file system |
| `SCTPSocket` | – | constructor with options, multi-homed `bind`/`connect`, `send`, `receive`, `timedReceive` with streams, `listen`, `accept`, `timedAccept` | `SocketHandle` |
| `CANSocket`, `CANRawSocket` | – | `connect`, `bind`, interface getters, `sendTo`, `receiveFrom`, `timedReceiveFrom`, filters | interface tables of the kernel |
| `SocketUtils` | a temporary socket in each function | names, services, interfaces: queries and configuration | `gethostbyname`, `ioctl` |
| `examples/mini_ifconfig.cpp` | – | shows and configures interfaces | `SocketUtils` |
| `TEMP_FAILURE_RETRY` | – | repeats a system call after `EINTR`, or does nothing (`TempFailure.h`) | every component |

Hard behaviours, and what would be correct:

* *Descriptor ownership.* A descriptor passes through temporaries, parameters and
  assignments, and `::close` takes time: another thread can be handed the number that
  is being closed. Correct: one owner per descriptor, nobody holds a closed one, none
  leaks. (`SocketHandle`)
* *Accepting.* `timedAccept` is `poll` and then `accept`, with other threads, clients
  and signals in between. Correct: it returns in time, not before, and every client is
  served. (`Acceptor`)
* *Streams.* Partial sends and reads, FIN and RST at any moment, half-closed
  connections, and a flag that says why. Correct: bytes in order and once, no data
  overlooked, results that are true, calls that come back. (`StreamSocket`)
* *Datagrams.* Loss, asynchronous errors that any later call may report. Correct: no
  datagram lost with an exception, timed calls that come back. (`UDPSocket`)
* *Paths.* `bind` of a UNIX socket unlinks before it binds, connections lead to sockets
  and not to paths, a sender may have no name. Correct: nothing but a `bind` takes a path
  from a living socket, the flag has a reason, no datagram lost with an exception.
  (`UnixDatagramSocket`)
* *Names.* `gethostbyname` gives every thread the same static buffer. Correct: a call is
  about the host it was made for. (`Resolver`)
* *Interfaces.* They come, go, and are configured by others between two `ioctl`s. Correct:
  a 0 means done, an exception is handled, a list shows what is there. (`Interfaces`)
* *CAN.* `bind` and `receiveFrom` translate between names and indexes while interfaces are
  plugged in, pulled out and renamed. Correct: the socket listens to what it was bound to,
  no frame is lost with an exception, a blocked receive wakes. (`CANRawSocket`)
* *SCTP.* Several addresses of which one fails, messages longer than the buffer, SHUTDOWN and
  ABORT from both sides. Correct: all or nothing, a flag that is true, no message sent with
  an exception. (`SCTPSocket`)

`PROJECT.json` lists every hazard at its line, with the properties that cover it.

## 2. Modules

| module | models |
|---|---|
| `StrictOwnership` | what `SocketHandle` promises: acquire, hand over, close by the owner |
| `SocketHandle` | handles, sockets, threads and `::close`; implements `StrictOwnership` |
| `MCSocketHandle` | the symmetry sets for TLC |
| `SocketHandle_proofs` | its inductive invariant and what follows |
| `Acceptor` | a listening `TCPSocket` and the threads in `accept` and `timedAccept` |
| `Acceptor_proofs` | the bounds of `timedAccept` |
| `ByteStream` | what a TCP connection promises: two streams of bytes, and a 0 at the end |
| `StreamSocket` | a TCP connection, both ends; implements `ByteStream` |
| `StreamSocket_proofs` | its inductive invariant and what follows |
| `DatagramBox` | what a datagram socket promises those who receive from it: each datagram to one call, in order, none lost to an exception |
| `UDPSocket` | a UDP socket, its network and its peers; implements `DatagramBox` |
| `UDPSocket_proofs` | its inductive invariant and what follows |
| `UnixDatagramSocket` | UNIX datagram sockets and the paths they are bound to |
| `MCUnixDatagramSocket` | the symmetry sets for TLC |
| `UnixDatagramSocket_proofs` | its inductive invariant and what follows |
| `Resolver` | `resolveHostname` and `fillAddress` in several threads, and the buffer they share |
| `Interfaces` | the interface functions of `SocketUtils`, and `mini_ifconfig`, which calls them |
| `SocketUtils_proofs` | the inductive invariants of `Resolver` and `Interfaces` and what follows |
| `CANRawSocket` | a CAN socket and the interfaces of its machine; implements `DatagramBox` |
| `CANRawSocket_proofs` | its inductive invariant and what follows |
| `SCTPSocket` | a one-to-one SCTP socket and its peer |
| `SCTPSocket_proofs` | its inductive invariant and what follows |

### How the code is represented

`SocketHandle`. `sockfd[o]` is `m_sockfd` of a handle or `m_socket` of a socket, with
`NoFd` for -1 and `Absent` for an object that does not exist. A function without a
system call in its middle is one action (`CopyConstruct`, `ConstructSocket`). `reset`,
the destructors and the constructor of `SCTPSocket` that throws have `::close` in
their middle: `Reset` and `Destroy...` enter it (`call[t]`), `CloseSucceeds` or
`CloseInterrupted` is the system call, `CloseReturns` the assignment after it. Threads
interleave at each of these points. An object is used by one thread at a time; the
class has no locks and does not claim more. The by-value parameter of
`TCPSocket(Handle)` is taken together with the construction, since its destructor
only ever sees -1.

`Acceptor`. `call[t].pc` is the system call thread `t` is in; `left` is what remains of
the timeout of `poll`, `spent` the time since `timedAccept` was entered. `Arrive` is the
kernel's side of a handshake, limited by the backlog; `TakeHandle` is what a server
does with the result, a valid handle becoming a socket (as in
`examples/TCP_Server.cpp`, an exception ends the thread). `SCTPSocket::listen`,
`accept` and `timedAccept` are the same text. `delayed` is history: it names the calls that
a signal has set back or that lost the connection they saw.

`StreamSocket`. For each end: the kernel's socket, the segments on their way to it, the
library's flag and the call it is in. `SendTakes` is one `::send` of `send` or `sendAll`
that takes some of the bytes, `SendFails` one that does not, with the three outcomes of
the `switch` in `SimpleSocket::send` and the SIGPIPE that comes before it. `PollReturns`
is everything `timedReceive` does between `poll` and `recv`, `RecvTakes` and `RecvEnds`
the `recv`. `ConnectInterrupted` is a `connect` that a signal cuts short: it throws before
it resets the flag, and the kernel makes the connection (`staleFlag` remembers the flag for
the property). Bytes are numbers in the order they were passed to the library, so
order, loss and repetition are visible; `Data` is what is on the way before a FIN or RST.
Seen as a `ByteStream`, an end is open while its socket may send (`CanSend`), what it sent
is what the kernel took from it (`accepted`), what it received is what `recv` gave it
(`got`), and it is at its end when a receive call has just returned 0 on a connection
that is neither reset nor shut down for reading by the end itself (`AtEnd`).

`UDPSocket`. One socket; `Arrive` lets any peer's datagram in at any time (this covers
loss, repetition, reordering and multicast membership), `Land` is the arrival of what was
sent, with the ICMP error that may come back. One thread receives, the others call
everything else at any moment, also between `poll` and `recvfrom`. Threads may not
destroy a socket that is in use. Seen as a `DatagramBox`, the box is the kernel's queue and
what a thread has taken is `got` of its last call.

`UnixDatagramSocket`. Several sockets, each used by one thread of its own program. `node`
is the file system, `kernel[s]` what Linux keeps for a socket: name, peer, queue and a
pending error. `StartBind` is everything up to and with `::unlink`, `BindEnds` the
`::bind` after it, so a rival fits in between. `StartSend` and `StartSendTo` look up the
receiver, and the datagram is taken, denied or refused when the kernel gets to it: until
then the receiver can be full, closed, bound or connected elsewhere. A connection that is
given up makes the kernel drop what was not read of it and tell the old peer
(`WithPeer`). `ExtractPathThrows` is the conversion of a name of no bytes. `Shutdown` needs
no connection, the peer is not told, and `kernel[s].shut` is what is left of it: those who
send to a socket that is shut for reading get an `EPIPE` without a SIGPIPE, the socket's
own timed calls raise its flag, and its `receiveFrom` throws because no address comes
(`RecvEnds`). The `::unlink` of `StartBind` may fail without anybody noticing, and other
programs put files at paths and remove what is there (`OthersChange`). A path that is too long is thrown out by `fillAddress` before anything
happens and has no action.

`Resolver`. `hostent` is the buffer of `gethostbyname`, `lock` the lock that glibc holds
during a lookup (`Lookup`, `LookupEnds`) and gives back before anything is read. What
`resolveHostname` does with the buffer is one `PrintOctet` for each octet; `fillAddress`
copies the address at once (`CopyAddress`), or takes a text that `inet_aton` understands
(`FillAddress`). `AsInt` is the conversion of a `char` that `resolveHostname` prints. A call
notes what it was `meant` to find, and whether another lookup has come between its own and
its last read (`disturbed`): only the property looks at these two. `ResolverInit`,
`ResolverNext` and the like carry the name of the module because `SocketUtils_proofs` extends
both modules of `SocketUtils`.

`Interfaces`. `table` is what the kernel knows of the interfaces; the environment adds,
removes and configures them. A library function is three steps, the call with its
temporary socket, the `ioctl` (or two), and its return to `mini_ifconfig`, which goes on as
`print`, `configure` and `main` do: with the next function, with the next interface, with
`exit`, or with an exception nobody catches. The settings are `"good"` or the `"junk"` that
`setXAddress` sends when the text was no address. A new address makes Linux choose the other
settings anew, and a new netmask the broadcast address if that was made from the old one
(`FromAddress`, `FromNetmask`).

`CANRawSocket`. `netdev` is what the kernel knows under an interface index. Names are looked
up by one `ioctl`, then `bind` or `sendto` uses the index: `Plug`, `Unplug`, `Rename` and
`Switch` come in between. A received frame is the index of its interface;
`receiveFrom` and `timedReceiveFrom` translate it after the frame is taken (`pc = "name"`).
`asked` and `renamed` are history: the name of the last `bind` that succeeded, and whether the
interface it had found was renamed since it was looked up. Seen as a
`DatagramBox`, the socket is always open and has one reader; a `send` whose frame comes back
to the socket itself puts a frame into the box.

`SCTPSocket`. One thread and one association, whose end has six states as in
`net/sctp/socket.c` (`assoc`). A message is the length that is left to be read, since a short
buffer takes a part; streams are left out, for what `receive` says of them is never filled in. `bind` and `connect` look all names up before
they do anything (`FillAddresses`); what `sctp_bindx` takes back when an address fails is in
`Bind`. The sends with the flags SHUTDOWN and ABORT are as the kernel answers to them.

What is external is the kernel: Linux as its sources and manual pages describe it. A
system call that `TEMP_FAILURE_RETRY` repeats has changed nothing and is a stuttering
step, except where time (`PollInterrupted`) or the descriptor table
(`CloseInterrupted`) makes a difference.

## 3. What is checked

| run | shows |
|---|---|
| `handle` | ownership: one owner, no dangling owner, no leak; the inductive invariant, which says also that no socket is without a descriptor; the refinement of `StrictOwnership` |
| `acceptor` | with two threads in `timedAccept`, one in `accept`, and signals: a call is late only when a signal restarted its `poll` or another thread took the connection it saw; nobody gives up early; every client is served |
| `stream` | order, results of sends, end of stream, meaning of the flag and of a 0, counts; the refinement of `ByteStream` |
| `stream_live` | a blocked receive comes back when the peer is gone; `timedReceive` comes back, or has a part of its bytes (after which `MSG_WAITALL` waits without a timeout) |
| `udp` | timed calls come back, do not wait behind `poll`, and overlook nothing; the refinement of `DatagramBox`: exceptions lose nothing, and nothing is repeated or overtaken |
| `unix` | a living socket loses its path only to other programs or to the `unlink` of a `bind` that was given this path; the flag is raised only for a peer that is gone or has given up the connection, or by the socket's own shutdown; exceptions lose only the datagrams of senders that have no name to this moment, and those of a dead peer |
| `resolver` | a call that no other lookup disturbs is about the host it was made for, with negative numbers exactly where a signed `char` makes them; `connect(resolveHostname(name))` reaches it or throws |
| `resolver_octets` | refutes a sentence of the documentation: `resolveHostname` returns no "standard IPv4 address" (`SocketUtils.h:10`) for a host with an octet from 128 on |
| `interfaces` | `mini_ifconfig` ends with an exception only where nothing catches it; `print` shows every interface with an address that nobody has touched, unless the sockets or the places of the list run out; a 0 of `configure` means that the setting is what was asked for, or junk if the text was no address, and that no other has changed but those the kernel makes from it; a -1 means that nothing has |
| `can` | a socket bound by name is bound to the interface of that name, not to all and not to one that has gone, unless it was renamed since the lookup; an exception costs a frame only if its interface has gone; the refinement of `DatagramBox`; a blocked receive wakes when the interface goes |
| `sctp` | the flag means the peer has ended its side; a timed call does not wait behind `poll`; a `send` that throws has sent nothing; a name that cannot be resolved makes `bind` and `connect` do nothing, and a `bind` that returns has bound all addresses |
| `stream_sigpipe` | refutes a sentence of the documentation: `send` without a connection kills the process, `SimpleSocket.h` says "SocketException will be thrown" |

The properties say exactly what is meant; each stands under a comment with the code it is
about. The type invariants of `Acceptor`, `Resolver`, `Interfaces`, `CANRawSocket` and
`SCTPSocket` are in no run, they are proved.

Met while modelling, visible in the modules, without a run of their own.

*Waiting.* A signal starts the timeout of `poll` again from the beginning
(`PollInterrupted`) and makes a
waiting `accept` throw (`AcceptInterrupted`; `mainpage.dox:13` says "Reentrant and Signal
Safe"). Two threads in `timedAccept` see one connection in `poll`, and the second waits in
`accept` beyond its timeout (`Beaten`; `TCPSocket.h:87-88` says "or the given timeout runs
out"). These two are the exceptions `WithinTimeout` makes. `timedReceive` of several bytes waits without a timeout
once the first is there, because of `MSG_WAITALL`, which is why `TimedReceiveReturns` does
not say that the call returns (`SimpleSocket.h:112` says "return after the given timespan").

*Results.* `receive` returns 0 at the end of the stream and leaves `peerDisconnected()` false
(`RecvEnds`; `SimpleSocket.h:175-176` says to use it after a 0). `connect` of a UNIX or CAN
socket does not reset that flag, so after one refused `send` it stays for every later peer
(`Connect` of `UnixDatagramSocket`). `shutdown(STOP_RECEIVE)` makes `timedReceive` report a
disconnected peer. `timedReceive` returns 1, `poll`'s result, with nothing read: of a TCP
socket without a connection (`CountIsRead` names it as its exception; `SimpleSocket.h:114-116`
says it throws there), and of a UDP socket after an ICMP error (`PollReturns` of `UDPSocket`;
`SimpleSocket.h:134` says "number of bytes received, 0 on timeout"). A `connect` that a signal
interrupts throws before it resets the flag, and the connection is made all the same: the flag
of an earlier one then stays set (`ConnectInterrupted`, the exception of `FlagMeansPeerGone`); a CAN socket's `timedReceiveFrom` returns 0 before its time
when its interface goes. `sendAll` of more bytes than an `int` holds returns a negative number
(`AsInt` of `StreamSocket`; `SendOutcome` fails with `IntMax = 1`). `shutdown` of an
unconnected datagram socket throws and takes effect all the same. `sendTo` on a connected UDP
socket goes to the address given, where `UDPSocket.h` says it is ignored.

*UNIX sockets.* `receiveFrom` takes the datagram of a sender without a name and then throws
`std::length_error`, which is no `SocketException` (`ExtractPathThrows`;
`UnixDatagramSocket.h:37` says "SocketException thrown if unable to receive datagram"). A
`bind` removes the path of a socket that is alive, the caller's own too, and has done so when
it fails (`BindEnds`); when its `unlink` fails it finds the file still there and throws.

*Names and interfaces.* The buffer of `resolveHostname` and `connect` belongs to the process:
with two threads they can return or reach the address of another host, or a mixture of two
(`disturbed`; `mainpage.dox:13` says "Reentrant"). A
`setInterfaceAddress`, `setNetmask` and the like of a text that is no address sets what was on
the stack, and reports success; `getHardwareAddress` pads its first octet only.
`mini_ifconfig` does not catch what `std::stoi` and `getNetworkInterfaces` throw.

*CAN.* `connect`, `getForeignInterface`, `disconnect` and `shutdown` always fail, since Linux
has none of them for CAN sockets, and sending does not bind (`CANRawSocket.h:22-24`, `39-40`
say otherwise). `setErrorFilter` passes `len` pointers as its length, which the kernel
refuses on 64-bit machines, where it wants 4 bytes; `setReceiveFilter` does the same, and is
right only where a pointer has 8 bytes, as many as a filter: where it has 4, half of the
filters are installed, and an odd number is refused (`PtrSize`). A `bind` can end at an
interface that was renamed after the lookup. `getLocalInterface` throws if the socket
is bound to all interfaces.

*SCTP.* `send` with `OVERRIDE_PRIMARY` always fails with `EINVAL`, so does `SHUTDOWN` with data,
and `ABORT` with data throws "fragmented". The stream number and the flags come from a
structure that stays uninitialised, since nothing in the library asks for data_io events. After an ABORT
`timedReceive` returns 0 at once with the flag down. The end of a message (`MSG_EOR`) is not
passed on: a message longer than the buffer comes in parts that look like messages. When one
of several addresses cannot be bound, `sctp_bindx` takes back the others but for one.

### Bounds

* `handle`: 3 threads, 3 handles, 2 sockets, 4 descriptors. Every operation involves at
  most two objects and two descriptors, so a third thread and object of each kind are
  bystanders, and a fourth descriptor is free to be handed out while three are held.
  Objects of one kind are interchangeable, hence the symmetry. The run uses the kernel
  where an interrupted `::close` has released the descriptor: there
  `CloseInterrupted` has an effect; where it has none it stutters. The proofs cover all.
* `Acceptor`: a timeout of 2 ticks is the least in which something can happen before,
  between and after; 2 threads in `timedAccept` and one in `accept` take connections from
  each other, 2 clients with backlogs 0 and 1 overfill the queue.
* `StreamSocket`: 2 bytes in one direction, buffers of 1 and 2, make a `sendAll` in two
  parts, a read of a part, and a read of both; the other direction carries only FIN and
  RST. The endings (disconnect, destroy, shutdown, being killed) are unbounded, and so
  are connections one after the other. `Window` = 2 bytes fill up. `stream_live` has buffers of 2
  and `Window` = 1, so that a receive is left with a part of what it waits for.
* `UDPSocket`: 2 peers (the connected one and another), a queue of 2.
* `UnixDatagramSocket`: 2 sockets and 1 path, which they take from each other, connect to
  and find empty, a file at it, or a socket that is closed; a queue of 1 is full after
  one datagram. A socket may also send to itself, be closed and created again. (With 3
  sockets there are more bystanders but no new operation: each involves a socket, its
  peer and the owner of a path.) Sockets are interchangeable, and with no liveness
  property in the run symmetry is sound.
* `Resolver`: 2 threads, 2 names and every address of 2 octets with the values 1 and 200,
  the second negative as a `char`. Octets are treated alike, and two are enough for a
  mixture of two addresses; the proofs cover any number.
* `Interfaces`: 3 names, of which 2 have a hardware address, and a list of `MaxListed` = 2
  places in place of 32, so that the list can be too short.
* `CANRawSocket`: 2 names and 2 indexes, so that a name can come back under another index
  and an interface under another name; a queue of 2, in which frames of both can be in either
  order; 0, 1 or 2 filters; pointers of 4 bytes, with which an odd number of filters is
  refused and an error filter of 1 accepted.
* `SCTPSocket`: 3 addresses (one of them fails, one is kept, one is taken back), messages and
  buffers of 1 to 3, so that a message comes in up to three parts, 2 messages in each direction.

### Fairness

`SocketHandle`, `UnixDatagramSocket`, `Resolver`, `Interfaces` and `SCTPSocket` have none and
no liveness property. In `Acceptor` time passes (`Tick`) and a
thread goes on with what it can do (`ThreadStep`); clients and signals are free. In
`StreamSocket`, `UDPSocket` and `CANRawSocket` a call the kernel lets return does return (`CallStep`), and
in `StreamSocket` TCP delivers (`Deliver`); nobody has to make another call, and UDP
promises nothing. All of it is weak fairness: each of these steps stays possible until it
is taken, or until the call is over by another one. `poll` may time out whenever nothing
is ready in the modules without a clock, and has to when nothing ever is. `stream_live`
assumes that SIGPIPE is ignored: a killed process leaves a call that never returns.

Four modules are checked without deadlock checking, because the system really may stop. In
`StreamSocket` and `SCTPSocket` a process can be killed, and two programs that `sendAll` to
each other wait for ever. In `UnixDatagramSocket` two sockets can send to each other while
both queues are full. In `CANRawSocket` a receive on a socket that is bound to nothing waits
for ever, when no interface can come any more.

## 4. What is proved

TLAPS proves, for every value of the constants that the assumptions allow (any number of
threads, objects, descriptors, clients, names, interfaces, bytes, messages, any timeout, any
length of a queue), what follows. The proofs have one shape: `IInv`, at the end of the
module it is about, is an invariant that every step preserves; TLC has checked it on the
instances of section 3. It is cut into parts, one for each variable, and there is a lemma
for each way a part is kept (`SameCalls`, `CallEnds`, `DatagramTaken` ...) and one for each
group of actions.

* `SocketHandle_proofs`: `Inductive` (`Spec => []IInv`) and from it `TypeCorrect`,
  `SingleOwner`, `NoDanglingOwner`, `NoLeak` and `ValidSockets`. Every step changes what
  is held in one of four ways (`HoldingsStep`: `Kept`, `Acquired`, `Moved`, `Closed`), and
  each of these preserves ownership and is a step of `StrictOwnership` or none:
  `Refinement` is `Spec => ImplementsStrictOwnership`. `AtMostOneOwner`,
  `HeldIsOpen` and `OpenIsHeld` need each other: a descriptor that is closed while it
  is held twice breaks the second, and only the third says that a descriptor
  `accept` hands out is not held already. They also need to know what an operation in
  progress looks like (`CallOK`: its object names a descriptor; `BusyOnce`: nobody else
  is closing it). `IInv` is the conjunction. Assumed are `DistinctAssumption` (objects,
  threads and special values differ) and `CloseAssumption`: a `::close` is repeated if
  and only if the interrupted one left the descriptor open. The second is what
  `TEMP_FAILURE_RETRY` has to be configured for; without it `HeldIsOpen` is false, which
  is the mutant of `IInv`.
* `Acceptor_proofs`: `TypeCorrect`; `NeverEarly` (`GivesUpInVain`), by the invariant
  `Waited`: `spent + left >= Timeout` in `poll`, with signals and any threads;
  `NeverLate` (`WithinTimeout`), by `OnTime`: unless something has set a call back, `spent +
  left <= Timeout` in `poll`, and in `accept` somebody is in the queue. A connection leaves it
  only through `AcceptReturns`, which puts the threads that counted on it into `delayed`.
  `AloneInTime`: a single thread, with no signals, is never set back and so never late.
* `SocketUtils_proofs`, about `Resolver`: `ResolverInductive` (`ResolverSpec => []ResolverInv`)
  and from it `ResolverTypeCorrect` (`ResolverTypeOK`) and `RightAddress`
  (`RightUnlessDisturbed`), for signed and unsigned `char`s; `NobodyDisturbs`: with one thread
  no call is ever disturbed. `CallOK` says that a
  call nobody disturbs finds its host in the buffer and has printed its octets so far; that
  another thread's answer cannot replace it follows from `LockOK`: a lookup makes scratch
  space of the buffer first, so while it lasts everybody who reads is disturbed. One lemma
  for each action; all that change a call and nothing else rest on `CallStep`. Assumed are
  `ResolverAssumption` (octets fit into 8 bits, a host name is not a sequence of numbers) and
  `ScratchAssumption` (scratch space is not an address).
* `StreamSocket_proofs`: all the properties of the run `stream`. `TypeCorrect`; `Order`
  (`StreamOrder`): no byte is lost, repeated or reordered; `Outcome` (`SendOutcome`);
  `FlagIsTrue` (`FlagMeansPeerGone`, by `staleFlag` also after an interrupted `connect`);
  `ZeroIsExplained` (`ZeroMeansTimeoutOrPeer`);
  `NothingAfterZero` (`EndOfStream`); `CountIsTrue` (`CountIsRead`). The heart is `InOrder`: the
  bytes an end has read, can read and will be sent are numbered on end, and reach up to what
  the peer has sent unless a RST cuts them off. That needs `WireOK` (FIN and RST follow all
  bytes, and whoever sent one is gone), since a `::send` may not add a byte behind a FIN;
  `ReceivingOK`, that a `::recv` is not begun after `poll` saw nothing, is what makes a 0 mean
  something; `SendingOK` relates a call that is half done to what was sent. `Outcome` assumes
  `LensFitInt`: the lengths passed to `sendAll` fit into an int. Without that it is false
  (section 3). `DataLen` is a `CHOOSE`; that there is something to choose is the least-element
  principle on the naturals (`DataLenExists`), so no recursion is involved. `Refinement` is
  `Spec => ImplementsByteStream`: a step in which no byte is sent or received and nobody is
  told 0 is a `Close`, a `GoOn` or none (`QuietStep`), `SendTakes` is a `Send`, `RecvTakes` a
  `Receive` because of `InOrder`, `RecvEnds` with a 0 a `ReceiveZero` because of `WireOK` and
  `ZeroOK`. It says more than the invariants: that nothing received is ever taken back, that
  only the next `connect` starts the streams again, and that an end whose socket cannot
  send any more sends nothing else in this connection.
* `UnixDatagramSocket_proofs`: `TypeCorrect`; `PathSafe` (`PathIsKept`): a living socket keeps its
  path but for `bind` and other programs, because a `::bind` finds its path free and a
  destructor only makes a dead entry of its own; `FlagIsTrue` (`FlagHasReason`); `Lost`
  (`LostOnlyIfUnnamed`): the sender of a datagram that is lost with an exception has no name at
  that moment, also if it was bound after it sent. That rests on `NamesAreTrue` (the name a
  datagram arrives with is its sender's), which `bind`, the destructor and the constructor
  preserve because a closed socket has no name and is in no call (`ClosedIsUnnamed`,
  `OpenInCall`). Assumed is `UnixAssumption` (special values differ).
* `SocketUtils_proofs`, about `Interfaces`: `TypeCorrect`; `Handled` (`ExceptionsAreHandled`); `AllShown`
  (`PrintShowsTheCalm`), by `CalmOK`: what nothing has disturbed has an address all the time,
  is in the list once there is one, and so none of the `ioctl`s of `print` can fail there
  (`CalmDoesNotThrow`); `ZeroIsTrue` (`ZeroMeansSet`), from what each setter can change
  (`ChangesAre`). No assumption beyond
  `InterfacesAssumption` (a name that is too long is not one of an interface).
* `UDPSocket_proofs`: `TypeCorrect` (`TypeOK`: no call returns a negative count);
  `NothingMissed` (`NoDatagramMissed`); `Answered` (`AnsweredAtOnce`), assuming that one thread
  receives, since two can see the same datagram in `poll`; what the others do (`AddressStep`)
  neither takes a datagram nor opens again what is shut. `Refinement` is
  `Spec => ImplementsDatagramBox`: an arrival is a `Put`, `RecvTakes` a `Take`, the beginning of
  a call a `Forget`, the destructor a `Close`, the constructor a `Reopen`, and all other steps
  leave queue and results alone. `Take` needs `NoneYet`, that a call which can still receive
  has received nothing; a `Put` only into an open socket and `Reopen` with an empty box need
  `ClosedIsEmpty`. It is proved for any number of threads that receive at the same time.
* `CANRawSocket_proofs`: `TypeCorrect`; `SetUp` (`BoundAsAsked`): `NamedOK` keeps the name of the
  interface that was looked up until it is gone or renamed, and `PluggedOK` that its index is
  not given to another one, so a `::bind` that succeeds is to the interface of that name;
  `NoFrameLost` (`LostOnlyWithInterface`). `FrameOK` says that the name looked up is that of the
  frame. `Prompt` (`AnsweredAtOnce`): behind `poll`
  there is a frame. `Refinement` is `Spec => ImplementsDatagramBox`: every step but three leaves
  the queue alone and forgets the frame of the call or keeps it (`Quiet`, a `Forget` or none);
  `Arrive` and a transmission the socket hears itself are a `Put`, `RecvTakes` is a `Take`
  because of `NoFrameYet`.
* `SCTPSocket_proofs`: `TypeCorrect`; `FlagIsTrue`
  (`FlagMeansPeerShut`); `NothingSent` (`ThrowSentNothing`); `AllBoundOrNothing` (`AllOrNothing`).
  `SendOK` is what is left of the flags once a message waits for room. `Prompt`
  (`AnsweredAtOnce`): what `poll` has seen, a message or the end, is there until it is received
  (`AnsweredStep`). Assumed are positive sizes of messages (`SCTPAssumption`).

Only model-checked: liveness (`EveryoneIsServed`, `ReceiveWakes`, `TimedReceiveReturns`), which
needs `ENABLED` and is outside the prover. Every other property of a run that passes is stated
by a theorem, and every component has its type invariant proved.

## 5. Not modelled, and the plan

Order of what comes next:

1. What `SCTPSocket` inherits from `SimpleSocket`: `disconnect`, `shutdown` and the `send` without
   a stream.
2. `resolveService`, which reads one number of the static structure of `getservbyname`: the
   hazard is that of `Resolver` without the mixtures.

Not modelled, because nothing would be checked by it: texts of exceptions, the order in which
`errno` is read, the multicast options of `UDPSocket` (they choose which datagrams arrive, and
any may), getters that pass a value from the kernel to the caller, the text
`getHardwareAddress` makes, `shutdown` of a TCP socket that is not connected (it throws; the
kernel keeps a trace that only a later connection could show), urgent data (`POLLPRI`), IPv6
(the library has none), the stream and the flags that SCTP's `receive` returns (nothing fills
them in). Whom a pending ICMP error of a UDP socket belongs to has no property,
since nothing in the code protects a new peer from an error of the former one: `connect`
resets the flag and the error sets it again. `PROJECT.json` keeps the hazard.
