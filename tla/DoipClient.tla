----------------------------- MODULE DoipClient -----------------------------
(***************************************************************************)
(* One DoIP client (dm_doip_client.c), the kernel's side of its connection *)
(* and the server.  The server's bytes are a stream: the client reads what *)
(* has arrived, into a buffer it never clears, and looks at one message.   *)
(***************************************************************************)
EXTENDS DoipMessage, FiniteSets

\* The messages of the API.
Ipc == INSTANCE IpcMessage WITH Junk <- 0

CONSTANTS
  Fds,          \* descriptors of sockets; 0 is none of them
  RxLen, TxLen, \* lengths of the buffers (RXTX_BUFF_LEN_DEF)
  ReadLens,     \* lengths a read may have if not all has arrived
  Configs,      \* configurations the user asks for (doipc_config_t)
  EntityAddr,   \* logical address of the server
  DiagRequests, \* requests of the UDS client
  DiagResponses,\* its ECU's responses
  MaxConnects,  \* bound on connections
  MaxMessages   \* bound on messages, but for those about routing and replies

\* doipc_config_t
Config ==
  [ver : Byte, sa_addr : Word, src_ip : DWord, src_port : Word, dst_ip : DWord,
   dst_port : Word]

ASSUME DoipAssumption ==
  /\ Fds \subseteq Nat \ {0}
  /\ RxLen \in Nat /\ RxLen > ActivationResCodeOffset
  /\ ReadLens \subseteq 1..RxLen
  /\ TxLen \in Nat /\ TxLen >= ActivationReqOemOffset
  /\ Configs \subseteq Config
  /\ EntityAddr \in Word
  /\ DiagRequests \subseteq Seq(Byte) /\ DiagResponses \subseteq Seq(Byte)
  /\ \A msg \in DiagResponses : Len(msg) + DiagDataOffset - HeaderLen \in DWord
  /\ MaxConnects \in Nat /\ MaxMessages \in Nat

VARIABLES       \* the client
  created,      \* it exists
  config,       \* as the message has it that asked for the connection
  con_stat,     \* "DISCONNECT", "PROCESS" or "SUCCESS"
  isactive,     \* routing is activated
  tcp_sfd,      \* socket of the connection, or -1
  udp_sfd,      \* socket for vehicle discovery, or -1
  tcprecv,      \* descriptor the active read watcher watches, else -1
  tcpsend,      \* descriptor the active write watcher watches, else -1
  rxbuf         \* what it last read, over what it read before

VARIABLES       \* the kernel
  open,         \* open descriptors
  tcp           \* the connection: "none", "syn", "refused", "open", "closed"

VARIABLES       \* the connection and the server
  toClient,     \* bytes sent by the server and not yet read
  toServer,     \* messages sent by the client and not yet read
  granted       \* the server has activated routing on this connection

VARIABLES       \* history and bounds
  begins,       \* where the server's messages begin in toClient
  framed,       \* no read on this connection has ended within a message
  asked,        \* the configuration the user asked for last
  connects,     \* connections asked for
  made          \* messages counted by MaxMessages

client == <<created, config, con_stat, isactive, tcp_sfd, udp_sfd, tcprecv, tcpsend, rxbuf>>
kernel == <<open, tcp>>
server == <<toClient, toServer, granted>>
vars == <<client, kernel, server, begins, framed, asked, connects, made>>

NoFd == -1

\* A new client, and its configuration, is zeroed.
NoConfig ==
  [ver |-> 0, sa_addr |-> 0, src_ip |-> 0, src_port |-> 0, dst_ip |-> 0,
   dst_port |-> 0]

TypeOK ==
  /\ created \in BOOLEAN
  /\ DOMAIN config = DOMAIN NoConfig
  /\ asked \in Configs \cup {NoConfig}
  /\ con_stat \in {"DISCONNECT", "PROCESS", "SUCCESS"}
  /\ isactive \in BOOLEAN
  /\ tcp_sfd \in Fds \cup {NoFd}
  /\ udp_sfd \in Fds \cup {NoFd}
  /\ tcprecv \in Fds \cup {NoFd}
  /\ tcpsend \in Fds \cup {NoFd}
  /\ rxbuf \in [1..RxLen -> Byte]
  /\ open \subseteq Fds
  /\ tcp \in {"none", "syn", "refused", "open", "closed"}
  /\ toClient \in Seq(Byte)
  /\ toServer \in Seq(Seq(Byte))
  /\ granted \in BOOLEAN
  /\ begins \subseteq Nat
  /\ framed \in BOOLEAN
  /\ connects \in 0..MaxConnects
  /\ made \in 0..MaxMessages

Init ==
  /\ created = FALSE
  /\ config = NoConfig
  /\ asked = NoConfig
  /\ con_stat = "DISCONNECT"
  /\ isactive = FALSE
  /\ tcp_sfd = NoFd
  /\ udp_sfd = NoFd
  /\ tcprecv = NoFd
  /\ tcpsend = NoFd
  /\ rxbuf = [i \in 1..RxLen |-> 0]
  /\ open = {}
  /\ tcp = "none"
  /\ toClient = <<>>
  /\ toServer = <<>>
  /\ granted = FALSE
  /\ begins = {}
  /\ framed = TRUE
  /\ connects = 0
  /\ made = 0

-----------------------------------------------------------------------------
(***************************************************************************)
(* Connecting and disconnecting                                            *)
(***************************************************************************)

\* Mutant: the socket for vehicle discovery is not closed.
ClosedTcp == open \ {tcp_sfd}

\* What is left open when the client has closed its sockets.
Closed == open \ {tcp_sfd, udp_sfd}

\* The connection is gone, with what was in it.
NoConnection ==
  /\ toClient' = <<>>
  /\ toServer' = <<>>
  /\ granted' = FALSE
  /\ begins' = {}
  /\ framed' = TRUE

\* Mutant: the read watcher stays active.
DisconnectWatching ==
  /\ isactive' = FALSE
  /\ con_stat' = "DISCONNECT"
  /\ tcpsend' = NoFd
  /\ tcp_sfd' = NoFd
  /\ udp_sfd' = NoFd
  /\ open' = Closed
  /\ tcp' = "none"
  /\ NoConnection
  /\ UNCHANGED tcprecv

Disconnect ==
  /\ isactive' = FALSE
  /\ con_stat' = "DISCONNECT"
  /\ tcprecv' = NoFd
  /\ tcpsend' = NoFd
  /\ tcp_sfd' = NoFd
  /\ udp_sfd' = NoFd
  /\ open' = Closed
  /\ tcp' = "none"
  /\ NoConnection

\* What arrives of each configuration.
Arriving == [c \in Configs |-> Ipc!DoipcCreateFields(Ipc!DoipcCreateMessage(c))]

\* The API asks for a connection: the client is created if there is none (else it
\* keeps its buffer), configured, but for the version, and disconnected.
ConnectAsked ==
  /\ connects < MaxConnects
  /\ connects' = connects + 1
  /\ created' = TRUE
  /\ \E c \in Configs :
       /\ asked' = c
       /\ config' = [Arriving[c] EXCEPT !.ver = Version]
  /\ rxbuf' = IF created THEN rxbuf ELSE [i \in 1..RxLen |-> 0]
  /\ isactive' = FALSE
  /\ NoConnection
  /\ UNCHANGED made

\* The kernel gives the lowest free descriptor.
Lowest(fd, taken) ==
  fd \notin taken /\ \A other \in Fds : other < fd => other \in taken

Sockets(tcpfd, udpfd) ==
  /\ Lowest(tcpfd, Closed)
  /\ Lowest(udpfd, Closed \cup {tcpfd})
  /\ tcp_sfd' = tcpfd
  /\ udp_sfd' = udpfd
  /\ open' = Closed \cup {tcpfd, udpfd}

\* There is no socket, or one only: that one is kept until the next time.
ConnectNoSocket ==
  /\ ConnectAsked
  /\ con_stat' = "DISCONNECT"
  /\ tcprecv' = NoFd
  /\ tcpsend' = NoFd
  /\ udp_sfd' = NoFd
  /\ \/ tcp_sfd' = NoFd /\ open' = Closed
     \/ \E fd \in Fds : /\ Lowest(fd, Closed)
                       /\ tcp_sfd' = fd
                       /\ open' = Closed \cup {fd}
  /\ tcp' = "none"

\* Mutant: the watchers are set up and not started.
ConnectInProgressUnwatched(tcpfd, udpfd) ==
  /\ ConnectAsked
  /\ Sockets(tcpfd, udpfd)
  /\ con_stat' = "PROCESS"
  /\ tcprecv' = NoFd
  /\ tcpsend' = NoFd
  /\ tcp' = "syn"

\* The connection is in progress: both watchers wait for its end.
ConnectInProgress(tcpfd, udpfd) ==
  /\ ConnectAsked
  /\ Sockets(tcpfd, udpfd)
  /\ con_stat' = "PROCESS"
  /\ tcprecv' = tcpfd
  /\ tcpsend' = tcpfd
  /\ tcp' = "syn"

\* It is made at once: routing activation is not requested.
ConnectAtOnce(tcpfd, udpfd) ==
  /\ ConnectAsked
  /\ Sockets(tcpfd, udpfd)
  /\ con_stat' = "SUCCESS"
  /\ tcprecv' = tcpfd
  /\ tcpsend' = NoFd
  /\ tcp' = "open"

\* It is refused at once.
ConnectRefused == ConnectAsked /\ Disconnect

\* The user of the UDS client gives it back.
Destory ==
  /\ created
  /\ created' = FALSE
  /\ Disconnect
  /\ UNCHANGED <<config, rxbuf, asked, connects, made>>

Connect ==
  \/ ConnectNoSocket \/ ConnectRefused
  \/ \E tcpfd, udpfd \in Fds : \/ ConnectInProgress(tcpfd, udpfd)
                              \/ ConnectAtOnce(tcpfd, udpfd)

-----------------------------------------------------------------------------
(***************************************************************************)
(* The event loop                                                          *)
(***************************************************************************)

\* A message is sent if the socket takes it.
Send(m) ==
  \/ tcp = "open" /\ toServer' = Append(toServer, m)
  \/ UNCHANGED toServer

Watched == tcprecv = tcp_sfd \/ tcpsend = tcp_sfd

\* Mutant: the client does not wait for the answer to its request.
ConnectSucceededActive ==
  /\ con_stat = "PROCESS"
  /\ Watched
  /\ tcp \in {"open", "closed"}
  /\ con_stat' = "SUCCESS"
  /\ isactive' = TRUE
  /\ Send(RoutingRequest(config.sa_addr))
  /\ tcpsend' = NoFd
  /\ UNCHANGED <<created, config, tcp_sfd, udp_sfd, tcprecv, rxbuf, kernel, toClient,
                 granted, begins, framed, asked, connects, made>>

\* Either watcher finds that the connection is made: routing is requested, once.
ConnectSucceeded ==
  /\ con_stat = "PROCESS"
  /\ Watched
  /\ tcp \in {"open", "closed"}
  /\ con_stat' = "SUCCESS"
  /\ IF isactive THEN UNCHANGED toServer ELSE Send(RoutingRequest(config.sa_addr))
  /\ tcpsend' = NoFd
  /\ UNCHANGED <<created, config, isactive, tcp_sfd, udp_sfd, tcprecv, rxbuf, kernel,
                 toClient, granted, begins, framed, asked, connects, made>>

\* Or that it is not.
ConnectFailed ==
  /\ con_stat = "PROCESS"
  /\ Watched
  /\ tcp = "refused"
  /\ Disconnect
  /\ UNCHANGED <<created, config, rxbuf, asked, connects, made>>

\* Mutant: only errors disconnect, and the end of the stream is none.
ConnectionLostIgnored ==
  /\ con_stat = "SUCCESS"
  /\ tcprecv = tcp_sfd
  /\ tcp = "closed"
  /\ toClient = <<>>
  /\ UNCHANGED vars

\* The peer has closed, and everything was read.
ConnectionLost ==
  /\ con_stat = "SUCCESS"
  /\ tcprecv = tcp_sfd
  /\ tcp = "closed"
  /\ toClient = <<>>
  /\ Disconnect
  /\ UNCHANGED <<created, config, rxbuf, asked, connects, made>>

\* Mutant: a zero is put behind what was read.
FilledTerminated(n) ==
  [i \in 1..RxLen \cup {n + 1} |->
     IF i <= n THEN toClient[i] ELSE IF i = n + 1 THEN 0 ELSE rxbuf[i]]

\* The buffer with n bytes of the stream read into it.
Filled(n) == [i \in 1..RxLen |-> IF i <= n THEN toClient[i] ELSE rxbuf[i]]

\* A read takes all that has arrived: the stream, or less of it.
Arrived == ReadLens \cup {IF Len(toClient) < RxLen THEN Len(toClient) ELSE RxLen}

\* n bytes are read: one message, several, or less than one.
Read(n) ==
  /\ con_stat = "SUCCESS"
  /\ tcprecv = tcp_sfd
  /\ n \in 1..Len(toClient)
  /\ rxbuf' = Filled(n)
  /\ toClient' = SubSeq(toClient, n + 1, Len(toClient))
  /\ begins' = {p \in 0..(Len(toClient) - n) : n + p \in begins}
  /\ framed' = (framed /\ n \in begins \cup {Len(toClient)})
  /\ UNCHANGED <<created, config, con_stat, tcp_sfd, udp_sfd, tcprecv, tcpsend,
                 kernel, granted, asked, connects, made>>

ReadType(n) == IF n >= HeaderLen THEN HeaderType(rxbuf') ELSE -1

\* Mutant: any answer activates.
RoutingAnsweredAny(n) ==
  /\ Read(n)
  /\ ReadType(n) = RoutingActivationResponse
  /\ isactive' = TRUE
  /\ UNCHANGED toServer

\* The code is where a whole message has it, be it read now or before.
RoutingAnswered(n) ==
  /\ Read(n)
  /\ ReadType(n) = RoutingActivationResponse
  /\ isactive' = (rxbuf'[ActivationResCodeOffset + 1] = Activated)
  /\ UNCHANGED toServer

AliveChecked(n) ==
  /\ Read(n)
  /\ ReadType(n) = AliveCheckRequest
  /\ IF isactive THEN Send(AliveResponse(config.sa_addr)) ELSE UNCHANGED toServer
  /\ UNCHANGED isactive

\* Anything else is dropped, the server's diagnostic messages too.
ReadIgnored(n) ==
  /\ Read(n)
  /\ ReadType(n) \notin {RoutingActivationResponse, AliveCheckRequest}
  /\ UNCHANGED <<isactive, toServer>>

\* Mutant: the client does not ask whether routing is active.
DiagRequestUnasked(ta, msg) ==
  /\ created
  /\ con_stat = "SUCCESS"
  /\ made < MaxMessages
  /\ made' = made + 1
  /\ Send(DiagnosticRequest(config.sa_addr, ta, msg))
  /\ UNCHANGED <<client, kernel, toClient, granted, begins, framed, asked, connects>>

\* The UDS client has a request to send.
DiagRequest(ta, msg) ==
  /\ created
  /\ isactive
  /\ Len(msg) <= TxLen - DiagTargetOffset
  /\ made < MaxMessages
  /\ made' = made + 1
  /\ Send(DiagnosticRequest(config.sa_addr, ta, msg))
  /\ UNCHANGED <<client, kernel, toClient, granted, begins, framed, asked, connects>>

Loop ==
  \/ ConnectSucceeded \/ ConnectFailed \/ ConnectionLost
  \/ \E n \in Arrived : RoutingAnswered(n) \/ AliveChecked(n) \/ ReadIgnored(n)

-----------------------------------------------------------------------------
(***************************************************************************)
(* The kernel and the server                                               *)
(***************************************************************************)

TcpBecomes(from, to) ==
  /\ tcp = from
  /\ tcp' = to
  /\ UNCHANGED <<client, open, server, begins, framed, asked, connects, made>>

Accepted == TcpBecomes("syn", "open")

\* The server refuses, or does not answer in time.
Refused == TcpBecomes("syn", "refused")

\* The server closes: what it has sent can still be read, unless it resets.
ServerClosed ==
  /\ tcp = "open"
  /\ tcp' = "closed"
  /\ \/ UNCHANGED <<toClient, begins>>
     \/ toClient' = <<>> /\ begins' = {}
  /\ toServer' = <<>>
  /\ granted' = FALSE
  /\ UNCHANGED <<client, open, framed, asked, connects, made>>

ServerSends(m) ==
  /\ toClient' = toClient \o m
  /\ begins' = begins \cup {Len(toClient)}

\* The server reads a message: it answers a request to activate routing as it likes.
ServerReads ==
  /\ tcp = "open"
  /\ toServer # <<>>
  /\ toServer' = Tail(toServer)
  /\ IF HeaderType(Head(toServer)) = RoutingActivationRequest
     THEN \E code \in {Denied, Activated} :
            /\ granted' = (code = Activated)
            /\ ServerSends(RoutingResponse(Tester(Head(toServer)), EntityAddr, code))
     ELSE UNCHANGED <<toClient, begins, granted>>
  /\ UNCHANGED <<client, kernel, framed, asked, connects, made>>

\* The server asks whether the client is alive, or passes a response of the ECU.
ServerWrites ==
  /\ tcp = "open"
  /\ made < MaxMessages
  /\ made' = made + 1
  /\ \/ ServerSends(AliveRequest)
     \/ \E msg \in DiagResponses :
          ServerSends(DiagnosticResponse(EntityAddr, asked.sa_addr, msg))
  /\ UNCHANGED <<client, kernel, toServer, granted, framed, asked, connects>>

Peer == Accepted \/ Refused \/ ServerClosed \/ ServerReads \/ ServerWrites

-----------------------------------------------------------------------------

Next ==
  \/ Connect \/ Destory \/ Loop \/ Peer
  \/ \E msg \in DiagRequests : DiagRequest(EntityAddr, msg)

Spec == Init /\ [][Next]_vars

\* The loop runs the handlers of sockets that are ready, and the kernel ends an
\* attempt to connect.  Nothing is assumed of the server or of the user.
Fairness == WF_vars(Loop) /\ WF_vars(Accepted \/ Refused)

FairSpec == Spec /\ Fairness

-----------------------------------------------------------------------------
(***************************************************************************)
(* Properties                                                              *)
(***************************************************************************)

\* The open descriptors are those the client holds: none is lost, however often it
\* connects anew, whichever step of that fails (dm_doipc_disconnect_server).
DescriptorsHeld == open = {tcp_sfd, udp_sfd} \ {NoFd}

\* A watcher watches the socket of the connection, and is active when that has a
\* handler to call: no handler runs for a closed descriptor or a freed client.
WatchersHeld ==
  /\ tcprecv = IF con_stat = "DISCONNECT" THEN NoFd ELSE tcp_sfd
  /\ tcpsend = IF con_stat = "PROCESS" THEN tcp_sfd ELSE NoFd
  /\ con_stat # "DISCONNECT" => created /\ tcp_sfd # NoFd

\* As long as no read has ended within a message, a client is active on a connection
\* only if the server has activated routing on this very connection: an answer to an
\* earlier one, though it stays in the buffer, does not count, nor one that was read
\* behind another message.
ActiveIsGranted == framed /\ isactive /\ tcp = "open" => granted

\* What is under way to a server bears the address the user has asked for, though
\* that may change with each connection; and, with the same provision, it is no
\* diagnostic message unless the server has activated routing.
RoutedOnly ==
  \A k \in 1..Len(toServer) :
    /\ Tester(toServer[k]) = asked.sa_addr
    /\ framed /\ ~granted => HeaderType(toServer[k]) # DiagnosticMessage

\* The provision is needed.  What isactive is to say (dm_doip_client.h): routing is
\* activated.  A denial of which the header is read alone is completed from the
\* buffer, where the answer to an earlier connection may stand.
ActiveMeansActivated == isactive /\ tcp = "open" => granted

\* An attempt to connect ends, though the client has no timer for it.
ConnectingEnds == con_stat = "PROCESS" ~> con_stat # "PROCESS"

\* A connection that the server has closed is disconnected by the client.
LostIsNoticed ==
  tcp = "closed" /\ con_stat = "SUCCESS" ~> con_stat # "SUCCESS" \/ tcp # "closed"

Link ==
  CASE ~created -> "none"
    [] created /\ con_stat = "DISCONNECT" -> "disconnected"
    [] created /\ con_stat = "PROCESS" -> "connecting"
    [] created /\ con_stat = "SUCCESS" -> IF isactive THEN "active" ELSE "connected"

\* The client makes the steps the diag master relies on.
LinkOf == INSTANCE DoipLink WITH link <- Link
ImplementsLink == LinkOf!Spec

-----------------------------------------------------------------------------
(***************************************************************************)
(* The inductive invariant behind the safety properties                    *)
(***************************************************************************)

\* The client is active on an established connection only, and a connection that is
\* not established carries nothing.
ConnectionIsFresh ==
  /\ con_stat # "SUCCESS" => ~isactive
  /\ tcp = "syn" => con_stat = "PROCESS" /\ toClient = <<>> /\ begins = {} /\ ~granted
  /\ tcp # "open" => toServer = <<>>

\* Every message to the server has the address the user asked for.
Addressed ==
  /\ config.sa_addr = asked.sa_addr
  /\ \A k \in 1..Len(toServer) :
       /\ Len(toServer[k]) >= DiagTargetOffset
       /\ Tester(toServer[k]) = asked.sa_addr

\* What follows an offset of a stream.
From(s, offset) == SubSeq(s, offset + 1, Len(s))

\* The message at the beginning of a stream ends there.
MessageEnd(s) == HeaderLen + HeaderLength(s)

IsResponse(s) == HeaderType(s) = RoutingActivationResponse

\* A stream is messages, one behind the other, that begin at the offsets in starts,
\* and at no other.
Framing(s, starts) ==
  /\ starts \subseteq 0..Len(s)
  /\ s # <<>> => 0 \in starts
  /\ \A p \in starts :
       /\ HasHeader(From(s, p))
       /\ IsResponse(From(s, p)) => MessageEnd(From(s, p)) > ActivationResCodeOffset
       /\ p + MessageEnd(From(s, p)) \in starts \cup {Len(s)}
       /\ \A q \in starts : p < q => p + MessageEnd(From(s, p)) <= q

\* A request to activate routing is under way.
IsRequest(k) == HeaderType(toServer[k]) = RoutingActivationRequest
Requested == \E k \in 1..Len(toServer) : IsRequest(k)

\* What the answers to it in a stream promise has happened, and no other request
\* can change it.
Promised(s, starts) ==
  \A p \in starts : IsResponse(From(s, p)) =>
    /\ con_stat = "SUCCESS" /\ ~Requested
    /\ From(s, p)[ActivationResCodeOffset + 1] = Activated => granted

\* Routing is requested once on a connection, and active only as the server granted.
Activation ==
  framed /\ tcp = "open" =>
    /\ Framing(toClient, begins) /\ Promised(toClient, begins)
    /\ isactive => granted
    /\ Requested => con_stat = "SUCCESS" /\ ~granted
    /\ granted => con_stat = "SUCCESS"
    /\ \A j, k \in 1..Len(toServer) : IsRequest(j) /\ IsRequest(k) => j = k

ClientInv ==
  TypeOK /\ DescriptorsHeld /\ WatchersHeld /\ ConnectionIsFresh /\ Addressed

SafetyInv == ClientInv /\ Activation /\ RoutedOnly
=============================================================================
