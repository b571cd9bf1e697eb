---------------------------- MODULE LocalSession ----------------------------
(***************************************************************************)
(* One session of ss-local (src/src/local.c): the inbound SOCKS5 endpoint *)
(* ("server"), the upstream endpoint ("remote"), the libev watchers that  *)
(* drive them, and the two peers (the SOCKS5 client and the upstream).   *)
(*                                                                         *)
(* Every callback of local.c is one atomic action: libev runs on a single *)
(* thread and a callback runs to completion.  Bytes are abstract tokens;  *)
(* a buffer is a function 1..BUF_SIZE -> token so that stale contents     *)
(* beyond the written length stay visible, exactly as in the C buffers.  *)
(* The stream cipher is modelled by what it does to each token ("enc_"   *)
(* tag on encrypt, tag removed on decrypt); key setup and IVs are left    *)
(* to the cipher collaborator and not modelled.                           *)
(***************************************************************************)
EXTENDS Integers, Sequences, SequencesExt, FiniteSets

CONSTANTS
  BUF_SIZE,        \* capacity of server->buf and remote->buf, in tokens
  Data,            \* the payload the client sends after the handshake
  UpData,          \* the payload the upstream sends back (plaintext)
  Dests,           \* destination addresses a client may request
  AclDirect,       \* destinations acl_contains_ip/acl_contains_domain match
  acl,             \* global flag `acl`: an access list was loaded
  udprelay,        \* global flag `udprelay` (-u)
  FastOpen,        \* initial value of the global `fast_open`
  Fragment,        \* TRUE: a recv may return any prefix of what the client wrote
  ResolveMayFail,  \* connect_to_remote may fail (getaddrinfo / socket)
  CipherMayFail    \* ss_encrypt / ss_decrypt may return NULL

ASSUME BUF_SIZE \in Nat /\ BUF_SIZE >= 8
ASSUME AclDirect \subseteq Dests
ASSUME \A b \in {acl, udprelay, FastOpen, Fragment, ResolveMayFail,
                 CipherMayFail} : b \in BOOLEAN

Junk == "junk"   \* a byte of uninitialised (malloc'ed, never written) memory

(* SOCKS5 wire units, as tokens.  A request is                             *)
(* ver cmd rsv atyp addr port; the shadowsocks header is atyp addr port.  *)
Greeting == <<"g_ver", "g_methods">>
Cmds  == {"CONNECT", "BIND", "UDP_ASSOC"}   \* "BIND" stands for every unsupported cmd
Atyps == {"IPV4", "DOMAIN", "IPV6", "BAD"}  \* "BAD" stands for every other atyp
Request(r) == <<"r_ver", r.cmd, "r_rsv", r.atyp, r.dst, "r_port">>
HDR_LEN == 3     \* addr_len of the shadowsocks address header (atyp addr port)
REQ_LEN == 3 + HDR_LEN   \* ver cmd rsv, then the address header

(* Replies ss-local writes to the client. *)
MethodSelect    == "METHOD_SELECT"      \* 05 00
CmdNotSupported == "CMD_NOT_SUPPORTED"  \* 05 07 00 01
ReplyZero       == "REPLY_ZERO"         \* 05 00 00 01 0.0.0.0:0
ReplyBound      == "REPLY_BOUND"        \* 05 00 00 01 <getsockname>

(* ss_encrypt / ss_decrypt, token by token. *)
EncTok(t) == "enc_" \o t
Enc(s) == [i \in DOMAIN s |-> EncTok(s[i])]
PlainTokens == {Junk} \cup ToSet(Greeting) \cup Cmds \cup Atyps \cup Dests
               \cup {"r_ver", "r_rsv", "r_port"} \cup ToSet(Data) \cup ToSet(UpData)
(* Seeded fault: the return path forgets to decipher. *)
DecMissing(s) == s
Dec(s) == [i \in DOMAIN s |-> CHOOSE t \in PlainTokens : EncTok(t) = s[i]]

(* A recv of n bytes into a buffer overwrites its first n slots only. *)
WriteBuf(buf, s) == [i \in DOMAIN buf |-> IF i <= Len(s) THEN s[i] ELSE buf[i]]

(* The n bytes at offset idx of a buffer: what send(fd, buf + idx, n) sends. *)
(* Seeded fault: send from buf instead of buf + buf_idx. *)
PendingFromStart(buf, idx, n) == SubSeq(buf, 1, n)
Pending(buf, idx, n) == SubSeq(buf, idx + 1, idx + n)

(* How many bytes of remote->buf are handed to the upstream after the     *)
(* request was read in n bytes: `r -= 3 + addr_len`, and, unless direct,  *)
(* `r += addr_len` for the header copied in front of the trailing bytes.  *)
(* Seeded fault: the `r += addr_len` for the copied header is dropped. *)
RelayLenNoHeader(isDirect, n) == n - REQ_LEN
RelayLen(isDirect, n) == IF isDirect THEN n - REQ_LEN ELSE n - 3

(* A byte read from the buffer is interpreted as one of the values S; a  *)
(* byte that is not a real value of S (stale or uninitialised memory)    *)
(* may be read as any of them.                                            *)
Readings(tok, S) == IF tok \in S THEN {tok} ELSE S

VARIABLES
  alive,            \* struct server allocated (not yet close_and_free_server)
  remote_alive,     \* struct remote allocated (server->remote != NULL)
  crashed,          \* the process dereferenced NULL and died
  stage,            \* server->stage: 0, 1 or 5
  direct,           \* remote->direct
  connected,        \* remote->send_ctx->connected
  fast_open,        \* the process-wide `fast_open` flag
  server_recv_io, server_send_io,   \* server->recv_ctx->io / send_ctx->io armed
  remote_recv_io, remote_send_io,   \* remote->recv_ctx->io / send_ctx->io armed
  send_timer,       \* remote->send_ctx->watcher (connect deadline) armed
  recv_timer,       \* remote->recv_ctx->watcher (idle deadline) armed
  server_buf, server_buf_idx, server_buf_len,
  remote_buf, remote_buf_idx, remote_buf_len,
  req,              \* what the client asks for: cmd, atyp, dst, pipelining
  cli_pos,          \* tokens of ClientStream the client has written
  cli_read,         \* tokens of ClientStream ss-local has consumed
  cli_closed,       \* the client has shut its socket
  to_client,        \* everything ss-local delivered to the client
  to_upstream,      \* everything ss-local delivered to the upstream
  up_pos,           \* tokens of UpWire the upstream has written
  up_read,          \* tokens of UpWire ss-local has consumed
  up_closed         \* the upstream has shut its socket

session == <<alive, remote_alive, crashed, stage, direct, connected, fast_open>>
watchers == <<server_recv_io, server_send_io, remote_recv_io, remote_send_io,
              send_timer, recv_timer>>
buffers == <<server_buf, server_buf_idx, server_buf_len,
             remote_buf, remote_buf_idx, remote_buf_len>>
client == <<req, cli_pos, cli_read, cli_closed, to_client>>
upstream == <<to_upstream, up_pos, up_read, up_closed>>
vars == <<session, watchers, buffers, client, upstream>>

ClientStream == Greeting \o Request(req) \o Data
(* The client writes the greeting, the request and each payload token in *)
(* one write each; these are the stream offsets where the writes end.    *)
WriteEnds == {Len(Greeting), Len(Greeting) + REQ_LEN}
             \cup {Len(Greeting) + REQ_LEN + k : k \in 1..Len(Data)}
(* What the upstream puts on the wire: ciphertext unless the session is direct. *)
UpWire == IF direct THEN UpData ELSE Enc(UpData)

-----------------------------------------------------------------------------
(* close_and_free_remote followed by close_and_free_server: every watcher *)
(* and timer of both endpoints is stopped and both structs are freed.    *)
CloseAndFree ==
  /\ alive' = FALSE
  /\ remote_alive' = FALSE
  /\ server_recv_io' = FALSE /\ server_send_io' = FALSE
  /\ remote_recv_io' = FALSE /\ remote_send_io' = FALSE
  /\ send_timer' = FALSE /\ recv_timer' = FALSE

(* Suspend the reader of a direction until its writer has drained:      *)
(* ev_io_stop(reader); ev_io_start(writer).                              *)
WaitRemoteWritable == server_recv_io' = FALSE /\ remote_send_io' = TRUE
(* Seeded fault: remote_recv_cb forgets ev_io_stop on its own watcher. *)
WaitClientWritableKeepReading == remote_recv_io' = TRUE /\ server_send_io' = TRUE
WaitClientWritable == remote_recv_io' = FALSE /\ server_send_io' = TRUE

(* The connect completion of remote_send_cb, when jc: connected = 1,     *)
(* connect timer stopped, idle timer and upstream reads started.          *)
(* Seeded fault: the idle timer is not started on connect. *)
AfterConnectNoIdleTimer(jc) ==
  /\ connected' = TRUE
  /\ send_timer' = (send_timer /\ ~jc)
  /\ recv_timer' = recv_timer
  /\ remote_recv_io' = (remote_recv_io \/ jc)
AfterConnect(jc) ==
  /\ connected' = TRUE
  /\ send_timer' = (send_timer /\ ~jc)
  /\ recv_timer' = (recv_timer \/ jc)
  /\ remote_recv_io' = (remote_recv_io \/ jc)

(* The sizes a recv on the inbound socket can return when avail bytes are  *)
(* queued: at most BUF_SIZE, and, unless Fragment, a whole number of the   *)
(* client's writes.                                                        *)
RecvSizes(avail) ==
  {n \in 1..Min({avail, BUF_SIZE}) : Fragment \/ cli_read + n \in WriteEnds}

(***************************************************************************)
(* The stage-5 block of server_recv_cb: `wire` is what ss_encrypt left in *)
(* remote->buf (r tokens; r may be negative, see the stage-1 arithmetic).  *)
(* It either starts the connect, does the TCP-Fast-Open sendto, or sends. *)
(* Sets the session, watcher, remote-buffer and to_upstream variables.   *)
(***************************************************************************)
RelayToRemote(d, wire, r) ==
  LET buf == WriteBuf(remote_buf, wire)
      Keep == /\ alive' = TRUE /\ remote_alive' = TRUE
              /\ UNCHANGED <<server_send_io, recv_timer>>
      Sent(s) == to_upstream' = to_upstream \o SubSeq(wire, 1, s)
  IN
  \/ /\ ~d /\ CipherMayFail           \* ss_encrypt returned NULL
     /\ CloseAndFree
     /\ UNCHANGED <<connected, fast_open, remote_buf, remote_buf_idx,
                    remote_buf_len, to_upstream>>
  \/ /\ ~connected /\ (~fast_open \/ d)
     \* connect(); wait for the remote to become writable
     /\ remote_buf' = buf /\ remote_buf_idx' = 0 /\ remote_buf_len' = r
     /\ WaitRemoteWritable /\ send_timer' = TRUE
     /\ Keep
     /\ UNCHANGED <<connected, fast_open, remote_recv_io, to_upstream>>
  \/ /\ ~connected /\ fast_open /\ ~d
     /\ \/ \* sendto(MSG_FASTOPEN) == -1, EINPROGRESS
           /\ remote_buf' = buf /\ remote_buf_idx' = 0 /\ remote_buf_len' = r
           /\ WaitRemoteWritable
           /\ Keep
           /\ UNCHANGED <<connected, fast_open, remote_recv_io, send_timer,
                          to_upstream>>
        \/ \* ENOTCONN: fast open unsupported, turned off; or any other error
           /\ \E off \in BOOLEAN : fast_open' = (fast_open /\ ~off)
           /\ CloseAndFree
           /\ UNCHANGED <<connected, remote_buf, remote_buf_idx, remote_buf_len,
                          to_upstream>>
        \/ \E s \in 1..r :            \* s bytes went out with the SYN
           /\ Sent(s)
           /\ remote_buf' = buf
           /\ remote_buf_idx' = IF s < r THEN s ELSE 0
           /\ remote_buf_len' = IF s < r THEN r - s ELSE r
           /\ connected' = TRUE /\ send_timer' = FALSE /\ remote_recv_io' = TRUE
           /\ Keep
           /\ UNCHANGED <<fast_open, server_recv_io, remote_send_io>>
  \/ /\ connected
     /\ UNCHANGED <<connected, fast_open, remote_recv_io, send_timer>>
     /\ \/ /\ r > 0                   \* send == -1, EAGAIN
           /\ remote_buf' = buf /\ remote_buf_idx' = 0 /\ remote_buf_len' = r
           /\ WaitRemoteWritable
           /\ Keep /\ UNCHANGED to_upstream
        \/ /\ CloseAndFree            \* send == -1, other error
           /\ UNCHANGED <<remote_buf, remote_buf_idx, remote_buf_len, to_upstream>>
        \/ \E s \in 1..(r - 1) :      \* short send
           /\ Sent(s)
           /\ remote_buf' = buf /\ remote_buf_idx' = s /\ remote_buf_len' = r - s
           /\ WaitRemoteWritable
           /\ Keep
        \/ /\ r >= 0                  \* everything sent
           /\ Sent(r)
           /\ remote_buf' = buf
           /\ Keep
           /\ UNCHANGED <<remote_buf_idx, remote_buf_len, server_recv_io,
                          remote_send_io>>

(* Seeded fault: the stage is not advanced after the method reply. *)
HandleGreetingNoStage(chunk) ==
  /\ server_buf' = WriteBuf(server_buf, chunk)
  /\ to_client' = Append(to_client, MethodSelect)
  /\ UNCHANGED <<alive, remote_alive, crashed, stage, direct, connected,
                 fast_open, watchers, server_buf_idx, server_buf_len,
                 remote_buf, remote_buf_idx, remote_buf_len, to_upstream>>

(* Stage 0: any data is taken as the greeting; reply "no auth". *)
HandleGreeting(chunk) ==
  /\ server_buf' = WriteBuf(server_buf, chunk)
  /\ to_client' = Append(to_client, MethodSelect)
  /\ stage' = 1
  /\ UNCHANGED <<alive, remote_alive, crashed, direct, connected, fast_open,
                 watchers, server_buf_idx, server_buf_len, remote_buf,
                 remote_buf_idx, remote_buf_len, to_upstream>>

(***************************************************************************)
(* Stage 1: parse the request found in server->buf after a recv of n      *)
(* bytes.  Bytes beyond n are whatever the buffer held before.            *)
(***************************************************************************)
HandleRequest(chunk, n) ==
  LET b == WriteBuf(server_buf, chunk)
  IN
  \E cmd \in Readings(b[2], Cmds), atyp \in Readings(b[4], Atyps) :
  \/ /\ udprelay /\ cmd = "UDP_ASSOC"  \* reply with getsockname(), then close
     /\ server_buf' = WriteBuf(b, <<ReplyBound>>)
     /\ \E full \in BOOLEAN :
          to_client' = IF full THEN Append(to_client, ReplyBound) ELSE to_client
     /\ CloseAndFree
     /\ UNCHANGED <<crashed, stage, direct, connected, fast_open, server_buf_idx,
                    server_buf_len, remote_buf, remote_buf_idx, remote_buf_len,
                    to_upstream>>
  \/ /\ ~(udprelay /\ cmd = "UDP_ASSOC") /\ cmd # "CONNECT"
     /\ server_buf' = b
     /\ to_client' = Append(to_client, CmdNotSupported)
     /\ CloseAndFree
     /\ UNCHANGED <<crashed, stage, direct, connected, fast_open, server_buf_idx,
                    server_buf_len, remote_buf, remote_buf_idx, remote_buf_len,
                    to_upstream>>
  \/ /\ cmd = "CONNECT" /\ atyp \notin {"IPV4", "DOMAIN", "IPV6"}
     /\ server_buf' = b
     /\ CloseAndFree
     /\ UNCHANGED <<crashed, stage, direct, connected, fast_open, server_buf_idx,
                    server_buf_len, remote_buf, remote_buf_idx, remote_buf_len,
                    to_client, to_upstream>>
  \/ /\ cmd = "CONNECT" /\ atyp \in {"IPV4", "DOMAIN", "IPV6"}
     /\ stage' = 5
     /\ \E dst \in Readings(b[5], Dests), resolved \in {TRUE, ~ResolveMayFail} :
        LET isDirect == acl /\ atyp \in {"IPV4", "DOMAIN"} /\ dst \in AclDirect
            trailing == SubSeq(chunk, REQ_LEN + 1, n)
            r == RelayLen(isDirect, n)
            plain == IF isDirect THEN trailing
                     ELSE SubSeq(SubSeq(b, 4, REQ_LEN) \o trailing, 1, Max({r, 0}))
        IN
        \/ /\ ~resolved /\ isDirect     \* remote->direct = 1 on a NULL remote
           /\ crashed' = TRUE
           /\ server_buf' = b
           /\ UNCHANGED <<alive, remote_alive, direct, connected, fast_open,
                          watchers, server_buf_idx, server_buf_len, remote_buf,
                          remote_buf_idx, remote_buf_len, to_client, to_upstream>>
        \/ /\ ~resolved /\ ~isDirect    \* "invalid remote addr."
           /\ server_buf' = b
           /\ CloseAndFree
           /\ UNCHANGED <<crashed, direct, connected, fast_open, server_buf_idx,
                          server_buf_len, remote_buf, remote_buf_idx,
                          remote_buf_len, to_client, to_upstream>>
        \/ /\ resolved
           /\ direct' = isDirect
           /\ server_buf' = WriteBuf(b, <<ReplyZero>>)   \* the fake reply
           /\ UNCHANGED <<crashed, server_buf_idx, server_buf_len>>
           /\ \/ \* send() < reply_size: "failed to send fake reply."
                 /\ CloseAndFree
                 /\ UNCHANGED <<connected, fast_open, remote_buf, remote_buf_idx,
                                remote_buf_len, to_client, to_upstream>>
              \/ /\ to_client' = Append(to_client, ReplyZero)
                 /\ RelayToRemote(isDirect,
                                  IF isDirect THEN plain ELSE Enc(plain), r)

(***************************************************************************)
(* server_recv_cb: the inbound socket is readable.                        *)
(***************************************************************************)
server_recv_cb ==
  /\ ~crashed /\ alive /\ server_recv_io
  /\ UNCHANGED <<req, cli_pos, cli_closed, up_pos, up_read, up_closed>>
  /\ \/ /\ cli_read = cli_pos /\ cli_closed   \* recv == 0: client closed
        /\ CloseAndFree
        /\ UNCHANGED <<crashed, stage, direct, connected, fast_open, buffers,
                       cli_read, to_client, to_upstream>>
     \/ \E n \in RecvSizes(cli_pos - cli_read) :
        LET chunk == SubSeq(ClientStream, cli_read + 1, cli_read + n)
        IN
        /\ cli_read' = cli_read + n
        /\ \/ /\ stage = 0
              /\ HandleGreeting(chunk)
           \/ /\ stage = 1
              /\ HandleRequest(chunk, n)
           \/ /\ stage = 5
              /\ RelayToRemote(direct, IF direct THEN chunk ELSE Enc(chunk), n)
              /\ UNCHANGED <<crashed, stage, direct, server_buf, server_buf_idx,
                             server_buf_len, to_client>>

(***************************************************************************)
(* server_send_cb: the inbound socket is writable and server->buf holds   *)
(* server_buf_len unsent bytes at server_buf_idx.                         *)
(***************************************************************************)
server_send_cb ==
  /\ ~crashed /\ alive /\ server_send_io
  /\ UNCHANGED <<crashed, stage, direct, connected, fast_open, server_buf,
                 remote_buf, remote_buf_idx, remote_buf_len, req, cli_pos,
                 cli_read, cli_closed, upstream>>
  /\ \/ /\ CloseAndFree                   \* nothing to send, or send error
        /\ UNCHANGED <<server_buf_idx, server_buf_len, to_client>>
     \/ \E s \in 1..server_buf_len :
        /\ to_client' = to_client \o Pending(server_buf, server_buf_idx, s)
        /\ UNCHANGED <<alive, remote_alive, remote_send_io, send_timer,
                       recv_timer, server_recv_io>>
        /\ IF s < server_buf_len
           THEN /\ server_buf_len' = server_buf_len - s
                /\ server_buf_idx' = server_buf_idx + s
                /\ UNCHANGED <<server_send_io, remote_recv_io>>
           ELSE /\ server_buf_len' = 0 /\ server_buf_idx' = 0
                /\ server_send_io' = FALSE /\ remote_recv_io' = TRUE

(***************************************************************************)
(* remote_timeout_cb: the connect deadline or the idle deadline fired.    *)
(***************************************************************************)
remote_timeout_cb ==
  /\ ~crashed /\ alive /\ (send_timer \/ recv_timer)
  /\ CloseAndFree
  /\ UNCHANGED <<crashed, stage, direct, connected, fast_open, buffers,
                 client, upstream>>

(***************************************************************************)
(* remote_recv_cb: the upstream socket is readable.  The idle timer is    *)
(* restarted (ev_timer_again) before the recv.                            *)
(***************************************************************************)
remote_recv_cb ==
  /\ ~crashed /\ alive /\ remote_recv_io
  /\ UNCHANGED <<crashed, stage, direct, connected, fast_open, remote_buf,
                 remote_buf_idx, remote_buf_len, req, cli_pos, cli_read,
                 cli_closed, to_upstream, up_pos, up_closed>>
  /\ \/ /\ up_read = up_pos /\ up_closed      \* recv == 0: upstream closed
        /\ CloseAndFree
        /\ UNCHANGED <<server_buf, server_buf_idx, server_buf_len, to_client,
                       up_read>>
     \/ \E n \in 1..Min({up_pos - up_read, BUF_SIZE}) :
        LET chunk == SubSeq(UpWire, up_read + 1, up_read + n)
            plain == IF direct THEN chunk ELSE Dec(chunk)
        IN
        /\ up_read' = up_read + n
        /\ \/ /\ ~direct /\ CipherMayFail     \* ss_decrypt returned NULL
              /\ CloseAndFree
              /\ UNCHANGED <<server_buf, server_buf_idx, server_buf_len, to_client>>
           \/ /\ server_buf' = WriteBuf(server_buf, plain)
              /\ UNCHANGED <<alive, remote_alive, server_recv_io, remote_send_io,
                             send_timer>>
              /\ recv_timer' = TRUE
              /\ \/ \* send == -1, EAGAIN
                    /\ server_buf_len' = n /\ server_buf_idx' = 0
                    /\ WaitClientWritable
                    /\ UNCHANGED to_client
                 \/ \E s \in 1..(n - 1) :       \* short send
                    /\ to_client' = to_client \o SubSeq(plain, 1, s)
                    /\ server_buf_len' = n - s /\ server_buf_idx' = s
                    /\ WaitClientWritable
                 \/ /\ to_client' = to_client \o plain   \* everything sent
                    /\ UNCHANGED <<server_buf_idx, server_buf_len,
                                   remote_recv_io, server_send_io>>
           \/ /\ CloseAndFree                  \* send == -1, other error
              /\ UNCHANGED <<server_buf, server_buf_idx, server_buf_len, to_client>>

(***************************************************************************)
(* The flushing half of remote_send_cb.  jc: the connect completed in     *)
(* this same callback (timers switched, upstream reads armed).            *)
(***************************************************************************)
(* Seeded fault: a short send also stops the write watcher. *)
RemoteFlushStopOnShort(jc) ==
  \/ /\ CloseAndFree
     /\ UNCHANGED <<connected, remote_buf_idx, remote_buf_len, to_upstream>>
  \/ \E s \in 1..remote_buf_len :
     /\ to_upstream' = to_upstream \o Pending(remote_buf, remote_buf_idx, s)
     /\ alive' = TRUE /\ remote_alive' = TRUE
     /\ AfterConnect(jc)
     /\ UNCHANGED server_send_io
     /\ remote_send_io' = FALSE
     /\ IF s < remote_buf_len
        THEN /\ remote_buf_len' = remote_buf_len - s
             /\ remote_buf_idx' = remote_buf_idx + s
             /\ UNCHANGED server_recv_io
        ELSE /\ remote_buf_len' = 0 /\ remote_buf_idx' = 0
             /\ server_recv_io' = TRUE

RemoteFlush(jc) ==
  \/ /\ CloseAndFree                      \* nothing to send, or send error
     /\ UNCHANGED <<connected, remote_buf_idx, remote_buf_len, to_upstream>>
  \/ \E s \in 1..remote_buf_len :
     /\ to_upstream' = to_upstream \o Pending(remote_buf, remote_buf_idx, s)
     /\ alive' = TRUE /\ remote_alive' = TRUE
     /\ AfterConnect(jc)
     /\ UNCHANGED server_send_io
     /\ IF s < remote_buf_len
        THEN /\ remote_buf_len' = remote_buf_len - s
             /\ remote_buf_idx' = remote_buf_idx + s
             /\ UNCHANGED <<remote_send_io, server_recv_io>>
        ELSE /\ remote_buf_len' = 0 /\ remote_buf_idx' = 0
             /\ remote_send_io' = FALSE /\ server_recv_io' = TRUE

(***************************************************************************)
(* remote_send_cb: the upstream socket is writable; the first time this   *)
(* completes the connect (getpeername).                                   *)
(***************************************************************************)
remote_send_cb ==
  /\ ~crashed /\ alive /\ remote_send_io
  /\ UNCHANGED <<crashed, stage, direct, fast_open, server_buf, server_buf_idx,
                 server_buf_len, remote_buf, client, up_pos, up_read, up_closed>>
  /\ \/ /\ ~connected                     \* getpeername failed
        /\ CloseAndFree
        /\ UNCHANGED <<connected, remote_buf_idx, remote_buf_len, to_upstream>>
     \/ /\ ~connected /\ remote_buf_len = 0   \* connected, nothing to send
        /\ AfterConnect(TRUE)
        /\ remote_send_io' = FALSE /\ server_recv_io' = TRUE
        /\ UNCHANGED <<alive, remote_alive, server_send_io, remote_buf_idx,
                       remote_buf_len, to_upstream>>
     \/ /\ remote_buf_len # 0 \/ connected
        /\ RemoteFlush(~connected)

-----------------------------------------------------------------------------
(* The peers.  A well-behaved SOCKS5 client writes its request after the  *)
(* method reply and, unless it pipelines, its payload after the connect   *)
(* reply; it may close at any time.                                       *)
ClientWrite ==
  /\ ~crashed /\ alive /\ ~cli_closed
  /\ \/ cli_pos = 0
     \/ cli_pos = Len(Greeting) /\ Contains(to_client, MethodSelect)
     \/ /\ cli_pos >= Len(Greeting) + REQ_LEN /\ cli_pos < Len(ClientStream)
        /\ (req.pipeline \/ Contains(to_client, ReplyZero))
  /\ cli_pos' = Min({n \in WriteEnds : n > cli_pos})
  /\ UNCHANGED <<session, watchers, buffers, req, cli_read, cli_closed,
                 to_client, upstream>>

ClientClose ==
  /\ ~crashed /\ alive /\ ~cli_closed
  /\ cli_closed' = TRUE
  /\ UNCHANGED <<session, watchers, buffers, req, cli_pos, cli_read, to_client,
                 upstream>>

(* The upstream answers once the TCP connection exists, and may close.   *)
UpstreamWrite ==
  /\ ~crashed /\ remote_alive /\ connected /\ ~up_closed
  /\ up_pos < Len(UpData)
  /\ up_pos' = up_pos + 1
  /\ UNCHANGED <<session, watchers, buffers, client, to_upstream, up_read,
                 up_closed>>

UpstreamClose ==
  /\ ~crashed /\ remote_alive /\ connected /\ ~up_closed
  /\ up_closed' = TRUE
  /\ UNCHANGED <<session, watchers, buffers, client, to_upstream, up_pos,
                 up_read>>

(* The session is over (or the process died): nothing more happens. *)
Terminated ==
  /\ crashed \/ ~alive
  /\ UNCHANGED vars

-----------------------------------------------------------------------------
(* The state right after accept_cb: new_server, recv watcher started.    *)
Init ==
  /\ alive = TRUE /\ remote_alive = FALSE /\ crashed = FALSE
  /\ stage = 0 /\ direct = FALSE /\ connected = FALSE /\ fast_open = FastOpen
  /\ server_recv_io = TRUE /\ server_send_io = FALSE
  /\ remote_recv_io = FALSE /\ remote_send_io = FALSE
  /\ send_timer = FALSE /\ recv_timer = FALSE
  /\ server_buf = [i \in 1..BUF_SIZE |-> Junk]
  /\ remote_buf = [i \in 1..BUF_SIZE |-> Junk]
  /\ server_buf_idx = 0 /\ server_buf_len = 0
  /\ remote_buf_idx = 0 /\ remote_buf_len = 0
  /\ req \in [cmd : Cmds, atyp : Atyps, dst : Dests, pipeline : BOOLEAN]
  /\ cli_pos = 0 /\ cli_read = 0 /\ cli_closed = FALSE /\ to_client = <<>>
  /\ to_upstream = <<>> /\ up_pos = 0 /\ up_read = 0 /\ up_closed = FALSE

Next ==
  \/ server_recv_cb \/ server_send_cb
  \/ remote_recv_cb \/ remote_send_cb \/ remote_timeout_cb
  \/ ClientWrite \/ ClientClose \/ UpstreamWrite \/ UpstreamClose
  \/ Terminated

(* libev dispatches every armed watcher whose socket is ready, and the   *)
(* peers keep reading, so an armed writer is eventually run.             *)
Fairness == WF_vars(server_send_cb) /\ WF_vars(remote_send_cb)

Spec == Init /\ [][Next]_vars
FairSpec == Spec /\ Fairness

-----------------------------------------------------------------------------
(* Every variable has the type it should. *)
TypeOK ==
  /\ {alive, remote_alive, crashed, direct, connected, fast_open} \subseteq BOOLEAN
  /\ {server_recv_io, server_send_io, remote_recv_io, remote_send_io,
      send_timer, recv_timer} \subseteq BOOLEAN
  /\ stage \in {0, 1, 5}
  /\ server_buf \in [1..BUF_SIZE -> PlainTokens \cup {MethodSelect, ReplyZero,
                                                     ReplyBound}]
  /\ remote_buf \in [1..BUF_SIZE -> PlainTokens \cup {EncTok(t) : t \in PlainTokens}]
  /\ {server_buf_idx, server_buf_len, remote_buf_idx, remote_buf_len} \subseteq Int
  /\ req \in [cmd : Cmds, atyp : Atyps, dst : Dests, pipeline : BOOLEAN]
  /\ cli_pos \in 0..Len(ClientStream) /\ cli_read \in 0..cli_pos
  /\ up_pos \in 0..Len(UpData) /\ up_read \in 0..up_pos
  /\ {cli_closed, up_closed} \subseteq BOOLEAN

(* What the upstream must receive, given what ss-local has read from the  *)
(* client: the client stream after "ver cmd rsv" (so the shadowsocks      *)
(* header followed by the payload), enciphered; or, for a direct session, *)
(* the payload alone in clear.                                            *)
Forwardable ==
  LET skip == Len(Greeting) + IF direct THEN REQ_LEN ELSE 3
      plain == SubSeq(ClientStream, skip + 1, cli_read)
  IN IF direct THEN plain ELSE Enc(plain)

(* Bytes read from one side of a relaying session not yet delivered to    *)
(* the other side (the client has had the two handshake replies).        *)
UpPending == stage = 5 /\ Len(to_upstream) < Len(Forwardable)
DownPending == stage = 5 /\ Len(to_client) < 2 + up_read

(* What the client must receive: the method reply, then the reply to its *)
(* request, then (CONNECT) the upstream's payload deciphered.            *)
ExpectedToClient ==
  <<MethodSelect>> \o
    CASE req.cmd = "CONNECT"                -> <<ReplyZero>> \o UpData
      [] req.cmd = "UDP_ASSOC" /\ udprelay  -> <<ReplyBound>>
      [] OTHER                              -> <<CmdNotSupported>>

(* Stream integrity, client to upstream (server_recv_cb, remote_send_cb): *)
(* whatever partial sends, EAGAINs and connect paths occur, the upstream *)
(* receives a prefix of the header and the client's payload, in order,   *)
(* with nothing lost, duplicated or overwritten in remote->buf.          *)
UpstreamIsClientStream == IsPrefix(to_upstream, Forwardable)

(* Stream integrity, upstream to client (remote_recv_cb, server_send_cb): *)
(* the client receives the handshake replies and then exactly the        *)
(* deciphered upstream payload, in order.                                *)
ClientStreamIntegrity == IsPrefix(to_client, ExpectedToClient)

(* Backpressure: a direction's reader is armed only when everything it   *)
(* read has been delivered, so a recv never overwrites a buffer that     *)
(* still holds unsent bytes (the watcher switching of all four I/O       *)
(* callbacks).                                                            *)
ReaderArmedOnlyWhenFlushed ==
  alive /\ ~crashed =>
    /\ server_recv_io => ~UpPending
    /\ remote_recv_io => ~DownPending

(* While an upstream endpoint exists, a deadline (connect or idle timer) *)
(* is armed, so a session stuck on a silent upstream is torn down.       *)
TimerGuard == alive /\ ~crashed /\ remote_alive => send_timer \/ recv_timer

(* Bytes read from either side are eventually delivered to the other     *)
(* side or the session is torn down (or the process died): no byte is  *)
(* stranded in a buffer with no watcher to flush it.                     *)
Gone == ~alive \/ crashed
EventuallyFlushed ==
  /\ UpPending ~> (~UpPending \/ Gone)
  /\ DownPending ~> (~DownPending \/ Gone)

(* Turning TCP Fast Open off (sendto fails with ENOTCONN) falls back to  *)
(* an ordinary connect: the session survives (spec, error kind 8).       *)
FallbackKeepsSession == [][fast_open /\ ~fast_open' => alive']_vars

(* The process never dereferences a NULL remote (connect_to_remote may   *)
(* fail on the direct path too).                                          *)
NoNullDeref == ~crashed

(* buf_idx + buf_len never exceed the buffer, and neither is negative    *)
(* (spec, data model invariant 5).                                        *)
BufferBounds ==
  \A p \in {<<server_buf_idx, server_buf_len>>, <<remote_buf_idx, remote_buf_len>>} :
    p[1] >= 0 /\ p[2] >= 0 /\ p[1] + p[2] <= BUF_SIZE

-----------------------------------------------------------------------------
(* The session seen through the SOCKS5 contract of Socks5Session: the    *)
(* phase follows server->stage until the session is freed; the first two *)
(* tokens the client receives are handshake replies, the rest payload.   *)
SessionPhase ==
  IF ~alive \/ crashed THEN "closed"
  ELSE CASE stage = 0 -> "greeting"
         [] stage = 1 -> "request"
         [] OTHER     -> "relay"

Abstract == INSTANCE Socks5Session WITH
              phase <- SessionPhase,
              replies <- SubSeq(to_client, 1, Min({2, Len(to_client)})),
              down <- SubSeq(to_client, 3, Len(to_client)),
              up <- to_upstream,
              MethodReply <- MethodSelect,
              SuccessReply <- ReplyZero,
              RefusalReplies <- {CmdNotSupported, ReplyBound}

(* Every behaviour of the callbacks is a behaviour of the SOCKS5 session *)
(* contract: one method reply, then one reply to the request, payload    *)
(* only after the success reply (server_recv_cb stage 0/1 and the fake  *)
(* reply before the first relay), and nothing after teardown.            *)
RefinesSocks5Session == Abstract!Spec

=============================================================================
